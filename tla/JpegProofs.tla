----------------------------- MODULE JpegProofs -----------------------------
(***************************************************************************)
(* The JPEG library, for images of any size.                               *)
(*                                                                         *)
(* JpegVirtualArray: ArrayInv follows each row between the window and the  *)
(* backing store.  Kept says where it is: what is defined is in the window *)
(* or else in the store, and a window that was not written to is the same  *)
(* as the store.                                                           *)
(*                                                                         *)
(* JpegDecompressor: DecompressorInv ties the scans in each row of the     *)
(* coefficients to how far the input is (RowsRead), and the output to the  *)
(* input (InStep).                                                         *)
(*                                                                         *)
(* JpegColor: the sums of the conversions, computed without rounding, are  *)
(* compared with the rounded ones (RoundedToSample, RoundedToDifference).  *)
(*                                                                         *)
(* JpegRestart: an induction over the intervals of a scan; State says what *)
(* the reader has in hand before an interval, Following which marker comes *)
(* next (DecodedInItsPlace).                                               *)
(*                                                                         *)
(* JpegTransform: all transformations of a component are one formula       *)
(* (AllTurned, Turned): where a block comes from, and which signs change.  *)
(* Two of them after one another are followed coefficient by coefficient   *)
(* (TurnedTwice), partial iMCUs at the edges included: those stay where    *)
(* they are.  The padding of a component is not followed, it is not part   *)
(* of the image (ShowsSame).                                               *)
(*                                                                         *)
(* JpegHuffman: a fold is a run of steps (FoldIs).  The codes of a table   *)
(* ascend with its places, so that what is read is found in one of them    *)
(* (CodesAreDecoded); Done says how far the decoder is with what the       *)
(* encoder has written for the coefficients so far (BlocksAreDecoded), and *)
(* HasRead what it holds after some bytes (BytesAreRead).                  *)
(***************************************************************************)
EXTENDS JpegVirtualArray, JpegDecompressor, JpegColor, JpegRestart, JpegTransform, JpegHuffman,
        FiniteSetTheorems, WellFoundedInduction, TLAPS

-----------------------------------------------------------------------------
(* A virtual array.                                                        *)

Contents == Values \cup {Zero, Junk}

ArrayTypes ==
  /\ rows_in_mem \in 0 .. numrows
  /\ cur_start_row \in Nat
  /\ first_undef_row \in 0 .. numrows
  /\ {pre_zero, dirty, b_s_open} \subseteq BOOLEAN
  /\ {mem_buffer, backing, written} \subseteq [Rows -> Contents]
  /\ strip \in [first : Nat, end : Nat, writable : BOOLEAN]

\* The window is the whole array, or there is a store behind it and room for
\* any strip.
Windowed ==
  /\ error # "VIRTUAL_BUG"
  /\ rows_in_mem > 0 => b_s_open = (rows_in_mem < numrows)
  /\ b_s_open => maxaccess <= rows_in_mem
  /\ ~b_s_open => cur_start_row = 0
  /\ rows_in_mem = 0 => first_undef_row = 0 /\ strip.first = strip.end /\ ~strip.writable

Within(start, row) == start <= row /\ row < start + rows_in_mem
InBuffer(row) == Within(cur_start_row, row)

\* Of a strip: it is in the buffer and in the array, and a row of it that is
\* written to is defined, and will go to the store.
StripInBuffer ==
  /\ \A row \in strip.first .. strip.end - 1 : row \in Rows /\ InBuffer(row)
  /\ strip.writable => dirty /\ strip.end <= first_undef_row

\* Of the rows: what is defined is in the buffer or else in the store; a clean
\* buffer can be dropped.
Defined(row) == row < first_undef_row
Kept ==
  /\ \A row \in Rows : written[row] # Junk => Defined(row)
  /\ \A row \in Rows : Defined(row) /\ InBuffer(row) => Holds(row, mem_buffer[row - cur_start_row])
  /\ \A row \in Rows : Defined(row) /\ (~InBuffer(row) \/ ~dirty) => Holds(row, backing[row])
  /\ \A row \in strip.first .. strip.end - 1 : Holds(row, mem_buffer[row - cur_start_row])

ArrayInv == ArrayTypes /\ Windowed /\ StripInBuffer /\ Kept

-----------------------------------------------------------------------------

\* The memory of an array: all of its rows, or room for at least a strip.
LEMMA RowsInMemFits ==
  ASSUME NEW avail_mem \in Nat, NEW least \in Nat, NEW all \in Nat
  PROVE  /\ RowsInMem(avail_mem, least, all) \in 1 .. numrows
         /\ RowsInMem(avail_mem, least, all) < numrows =>
              maxaccess <= RowsInMem(avail_mem, least, all)
<1> DEFINE minheights == (numrows - 1) \div maxaccess + 1
           parcel == avail_mem \div (maxaccess + least)
           max_minheights == IF parcel <= 0 THEN 1 ELSE parcel
<1>1. numrows \in Nat /\ numrows >= 1 /\ maxaccess \in Nat /\ maxaccess >= 1
  BY ArrayAssumption
<1>2. parcel \in Int
  <2>1. maxaccess + least \in Nat /\ maxaccess + least > 0
    BY <1>1
  <2> QED
    BY <2>1
<1>3. max_minheights \in Nat /\ max_minheights >= 1
  <2> HIDE DEF parcel
  <2> QED
    BY <1>2
<1>4. (numrows - 1) \div maxaccess \in Int
      /\ ((numrows - 1) \div maxaccess) * maxaccess <= numrows - 1
  BY <1>1
<1> HIDE DEF max_minheights
<1>5. RowsInMem(avail_mem, least, all) =
        IF avail_mem >= numrows + all \/ minheights <= max_minheights
        THEN numrows ELSE max_minheights * maxaccess
  BY DEF RowsInMem, max_minheights
<1>6. ASSUME ~(minheights <= max_minheights)
      PROVE  max_minheights * maxaccess \in 1 .. numrows
             /\ maxaccess <= max_minheights * maxaccess
  <2>1. max_minheights <= (numrows - 1) \div maxaccess
    BY <1>3, <1>4, <1>6
  <2>2. \A a, b, m \in Int : a <= b /\ m >= 1 => a * m <= b * m
    OBVIOUS
  <2>3. max_minheights * maxaccess <= ((numrows - 1) \div maxaccess) * maxaccess
    BY <1>1, <1>3, <1>4, <2>1, <2>2
  <2>4. 1 * maxaccess <= max_minheights * maxaccess
    BY <1>1, <1>3, <2>2
  <2>5. max_minheights * maxaccess \in Int /\ ((numrows - 1) \div maxaccess) * maxaccess \in Int
    BY <1>1, <1>3, <1>4
  <2> QED
    BY <1>1, <1>4, <2>3, <2>4, <2>5
<1> QED
  BY <1>1, <1>5, <1>6

\* do_sarray_io, writing: afterwards the store has every row that is defined.
\* Reading: the rows of the new window that are defined come from the store.
LEMMA StoreHolds ==
  ASSUME ArrayInv, NEW store, store = IF dirty THEN WriteStore ELSE backing
  PROVE  /\ store \in [Rows -> Contents]
         /\ \A row \in Rows : Defined(row) => Holds(row, store[row])
<1>1. /\ ArrayTypes
      /\ \A row \in Rows : Defined(row) /\ InBuffer(row) => Holds(row, mem_buffer[row - cur_start_row])
      /\ \A row \in Rows : Defined(row) /\ (~InBuffer(row) \/ ~dirty) => Holds(row, backing[row])
  BY DEF ArrayInv, Kept
<1>2. numrows \in Nat /\ rows_in_mem \in 0 .. numrows /\ cur_start_row \in Nat
      /\ first_undef_row \in Nat
  BY <1>1, ArrayAssumption DEF ArrayTypes
<1>3. CASE ~dirty
  BY <1>1, <1>3 DEF ArrayTypes
<1>4. CASE dirty
  <2>1. store = WriteStore
    BY <1>4
  <2>2. ASSUME NEW row \in Rows
        PROVE  /\ store[row] \in Contents
               /\ Defined(row) => Holds(row, store[row])
    <3>1. store[row] = IF Defined(row) /\ InBuffer(row) THEN mem_buffer[row - cur_start_row]
                       ELSE backing[row]
      BY <2>1 DEF WriteStore, Transferred, Defined, InBuffer, Within
    <3>2. InBuffer(row) => row - cur_start_row \in Rows
      BY <1>2 DEF InBuffer, Within, Rows
    <3> QED
      BY <1>1, <3>1, <3>2 DEF ArrayTypes
  <2>3. store = [row \in Rows |-> store[row]]
    BY <2>1 DEF WriteStore
  <2> QED
    BY <2>2, <2>3
<1> QED
  BY <1>3, <1>4

LEMMA ReadHolds ==
  ASSUME ArrayTypes, NEW store \in [Rows -> Contents], NEW start \in Nat
  PROVE  /\ ReadStore(store, start) \in [Rows -> Contents]
         /\ \A row \in Rows :
              Defined(row) /\ Within(start, row) =>
                ReadStore(store, start)[row - start] = store[row]
<1>1. numrows \in Nat /\ rows_in_mem \in 0 .. numrows /\ first_undef_row \in Nat
  BY ArrayAssumption DEF ArrayTypes
<1>2. \A k \in Rows : start + k \in Transferred(start) => start + k \in Rows
  BY DEF Transferred
<1>3. ReadStore(store, start) \in [Rows -> Contents]
  BY <1>2 DEF ReadStore, ArrayTypes
<1>4. ASSUME NEW row \in Rows, Defined(row), Within(start, row)
      PROVE  ReadStore(store, start)[row - start] = store[row]
  <2>1. row - start \in Rows /\ start + (row - start) = row
    BY <1>1, <1>4 DEF Rows, Within
  <2>2. row \in Transferred(start)
    BY <1>4 DEF Transferred, Defined, Within
  <2> QED
    BY <2>1, <2>2 DEF ReadStore
<1> QED
  BY <1>3, <1>4

\* Wherever the window goes, the strip that is asked for is in it.
LEMMA WindowFits ==
  ASSUME ArrayTypes, Windowed, NEW start_row \in Rows, NEW end_row \in 1 .. numrows,
         start_row < end_row, end_row - start_row <= maxaccess, b_s_open,
         ~InWindow(cur_start_row, start_row, end_row)
  PROVE  /\ WindowFor(start_row, end_row) \in Nat
         /\ InWindow(WindowFor(start_row, end_row), start_row, end_row)
<1>1. /\ numrows \in Nat /\ rows_in_mem \in 0 .. numrows /\ maxaccess \in Nat
      /\ cur_start_row \in Nat /\ maxaccess <= rows_in_mem
  BY ArrayAssumption DEF ArrayTypes, Windowed
<1>2. start_row \in Nat /\ end_row \in Nat
  BY DEF Rows
<1> QED
  BY <1>1, <1>2 DEF WindowFor, InWindow

\* Where a row of a window is in the buffer.
LEMMA PlaceInBuffer ==
  ASSUME rows_in_mem \in 0 .. numrows, NEW start \in Nat, NEW row \in Rows, Within(start, row)
  PROVE  row - start \in Rows /\ start + (row - start) = row
<1>1. numrows \in Nat /\ row \in 0 .. numrows - 1
  BY ArrayAssumption DEF Rows
<1> QED
  BY <1>1 DEF Within, Rows

\* The rows of a strip that is in a window.
LEMMA StripRows ==
  ASSUME rows_in_mem \in 0 .. numrows, NEW start \in Nat, NEW first \in Nat, NEW end \in 0 .. numrows,
         InWindow(start, first, end), NEW row \in first .. end - 1
  PROVE  row \in Rows /\ Within(start, row) /\ first <= row /\ row < end
<1>1. numrows \in Nat
  BY ArrayAssumption
<1> QED
  BY <1>1 DEF Within, Rows, InWindow

\* What an access finds once the strip is in the buffer: do_sarray_io has moved
\* the window, or did not have to.
Found(start_row, end_row, inside, buffer) ==
  /\ cur_start_row' \in Nat /\ InWindow(cur_start_row', start_row, end_row)
  /\ ~b_s_open => cur_start_row' = 0
  /\ buffer \in [Rows -> Contents] /\ backing' \in [Rows -> Contents]
  /\ \A row \in Rows :
       Defined(row) /\ Within(cur_start_row', row) => Holds(row, buffer[row - cur_start_row'])
  /\ \A row \in Rows :
       Defined(row) /\ (~Within(cur_start_row', row) \/ ~(dirty /\ inside))
         => Holds(row, backing'[row])

LEMMA AccessFinds ==
  ASSUME ArrayInv, NEW start_row \in Rows, NEW end_row \in 1 .. numrows,
         start_row < end_row, end_row - start_row <= maxaccess, NEW inside \in BOOLEAN,
         inside = InWindow(cur_start_row, start_row, end_row), inside \/ b_s_open,
         cur_start_row' = IF inside THEN cur_start_row ELSE WindowFor(start_row, end_row),
         backing' = IF ~inside /\ dirty THEN WriteStore ELSE backing
  PROVE  Found(start_row, end_row, inside,
               IF inside THEN mem_buffer ELSE ReadStore(backing', cur_start_row'))
<1>1. ArrayTypes /\ Windowed /\ Kept
  BY DEF ArrayInv
<1>2. CASE inside
  <2>1. cur_start_row' = cur_start_row /\ backing' = backing
    BY <1>2
  <2> QED
    BY <1>1, <1>2, <2>1 DEF Found, ArrayTypes, Windowed, Kept, InBuffer
<1>3. CASE ~inside
  <2>1. /\ cur_start_row' = WindowFor(start_row, end_row)
        /\ backing' = IF dirty THEN WriteStore ELSE backing
    BY <1>3
  <2>2. cur_start_row' \in Nat /\ InWindow(cur_start_row', start_row, end_row) /\ b_s_open
    BY <1>1, <1>3, <2>1, WindowFits
  <2>3. /\ backing' \in [Rows -> Contents]
        /\ \A row \in Rows : Defined(row) => Holds(row, backing'[row])
    BY <2>1, StoreHolds
  <2> DEFINE buffer == ReadStore(backing', cur_start_row')
  <2>4. /\ buffer \in [Rows -> Contents]
        /\ \A row \in Rows :
             Defined(row) /\ Within(cur_start_row', row) =>
               buffer[row - cur_start_row'] = backing'[row]
    BY <1>1, <2>2, <2>3, ReadHolds
  <2> HIDE DEF buffer
  <2>5. Found(start_row, end_row, inside, buffer)
    BY <2>2, <2>3, <2>4 DEF Found
  <2> QED
    BY <1>3, <2>5 DEF buffer
<1> QED
  BY <1>2, <1>3

\* An access that is refused leaves no strip.
LEMMA RefusedKeeps ==
  ASSUME ArrayInv, NEW start_row \in Rows, NEW end_row \in 1 .. numrows,
         NEW inside \in BOOLEAN, Found(start_row, end_row, inside, mem_buffer'),
         error' = "BAD_VIRTUAL_ACCESS", dirty' = (dirty /\ inside), strip' = NoStrip,
         UNCHANGED <<control, first_undef_row, written>>
  PROVE  ArrayInv'
<1>1. ArrayTypes /\ Windowed /\ Kept /\ UNCHANGED <<rows_in_mem, pre_zero, b_s_open>>
  BY DEF ArrayInv, control
<1>2. strip' = [first |-> 0, end |-> 0, writable |-> FALSE]
  BY DEF NoStrip
<1>3. ArrayTypes'
  BY <1>1, <1>2 DEF ArrayTypes, Found, Rows, Contents
<1>4. Windowed'
  BY <1>1, <1>2 DEF Windowed, Found
<1>5. StripInBuffer'
  BY <1>2 DEF StripInBuffer
<1>6. Kept'
  <2>1. UNCHANGED <<rows_in_mem, pre_zero, first_undef_row, written>>
    BY DEF control
  <2>2. \A row \in Rows : written'[row] # Junk => Defined(row)'
    BY <1>1, <2>1 DEF Kept, Defined
  <2>3. \A row \in Rows : Defined(row)' /\ InBuffer(row)' =>
                            Holds(row, mem_buffer[row - cur_start_row])'
    BY <2>1 DEF Found, Defined, InBuffer, Within, Holds
  <2>4. \A row \in Rows : Defined(row)' /\ (~InBuffer(row)' \/ ~dirty') =>
                            Holds(row, backing[row])'
    BY <2>1 DEF Found, Defined, InBuffer, Within, Holds
  <2>5. strip'.first .. strip'.end - 1 = {}
    BY <1>2
  <2> QED
    BY <2>2, <2>3, <2>4, <2>5 DEF Kept
<1> QED
  BY <1>3, <1>4, <1>5, <1>6 DEF ArrayInv

\* An access that is granted: rows of the strip that were never written to are
\* zero now, if they are to be; those that a writer may write to are defined.
LEMMA GrantedKeeps ==
  ASSUME ArrayInv, NEW start_row \in Rows, NEW end_row \in 1 .. numrows,
         start_row < end_row, NEW inside \in BOOLEAN, NEW writable \in BOOLEAN, NEW buffer,
         Found(start_row, end_row, inside, buffer), rows_in_mem > 0,
         ~NotDefined(start_row, end_row, writable),
         error' = "none", mem_buffer' = Prezero(buffer, cur_start_row', start_row, end_row),
         dirty' = (writable \/ (dirty /\ inside)),
         strip' = [first |-> start_row, end |-> end_row, writable |-> writable],
         first_undef_row' = IF writable /\ first_undef_row < end_row
                            THEN end_row ELSE first_undef_row,
         UNCHANGED <<control, written>>
  PROVE  ArrayInv'
<1>1. ArrayTypes /\ Windowed /\ Kept /\ UNCHANGED <<rows_in_mem, pre_zero, b_s_open, written>>
  BY DEF ArrayInv, control
<1>2. /\ numrows \in Nat /\ rows_in_mem \in 0 .. numrows /\ cur_start_row' \in Nat
      /\ first_undef_row \in 0 .. numrows /\ start_row \in Nat /\ end_row \in Nat
  BY <1>1, ArrayAssumption DEF ArrayTypes, Found, Rows
<1>3. /\ strip'.first = start_row /\ strip'.end = end_row /\ strip'.writable = writable
      /\ strip' \in [first : Nat, end : Nat, writable : BOOLEAN]
  BY <1>2
<1>4. InWindow(cur_start_row', start_row, end_row) /\ end_row \in 0 .. numrows
  BY <1>2 DEF Found
<1>5. first_undef_row' \in 0 .. numrows /\ first_undef_row <= first_undef_row'
  BY <1>2
\* The rows that become defined are in the strip.
<1>6. \A row \in Rows : first_undef_row <= row /\ row < first_undef_row' =>
                          start_row <= row /\ row < end_row /\ writable
  <2>1. writable /\ first_undef_row < end_row => start_row <= first_undef_row
    BY <1>2 DEF NotDefined, Rows
  <2> QED
    BY <1>2, <2>1 DEF Rows
\* What a row in the buffer holds now.
<1>7. ASSUME NEW row \in Rows, Within(cur_start_row', row)
      PROVE  mem_buffer'[row - cur_start_row'] =
               IF pre_zero /\ first_undef_row <= row /\ start_row <= row /\ row < end_row
               THEN Zero ELSE buffer[row - cur_start_row']
  <2>1. row - cur_start_row' \in Rows /\ cur_start_row' + (row - cur_start_row') = row
    BY <1>2, <1>7, PlaceInBuffer
  <2> QED
    BY <2>1 DEF Prezero
<1>8. ASSUME NEW row \in Rows, Within(cur_start_row', row),
             Defined(row) \/ (start_row <= row /\ row < end_row)
      PROVE  Holds(row, mem_buffer[row - cur_start_row])'
  <2>1. CASE Defined(row)
    <3>1. ~(first_undef_row <= row)
      BY <1>2, <2>1 DEF Defined, Rows
    <3>2. Holds(row, buffer[row - cur_start_row'])
      BY <1>8, <2>1 DEF Found
    <3> QED
      BY <1>1, <1>7, <1>8, <3>1, <3>2 DEF Holds
  <2>2. CASE ~Defined(row)
    <3>1. first_undef_row <= row /\ written[row] = Junk
      BY <1>1, <1>2, <2>2 DEF Defined, Rows, Kept
    <3> QED
      BY <1>1, <1>7, <1>8, <2>2, <3>1 DEF Holds
  <2> QED
    BY <2>1, <2>2
<1>9. ArrayTypes'
  <2>1. mem_buffer' \in [Rows -> Contents]
    BY DEF Prezero, Found, Contents
  <2> QED
    BY <1>1, <1>2, <1>3, <1>5, <2>1 DEF ArrayTypes, Found, Rows, Contents
<1>10. Windowed'
  BY <1>1, <1>2 DEF Windowed, Found
<1>11. StripInBuffer'
  <2>1. ASSUME NEW row \in strip'.first .. strip'.end - 1 PROVE row \in Rows /\ InBuffer(row)'
    <3>1. row \in Rows /\ Within(cur_start_row', row)
      BY <1>2, <1>3, <1>4, StripRows
    <3> QED
      BY <1>1, <3>1 DEF InBuffer, Within
  <2>2. strip'.writable => dirty' /\ strip'.end <= first_undef_row'
    <3> SUFFICES ASSUME writable PROVE end_row <= first_undef_row'
      BY <1>3
    <3>1. first_undef_row' = IF first_undef_row < end_row THEN end_row ELSE first_undef_row
      OBVIOUS
    <3> QED
      BY <1>2, <3>1
  <2> QED
    BY <2>1, <2>2 DEF StripInBuffer, Rows
<1>12. Kept'
  <2>1. ASSUME NEW row \in Rows, written'[row] # Junk PROVE Defined(row)'
    BY <1>1, <1>2, <1>5, <2>1 DEF Kept, Defined, Rows
  <2>2. ASSUME NEW row \in Rows, Defined(row)', InBuffer(row)'
        PROVE  Holds(row, mem_buffer[row - cur_start_row])'
    <3>1. Within(cur_start_row', row)
      BY <1>1, <2>2 DEF InBuffer, Within
    <3>2. Defined(row) \/ (start_row <= row /\ row < end_row)
      BY <1>2, <1>5, <1>6, <2>2 DEF Defined, Rows
    <3> QED
      BY <1>8, <3>1, <3>2
  <2>3. ASSUME NEW row \in Rows, Defined(row)', ~InBuffer(row)' \/ ~dirty'
        PROVE  Holds(row, backing[row])'
    <3>1. InBuffer(row)' = Within(cur_start_row', row)
      BY <1>1 DEF InBuffer, Within
    <3>2. Defined(row)
      <4>1. CASE ~dirty'
        BY <2>3, <4>1 DEF Defined
      <4>2. CASE ~Within(cur_start_row', row)
        <5>1. ~(start_row <= row /\ row < end_row)
          <6>1. start_row <= row /\ row < end_row => row \in start_row .. end_row - 1
            BY <1>2 DEF Rows
          <6> QED
            BY <1>2, <1>4, <4>2, <6>1, StripRows
        <5> QED
          BY <1>2, <1>5, <1>6, <2>3, <5>1 DEF Defined, Rows
      <4> QED
        BY <2>3, <3>1, <4>1, <4>2
    <3>3. Holds(row, backing'[row])
      BY <2>3, <3>1, <3>2 DEF Found
    <3> QED
      BY <1>1, <3>3 DEF Holds
  <2>4. ASSUME NEW row \in strip'.first .. strip'.end - 1
        PROVE  Holds(row, mem_buffer[row - cur_start_row])'
    <3>1. row \in Rows /\ Within(cur_start_row', row) /\ start_row <= row /\ row < end_row
      BY <1>2, <1>3, <1>4, StripRows
    <3> QED
      BY <1>8, <3>1
  <2> QED
    BY <2>1, <2>2, <2>3, <2>4 DEF Kept, Rows
<1> QED
  BY <1>9, <1>10, <1>11, <1>12 DEF ArrayInv

LEMMA AccessKeeps ==
  ASSUME ArrayInv, NEW start_row \in Rows, NEW end_row \in 1 .. numrows,
         NEW writable \in BOOLEAN, Access(start_row, end_row, writable)
  PROVE  ArrayInv'
<1> DEFINE inside == InWindow(cur_start_row, start_row, end_row)
           buffer == IF inside THEN mem_buffer ELSE ReadStore(backing', cur_start_row')
<1>1. /\ ArrayTypes /\ Windowed /\ rows_in_mem > 0 /\ start_row < end_row
      /\ end_row <= numrows /\ end_row - start_row <= maxaccess
      /\ UNCHANGED <<control, written>> /\ inside \in BOOLEAN
  BY DEF ArrayInv, Access, InWindow
<1>2. inside \/ b_s_open
  <2>1. CASE ~b_s_open
    <3>1. rows_in_mem \in 1 .. numrows /\ ~(rows_in_mem < numrows) /\ cur_start_row = 0
      <4>1. rows_in_mem \in 0 .. numrows /\ numrows \in Nat
        BY <1>1, ArrayAssumption DEF ArrayTypes
      <4>2. b_s_open = (rows_in_mem < numrows) /\ cur_start_row = 0
        BY <1>1, <2>1 DEF Windowed
      <4>3. ~(rows_in_mem < numrows)
        BY <2>1, <4>2
      <4> QED
        BY <1>1, <4>1, <4>2, <4>3
    <3>2. rows_in_mem = numrows /\ numrows \in Nat
      BY <3>1, ArrayAssumption
    <3> QED
      BY <3>1, <3>2 DEF InWindow, Rows
  <2> QED
    BY <1>1, <2>1
<1>3. /\ cur_start_row' = IF inside THEN cur_start_row ELSE WindowFor(start_row, end_row)
      /\ backing' = IF ~inside /\ dirty THEN WriteStore ELSE backing
  BY <1>2 DEF Access
<1>4. Found(start_row, end_row, inside, buffer)
  BY <1>1, <1>2, <1>3, AccessFinds
<1>5. CASE NotDefined(start_row, end_row, writable)
  <2>1. /\ error' = "BAD_VIRTUAL_ACCESS" /\ mem_buffer' = buffer
        /\ dirty' = (dirty /\ inside) /\ strip' = NoStrip /\ UNCHANGED first_undef_row
    BY <1>2, <1>5 DEF Access
  <2> HIDE DEF inside, buffer
  <2> QED
    BY <1>1, <1>4, <2>1, RefusedKeeps
<1>6. CASE ~NotDefined(start_row, end_row, writable)
  <2>1. /\ error' = "none"
        /\ mem_buffer' = Prezero(buffer, cur_start_row', start_row, end_row)
        /\ dirty' = (writable \/ (dirty /\ inside))
        /\ strip' = [first |-> start_row, end |-> end_row, writable |-> writable]
        /\ first_undef_row' = IF writable /\ first_undef_row < end_row
                              THEN end_row ELSE first_undef_row
    BY <1>2, <1>6 DEF Access
  <2> HIDE DEF inside, buffer
  <2> QED
    BY <1>1, <1>4, <1>6, <2>1, GrantedKeeps
<1> QED
  BY <1>5, <1>6

LEMMA WriteKeeps ==
  ASSUME ArrayInv, NEW row \in Rows, NEW value \in Values, Write(row, value)
  PROVE  ArrayInv'
<1>1. /\ ArrayTypes /\ Windowed /\ StripInBuffer /\ Kept
      /\ UNCHANGED <<rows_in_mem, pre_zero, b_s_open, cur_start_row, first_undef_row, dirty,
                     backing, strip, error>>
  BY DEF ArrayInv, Write, control
<1>2. /\ strip.writable /\ strip.first <= row /\ row < strip.end
      /\ mem_buffer' = [mem_buffer EXCEPT ![row - cur_start_row] = value]
      /\ written' = [written EXCEPT ![row] = value]
  BY DEF Write
<1>3. numrows \in Nat /\ rows_in_mem \in 0 .. numrows /\ cur_start_row \in Nat /\ row \in Int
      /\ strip.first \in Int /\ strip.end \in Int /\ first_undef_row \in Int
  BY <1>1, ArrayAssumption DEF ArrayTypes, Rows
<1>4. row \in strip.first .. strip.end - 1
  BY <1>2, <1>3
<1>5. InBuffer(row) /\ dirty /\ Defined(row) /\ row - cur_start_row \in Rows
  <2>1. InBuffer(row) /\ dirty /\ Defined(row)
    BY <1>1, <1>2, <1>3, <1>4 DEF StripInBuffer, Defined
  <2> QED
    BY <1>3, <2>1 DEF InBuffer, Within, Rows
<1>6. ArrayTypes'
  BY <1>1, <1>2, <1>5 DEF ArrayTypes, Contents
<1>7. Windowed' /\ StripInBuffer'
  BY <1>1 DEF Windowed, StripInBuffer, InBuffer, Within
\* Other rows keep what they have, also those of the store.
<1>8. ASSUME NEW other \in Rows
      PROVE  /\ written'[other] = IF other = row THEN value ELSE written[other]
             /\ InBuffer(other) => mem_buffer'[other - cur_start_row] =
                  IF other = row THEN value ELSE mem_buffer[other - cur_start_row]
  <2>1. written'[other] = IF other = row THEN value ELSE written[other]
    BY <1>1, <1>2 DEF ArrayTypes
  <2>2. ASSUME InBuffer(other)
        PROVE  other - cur_start_row \in Rows
               /\ (other - cur_start_row = row - cur_start_row <=> other = row)
    BY <1>3, <2>2 DEF InBuffer, Within, Rows
  <2>3. \A k \in Rows : mem_buffer'[k] = IF k = row - cur_start_row THEN value ELSE mem_buffer[k]
    BY <1>1, <1>2 DEF ArrayTypes
  <2> QED
    BY <2>1, <2>2, <2>3
<1>9. ASSUME NEW other \in Rows, InBuffer(other), Holds(other, mem_buffer[other - cur_start_row])
      PROVE  Holds(other, mem_buffer[other - cur_start_row])'
  BY <1>1, <1>8, <1>9, ArrayAssumption DEF Holds
<1>10. Kept'
  <2>1. ASSUME NEW other \in Rows, written'[other] # Junk PROVE Defined(other)'
    BY <1>1, <1>5, <1>8, <2>1 DEF Kept, Defined
  <2>2. ASSUME NEW other \in Rows, Defined(other)', InBuffer(other)'
        PROVE  Holds(other, mem_buffer[other - cur_start_row])'
    BY <1>1, <1>9, <2>2 DEF Kept, Defined, InBuffer, Within
  <2>3. ASSUME NEW other \in Rows, Defined(other)', ~InBuffer(other)' \/ ~dirty'
        PROVE  Holds(other, backing[other])'
    <3>1. other # row /\ Holds(other, backing[other])
      BY <1>1, <1>5, <2>3 DEF Kept, Defined, InBuffer, Within
    <3> QED
      BY <1>1, <1>8, <3>1 DEF Holds
  <2>4. ASSUME NEW other \in strip'.first .. strip'.end - 1
        PROVE  Holds(other, mem_buffer[other - cur_start_row])'
    BY <1>1, <1>9 DEF Kept, StripInBuffer
  <2> QED
    BY <2>1, <2>2, <2>3, <2>4 DEF Kept
<1> QED
  BY <1>6, <1>7, <1>10 DEF ArrayInv

LEMMA RealizeKeeps == ArrayInv /\ Realize => ArrayInv'
<1> SUFFICES ASSUME ArrayInv, Realize PROVE ArrayInv'
  OBVIOUS
<1>1. ArrayTypes /\ Windowed /\ StripInBuffer /\ Kept
  BY DEF ArrayInv
<1>2. /\ rows_in_mem = 0 /\ pre_zero' \in BOOLEAN /\ b_s_open' = (rows_in_mem' < numrows)
      /\ UNCHANGED <<cur_start_row, first_undef_row, dirty, mem_buffer, backing, strip, error,
                     written>>
  BY DEF Realize
<1>3. rows_in_mem' \in 1 .. numrows /\ (rows_in_mem' < numrows => maxaccess <= rows_in_mem')
  <2>1. PICK avail_mem \in 0 .. MaxAvailable, all \in 0 .. MaxOthers : \E least \in 0 .. all :
          rows_in_mem' = RowsInMem(avail_mem, least, all)
    BY DEF Realize
  <2>2. PICK least \in 0 .. all : rows_in_mem' = RowsInMem(avail_mem, least, all)
    BY <2>1
  <2>3. avail_mem \in Nat /\ all \in Nat /\ least \in Nat
    BY ArrayAssumption
  <2> QED
    BY <2>2, <2>3, RowsInMemFits
<1>4. strip.first .. strip.end - 1 = {} /\ ~strip.writable /\ first_undef_row = 0
      /\ cur_start_row = 0
  <2>1. strip.first = strip.end /\ strip.first \in Int
    BY <1>1, <1>2 DEF Windowed, ArrayTypes
  <2>2. ~b_s_open
    BY <1>1, <1>2, ArrayAssumption DEF Windowed
  <2> QED
    BY <1>1, <1>2, <2>1, <2>2 DEF Windowed
<1>5. \A row \in Rows : ~Defined(row)
  BY <1>4 DEF Defined, Rows
<1>6. ArrayTypes'
  <2>1. rows_in_mem' \in 0 .. numrows /\ b_s_open' \in BOOLEAN
    BY <1>2, <1>3
  <2> QED
    BY <1>1, <1>2, <2>1 DEF ArrayTypes, Rows, Contents
<1>7. Windowed'
  <2>1. rows_in_mem' > 0
    BY <1>3
  <2> QED
    BY <1>1, <1>2, <1>3, <1>4, <2>1 DEF Windowed
<1>8. StripInBuffer'
  BY <1>2, <1>4 DEF StripInBuffer
<1>9. Kept'
  <2>1. \A row \in Rows : written[row] = Junk
    BY <1>1, <1>5 DEF Kept
  <2>2. \A row \in Rows : ~Defined(row)'
    BY <1>2, <1>5 DEF Defined
  <2> QED
    BY <1>2, <1>4, <2>1, <2>2 DEF Kept
<1> QED
  BY <1>6, <1>7, <1>8, <1>9 DEF ArrayInv

LEMMA ArrayInitInv == ArrayInit => ArrayInv
<1> SUFFICES ASSUME ArrayInit PROVE ArrayInv
  OBVIOUS
<1>1. /\ rows_in_mem = 0 /\ cur_start_row = 0 /\ first_undef_row = 0
      /\ pre_zero = FALSE /\ dirty = FALSE /\ b_s_open = FALSE
      /\ mem_buffer = Nothing /\ backing = Nothing /\ written = Nothing
      /\ strip = [first |-> 0, end |-> 0, writable |-> FALSE] /\ error = "none"
  BY DEF ArrayInit, NoStrip
<1>2. Nothing \in [Rows -> Contents] /\ \A row \in Rows : Nothing[row] = Junk
  BY DEF Nothing, Contents
<1>3. strip \in [first : Nat, end : Nat, writable : BOOLEAN]
  BY <1>1
<1>4. ArrayTypes
  <2>1. 0 \in 0 .. numrows
    BY ArrayAssumption
  <2>2. {pre_zero, dirty, b_s_open} \subseteq BOOLEAN
    BY <1>1
  <2> QED
    BY <1>1, <1>2, <1>3, <2>1, <2>2 DEF ArrayTypes
<1>5. strip.first .. strip.end - 1 = {} /\ strip.first = strip.end /\ ~strip.writable
  BY <1>1
<1>6. Windowed /\ StripInBuffer
  BY <1>1, <1>5 DEF Windowed, StripInBuffer
<1>7. \A row \in Rows : ~Defined(row)
  BY <1>1 DEF Defined, Rows
<1>8. Kept
  BY <1>1, <1>2, <1>5, <1>7 DEF Kept
<1> QED
  BY <1>4, <1>6, <1>8 DEF ArrayInv

LEMMA ArrayStep == ArrayInv /\ [ArrayNext]_arrayVars => ArrayInv'
<1>1. CASE UNCHANGED arrayVars
  BY <1>1 DEF arrayVars, control, ArrayInv, ArrayTypes, Windowed, StripInBuffer, Kept, Defined,
    InBuffer, Within, Holds, Rows, Contents
<1>2. ArrayInv /\ FreePool => ArrayInv'
  <2>1. FreePool => ArrayInit'
    BY DEF FreePool, ArrayInit, Nothing, NoStrip, Rows
  <2>2. ArrayInit' => ArrayInv'
    BY ArrayInitInv, PTL
  <2> QED
    BY <2>1, <2>2
<1> QED
  BY <1>1, <1>2, RealizeKeeps, AccessKeeps, WriteKeeps DEF ArrayNext

\* jmemmgr.c gives a caller its strip as it was left: whatever strips of an
\* array of any size are asked for, in whatever order, and however little of it
\* is in memory.
THEOREM StripsAreCurrent == ArraySpec => []StripIsCurrent
<1>1. ArrayInv => StripIsCurrent
  <2> SUFFICES ASSUME ArrayInv, NEW row \in strip.first .. strip.end - 1
               PROVE  row - cur_start_row \in 0 .. rows_in_mem - 1
    BY DEF StripIsCurrent, ArrayInv, Windowed, Kept
  <2>1. row \in Int /\ InBuffer(row) /\ cur_start_row \in Nat /\ rows_in_mem \in Nat
    BY ArrayAssumption DEF ArrayInv, StripInBuffer, ArrayTypes, Rows
  <2> QED
    BY <2>1 DEF InBuffer, Within
<1> QED
  BY <1>1, ArrayInitInv, ArrayStep, PTL DEF ArraySpec

-----------------------------------------------------------------------------
(* The decompression object.                                               *)

States == {"START", "READY", "PRELOAD", "PRESCAN", "SCANNING", "BUFIMAGE", "BUFPOST", "STOPPING",
           "ERROR"}
Calls == {"none", "start", "prescan", "read", "finish_output", "finish"}

DecompressorTypes ==
  /\ global_state \in States /\ call \in Calls
  /\ consume_input \in {"markers", "data"} /\ pass \in {"single", "dummy", "final"}
  /\ {eoi_reached, buffered_image, smoothing} \subseteq BOOLEAN
  /\ {input_scan_number, output_scan_number} \subseteq Nat
  /\ {input_iMCU_row, output_iMCU_row} \subseteq 0 .. total_iMCU_rows
  /\ coef_arrays \in [ImageRows -> Nat]
  /\ output \in [ImageRows -> [own : Nat, next : Nat]]

RowsRead ==
  \A row \in ImageRows :
    coef_arrays[row] = IF input_scan_number = 0 \/ row < input_iMCU_row
                       THEN input_scan_number ELSE input_scan_number - 1

\* The state of the object and of its input: what was read is in the
\* coefficients, row by row; between two scans all rows have the same.
InputDone ==
  /\ (global_state = "START") = (input_scan_number = 0)
  /\ input_scan_number = 0 => input_iMCU_row = 0 /\ consume_input = "markers"
  /\ consume_input = "data" => input_iMCU_row < total_iMCU_rows /\ global_state # "READY"
  /\ consume_input = "markers" /\ global_state \notin {"START", "READY", "ERROR"} =>
       input_iMCU_row = total_iMCU_rows
  /\ global_state = "READY" => input_scan_number = 1 /\ input_iMCU_row = 0
  /\ global_state \in {"READY", "ERROR"} => ~eoi_reached
  /\ eoi_reached => input_scan_number = NumScans /\ consume_input = "markers"
  /\ global_state # "ERROR" => RowsRead

\* The calls, and the output that belongs to them.
Started ==
  /\ call # "none" => global_state \notin {"START", "READY"}
  /\ global_state \in {"START", "READY"} => ~buffered_image /\ ~smoothing
  /\ global_state \in {"START", "READY", "PRELOAD"} => output_iMCU_row = 0
  /\ global_state \in {"BUFIMAGE", "BUFPOST"} => buffered_image
  /\ global_state = "PRELOAD" => ~buffered_image
  /\ ~buffered_image /\ has_multiple_scans /\ global_state \in {"PRESCAN", "SCANNING"} => eoi_reached
  /\ smoothing => has_multiple_scans
  /\ pass = "final" => output_iMCU_row = total_iMCU_rows
  /\ pass # "final" => output_scanline = output_iMCU_row
  /\ call = "read" => output_scanline < total_iMCU_rows

\* Input and output: a scan that has not begun has no output; and without a
\* buffer they keep pace.
InStep ==
  /\ ~buffered_image \/ eoi_reached \/ output_iMCU_row > 0 => output_scan_number <= input_scan_number
  /\ ~full_buffer /\ global_state \notin {"START", "READY", "ERROR"} => output_iMCU_row = input_iMCU_row

DecompressorInv == DecompressorTypes /\ InputDone /\ Started /\ InStep /\ OutputIsCurrent

-----------------------------------------------------------------------------

LEMMA DecompressorInitInv == DecompressorInit => DecompressorInv
<1> SUFFICES ASSUME DecompressorInit PROVE DecompressorInv
  OBVIOUS
<1> USE DEF DecompressorInit
<1>1. total_iMCU_rows \in Nat \ {0}
  BY DecompressorAssumption
<1>2. coef_arrays = [row \in ImageRows |-> 0] /\ output = [row \in ImageRows |-> [own |-> 0, next |-> 0]]
  BY DEF NoRows
<1>3. output \in [ImageRows -> [own : Nat, next : Nat]]
  BY <1>2
<1>4. DecompressorTypes
  <2>1. 0 \in 0 .. total_iMCU_rows
    BY <1>1
  <2>2. coef_arrays \in [ImageRows -> Nat]
    BY <1>2
  <2>3. FALSE \in BOOLEAN /\ 0 \in Nat
    OBVIOUS
  <2>4. /\ global_state \in States /\ call \in Calls
        /\ consume_input \in {"markers", "data"} /\ pass \in {"single", "dummy", "final"}
    BY DEF States, Calls
  <2>5. {eoi_reached, buffered_image, smoothing} \subseteq BOOLEAN
    BY <2>3
  <2>6. {input_scan_number, output_scan_number} \subseteq Nat
        /\ {input_iMCU_row, output_iMCU_row} \subseteq 0 .. total_iMCU_rows
    BY <2>1, <2>3
  <2> QED
    BY <1>3, <2>2, <2>4, <2>5, <2>6 DEF DecompressorTypes
<1>5. RowsRead /\ OutputIsCurrent
  BY <1>2 DEF RowsRead, OutputIsCurrent
<1>6. InputDone
  BY <1>5 DEF InputDone
<1>7. Started /\ InStep
  BY DEF Started, InStep
<1> QED
  BY <1>4, <1>5, <1>6, <1>7 DEF DecompressorInv

LEMMA FreshInv == Fresh => DecompressorInv'
<1>1. Fresh => DecompressorInit'
  BY DEF Fresh, DecompressorInit, NoFile, NoRows, ImageRows
<1>2. DecompressorInit' => DecompressorInv'
  BY DecompressorInitInv, PTL
<1> QED
  BY <1>1, <1>2

-----------------------------------------------------------------------------
(* Input.                                                                  *)

\* consume_data, also when the row goes on to the output.
LEMMA RowStored ==
  ASSUME DecompressorInv, consume_input = "data", global_state \notin {"START", "ERROR"}, StoreRow,
         UNCHANGED <<input_scan_number, global_state>>
  PROVE  /\ coef_arrays' \in [ImageRows -> Nat] /\ RowsRead'
         /\ input_iMCU_row' = input_iMCU_row + 1 /\ input_iMCU_row' \in 0 .. total_iMCU_rows
         /\ consume_input' = IF input_iMCU_row' = total_iMCU_rows THEN "markers" ELSE "data"
         /\ input_iMCU_row \in ImageRows
<1>1. DecompressorTypes /\ InputDone
  BY DEF DecompressorInv
<1>2. total_iMCU_rows \in Nat \ {0} /\ input_iMCU_row \in 0 .. total_iMCU_rows
      /\ input_scan_number \in Nat
  BY <1>1, DecompressorAssumption DEF DecompressorTypes
<1>3. /\ coef_arrays' = [coef_arrays EXCEPT ![input_iMCU_row] = @ + 1]
      /\ input_iMCU_row' = input_iMCU_row + 1
      /\ consume_input' = IF input_iMCU_row' = total_iMCU_rows THEN "markers" ELSE "data"
  BY DEF StoreRow
<1>4. input_iMCU_row < total_iMCU_rows /\ input_scan_number # 0 /\ RowsRead
  BY <1>1 DEF InputDone
<1>5. input_iMCU_row \in ImageRows /\ input_iMCU_row' \in 0 .. total_iMCU_rows
  BY <1>2, <1>3, <1>4 DEF ImageRows
<1>6. coef_arrays' \in [ImageRows -> Nat]
  BY <1>1, <1>3, <1>5 DEF DecompressorTypes
<1>7. ASSUME NEW row \in ImageRows
      PROVE  coef_arrays'[row] = IF row < input_iMCU_row + 1 THEN input_scan_number
                                 ELSE input_scan_number - 1
  <2>1. coef_arrays'[row] = IF row = input_iMCU_row THEN coef_arrays[row] + 1 ELSE coef_arrays[row]
    BY <1>1, <1>3 DEF DecompressorTypes
  <2>2. coef_arrays[row] = IF row < input_iMCU_row THEN input_scan_number ELSE input_scan_number - 1
    BY <1>4 DEF RowsRead
  <2>3. row \in Int
    BY DEF ImageRows
  <2> QED
    BY <1>2, <2>1, <2>2, <2>3
<1>8. RowsRead'
  BY <1>3, <1>4, <1>7 DEF RowsRead, ImageRows
<1> QED
  BY <1>3, <1>5, <1>6, <1>8

\* What input leaves alone.
LEMMA OutputStays ==
  ASSUME UNCHANGED <<passVars, parameters, output_scan_number>>
  PROVE  OutputIsCurrent' = OutputIsCurrent
BY DEF OutputIsCurrent, passVars, parameters, NumScans, has_multiple_scans

LEMMA ConsumeKeeps ==
  ASSUME DecompressorInv, Consume, global_state \notin {"READY", "ERROR"},
         UNCHANGED <<passVars, parameters, call>>
  PROVE  DecompressorInv'
<1>1. DecompressorTypes /\ InputDone /\ Started /\ InStep /\ OutputIsCurrent
  BY DEF DecompressorInv
<1>2. /\ total_iMCU_rows \in Nat \ {0} /\ input_iMCU_row \in 0 .. total_iMCU_rows
      /\ input_scan_number \in Nat /\ output_scan_number \in Nat
      /\ output_iMCU_row \in 0 .. total_iMCU_rows
  BY <1>1, DecompressorAssumption DEF DecompressorTypes
<1>3. /\ UNCHANGED <<output_iMCU_row, output_scanline, pass, smoothing, output>>
      /\ UNCHANGED <<datastream, buffered_image, quantize, call>>
      /\ has_multiple_scans' = has_multiple_scans /\ full_buffer' = full_buffer
      /\ NumScans' = NumScans
  BY DEF passVars, parameters, has_multiple_scans, full_buffer, NumScans
<1>4. ~eoi_reached /\ (consume_input = "data" => full_buffer)
  BY DEF Consume, CanConsume
<1>5. CASE consume_input = "data"
  <2>1. /\ StoreRow
        /\ UNCHANGED <<input_scan_number, eoi_reached, output_scan_number, global_state>>
    BY <1>5 DEF Consume, ConsumeData
  <2>2. global_state # "START"
    BY <1>1, <1>5 DEF InputDone
  <2>3. /\ coef_arrays' \in [ImageRows -> Nat] /\ RowsRead'
        /\ input_iMCU_row' = input_iMCU_row + 1 /\ input_iMCU_row' \in 0 .. total_iMCU_rows
        /\ consume_input' = IF input_iMCU_row' = total_iMCU_rows THEN "markers" ELSE "data"
    BY <1>5, <2>1, <2>2, RowStored
  <2>4. DecompressorTypes'
    BY <1>1, <1>3, <2>1, <2>3 DEF DecompressorTypes, ImageRows
  <2>5. InputDone'
    BY <1>1, <1>2, <1>3, <1>4, <2>1, <2>2, <2>3 DEF InputDone
  <2>6. Started'
    BY <1>1, <1>3, <2>1 DEF Started
  <2>7. InStep'
    BY <1>1, <1>3, <1>4, <1>5, <2>1 DEF InStep
  <2>8. OutputIsCurrent'
    BY <1>1, <2>1, OutputStays
  <2> QED
    BY <2>4, <2>5, <2>6, <2>7, <2>8 DEF DecompressorInv
<1>6. CASE consume_input # "data" /\ ReachedSOS
  <2>1. /\ input_scan_number' = input_scan_number + 1
        /\ UNCHANGED <<eoi_reached, output_scan_number, coef_arrays>>
    BY <1>6 DEF ReachedSOS
  <2>2. OutputIsCurrent'
    BY <1>1, <2>1, OutputStays
  <2>3. consume_input = "markers" /\ input_scan_number + 1 \in Nat /\ input_scan_number + 1 # 0
        /\ \A n \in Nat : n <= input_scan_number => n <= input_scan_number + 1
    BY <1>1, <1>2, <1>6 DEF DecompressorTypes
  <2>4. CASE input_scan_number = 0
    <3>1. global_state' = "READY" /\ UNCHANGED <<consume_input, input_iMCU_row>>
      BY <1>6, <2>4 DEF ReachedSOS
    <3>2. global_state = "START" /\ input_iMCU_row = 0 /\ input_scan_number' = 1
      BY <1>1, <2>1, <2>4 DEF InputDone
    <3>3. RowsRead'
      BY <1>1, <2>1, <2>4, <3>1, <3>2 DEF InputDone, RowsRead, ImageRows
    <3>4. DecompressorTypes'
      BY <1>1, <1>3, <2>1, <3>1, <3>2 DEF DecompressorTypes, States, ImageRows
    <3>5. InputDone'
      BY <1>1, <1>4, <2>1, <2>3, <3>1, <3>2, <3>3 DEF InputDone
    <3>6. Started'
      BY <1>1, <1>3, <3>1, <3>2 DEF Started
    <3>7. InStep'
      BY <1>1, <1>2, <1>3, <2>1, <2>3, <3>1, <3>2 DEF InStep
    <3> QED
      BY <2>2, <3>4, <3>5, <3>6, <3>7 DEF DecompressorInv
  <2>5. CASE input_scan_number # 0 /\ ~has_multiple_scans
    <3>1. global_state' = "ERROR" /\ UNCHANGED <<consume_input, input_iMCU_row>>
      BY <1>6, <2>5 DEF ReachedSOS
    <3>4. DecompressorTypes'
      BY <1>1, <1>3, <2>1, <2>3, <3>1 DEF DecompressorTypes, States, ImageRows
    <3>5. InputDone'
      BY <1>1, <1>2, <1>4, <2>1, <2>3, <3>1 DEF InputDone
    <3>6. Started'
      BY <1>1, <1>3, <3>1 DEF Started
    <3>7. InStep'
      BY <1>1, <1>2, <1>3, <2>1, <2>3, <3>1 DEF InStep
    <3> QED
      BY <2>2, <3>4, <3>5, <3>6, <3>7 DEF DecompressorInv
  <2>6. CASE input_scan_number # 0 /\ has_multiple_scans
    <3>1. consume_input' = "data" /\ input_iMCU_row' = 0 /\ UNCHANGED global_state
      BY <1>6, <2>6 DEF ReachedSOS
    <3>2. global_state # "START" /\ input_iMCU_row = total_iMCU_rows
      BY <1>1, <2>3, <2>6 DEF InputDone
    <3>3. RowsRead'
      BY <1>1, <1>2, <2>1, <2>3, <2>6, <3>1, <3>2 DEF InputDone, RowsRead, ImageRows
    <3>4. DecompressorTypes'
      <4>1. 0 \in 0 .. total_iMCU_rows
        BY <1>2
      <4> QED
        BY <1>1, <1>3, <2>1, <2>3, <3>1, <4>1 DEF DecompressorTypes, ImageRows
    <3>5. InputDone'
      BY <1>1, <1>2, <1>4, <2>1, <2>3, <3>1, <3>2, <3>3 DEF InputDone
    <3>6. Started'
      BY <1>1, <1>3, <2>1, <3>1 DEF Started
    <3>7. InStep'
      BY <1>1, <1>2, <1>3, <2>1, <2>3, <2>6, <3>1 DEF InStep, full_buffer
    <3> QED
      BY <2>2, <3>4, <3>5, <3>6, <3>7 DEF DecompressorInv
  <2> QED
    BY <2>4, <2>5, <2>6
<1>7. CASE consume_input # "data" /\ ReachedEOI
  <2>1. /\ input_scan_number = NumScans /\ eoi_reached' = TRUE
        /\ output_scan_number' = IF output_scan_number > input_scan_number
                                 THEN input_scan_number ELSE output_scan_number
        /\ UNCHANGED <<consume_input, input_scan_number, input_iMCU_row, coef_arrays, global_state>>
    BY <1>7 DEF ReachedEOI, LimitOutputScan
  <2>2. output_scan_number' \in Nat /\ output_scan_number' <= input_scan_number
        /\ (output_scan_number <= input_scan_number => output_scan_number' = output_scan_number)
    BY <1>2, <2>1
  <2>3. OutputIsCurrent'
    <3>1. CASE output_iMCU_row > 0
      <4>1. output_scan_number' = output_scan_number
        BY <1>1, <2>2, <3>1 DEF InStep
      <4> QED
        BY <1>1, <4>1, OutputStays
    <3>2. CASE ~(output_iMCU_row > 0)
      <4>1. 0 .. output_iMCU_row' - 1 = {}
        BY <1>2, <1>3, <3>2
      <4> QED
        BY <4>1 DEF OutputIsCurrent
    <3> QED
      BY <3>1, <3>2
  <2>4. RowsRead' = RowsRead
    BY <2>1 DEF RowsRead, ImageRows
  <2>5. DecompressorTypes'
    BY <1>1, <1>3, <2>1, <2>2 DEF DecompressorTypes, ImageRows
  <2>6. InputDone'
    BY <1>1, <1>3, <1>7, <2>1, <2>4 DEF InputDone, DecompressorTypes
  <2>7. Started'
    BY <1>1, <1>3, <2>1 DEF Started
  <2>8. InStep'
    BY <1>1, <1>3, <2>1, <2>2 DEF InStep
  <2> QED
    BY <2>3, <2>5, <2>6, <2>7, <2>8 DEF DecompressorInv
<1> QED
  BY <1>5, <1>6, <1>7 DEF Consume

-----------------------------------------------------------------------------
(* The other steps.                                                        *)

Early == {"START", "READY", "ERROR"}

LEMMA InputStays ==
  ASSUME InputDone, UNCHANGED <<inputVars, datastream>>,
         global_state \notin Early, global_state' \notin Early
  PROVE  InputDone'
BY DEF InputDone, inputVars, Early, RowsRead, ImageRows, NumScans

\* A step of the calls' states, with input and output as they were.
LEMMA StateChanges ==
  ASSUME DecompressorInv, UNCHANGED <<inputVars, passVars, parameters, output_scan_number>>,
         global_state \notin Early,
         global_state' \in {"PRESCAN", "SCANNING", "BUFIMAGE", "BUFPOST", "STOPPING"},
         call' \in Calls \ {"read"},
         global_state' \in {"BUFIMAGE", "BUFPOST"} => buffered_image,
         global_state' \in {"PRESCAN", "SCANNING"} => global_state \in {"PRESCAN", "SCANNING"}
  PROVE  DecompressorInv'
<1>1. DecompressorTypes /\ InputDone /\ Started /\ InStep /\ OutputIsCurrent
  BY DEF DecompressorInv
<1>2. global_state' \notin Early /\ UNCHANGED datastream
  BY DEF Early, parameters
<1>3. InputDone'
  BY <1>1, <1>2, InputStays
<1>4. DecompressorTypes'
  BY <1>1 DEF DecompressorTypes, States, inputVars, passVars, parameters, ImageRows
<1>5. Started'
  BY <1>1 DEF Started, inputVars, passVars, parameters, has_multiple_scans
<1>6. InStep'
  BY <1>1 DEF InStep, Early, inputVars, passVars, parameters, has_multiple_scans, full_buffer
<1>7. OutputIsCurrent'
  BY <1>1, OutputStays
<1> QED
  BY <1>3, <1>4, <1>5, <1>6, <1>7 DEF DecompressorInv

\* A call begins or returns.
LEMMA CallChanges ==
  ASSUME DecompressorInv, Nowhere, call' \in Calls,
         call' # "none" => global_state \notin {"START", "READY"},
         call' = "read" => output_scanline < total_iMCU_rows
  PROVE  DecompressorInv'
<1>1. DecompressorTypes /\ InputDone /\ Started /\ InStep /\ OutputIsCurrent
  BY DEF DecompressorInv
<1>2. UNCHANGED <<inputVars, passVars, parameters, global_state, output_scan_number>>
  BY DEF Nowhere
<1>3. InputDone'
  BY <1>1, <1>2 DEF InputDone, inputVars, parameters, RowsRead, ImageRows, NumScans
<1>4. DecompressorTypes'
  BY <1>1, <1>2 DEF DecompressorTypes, inputVars, passVars, parameters, ImageRows
<1>5. Started'
  BY <1>1, <1>2 DEF Started, inputVars, passVars, parameters, has_multiple_scans
<1>6. InStep'
  BY <1>1, <1>2 DEF InStep, inputVars, passVars, parameters, has_multiple_scans, full_buffer
<1>7. OutputIsCurrent'
  BY <1>1, <1>2, OutputStays
<1> QED
  BY <1>3, <1>4, <1>5, <1>6, <1>7 DEF DecompressorInv

LEMMA SuspendKeeps == DecompressorInv /\ Suspend => DecompressorInv'
BY CallChanges DEF Suspend, Return, Calls

LEMMA GoOnKeeps ==
  DecompressorInv /\ GoOn /\ global_state \notin {"READY", "ERROR"} => DecompressorInv'
BY ConsumeKeeps DEF GoOn

LEMMA ArriveKeeps == DecompressorInv /\ Arrive => DecompressorInv'
<1> SUFFICES ASSUME DecompressorInv, Arrive PROVE DecompressorInv'
  OBVIOUS
<1>1. DecompressorTypes /\ InputDone /\ Started /\ InStep /\ OutputIsCurrent
  BY DEF DecompressorInv
<1>2. UNCHANGED <<consume_input, input_scan_number, input_iMCU_row, eoi_reached, coef_arrays,
                  passVars, parameters, call, global_state, output_scan_number>>
  BY DEF Arrive
<1>3. InputDone'
  BY <1>1, <1>2 DEF InputDone, parameters, RowsRead, ImageRows, NumScans
<1>4. DecompressorTypes'
  BY <1>1, <1>2 DEF DecompressorTypes, passVars, parameters, ImageRows
<1>5. Started'
  BY <1>1, <1>2 DEF Started, passVars, parameters, has_multiple_scans
<1>6. InStep'
  BY <1>1, <1>2 DEF InStep, passVars, parameters, has_multiple_scans, full_buffer
<1>7. OutputIsCurrent'
  BY <1>1, <1>2, OutputStays
<1> QED
  BY <1>3, <1>4, <1>5, <1>6, <1>7 DEF DecompressorInv

\* Nothing has been read or output of the file that comes.
LEMMA SetSourceKeeps == DecompressorInv /\ SetSource => DecompressorInv'
<1> SUFFICES ASSUME DecompressorInv, SetSource PROVE DecompressorInv'
  OBVIOUS
<1>1. DecompressorTypes /\ InputDone /\ Started /\ InStep /\ OutputIsCurrent
  BY DEF DecompressorInv
<1>2. /\ global_state = "START" /\ ~eoi_reached
      /\ UNCHANGED <<inputVars, passVars, buffered_image, quantize, call, global_state,
                     output_scan_number>>
  BY DEF SetSource
<1>3. ~smoothing /\ ~buffered_image /\ output_iMCU_row = 0
  BY <1>1, <1>2 DEF Started
<1>4. InputDone'
  BY <1>1, <1>2 DEF InputDone, inputVars, RowsRead, ImageRows
<1>5. DecompressorTypes'
  BY <1>1, <1>2 DEF DecompressorTypes, inputVars, passVars, ImageRows
<1>6. Started'
  BY <1>1, <1>2, <1>3 DEF Started, inputVars, passVars
<1>7. InStep'
  BY <1>1, <1>2 DEF InStep, inputVars, passVars
<1>8. OutputIsCurrent'
  <2>1. 0 .. output_iMCU_row' - 1 = {}
    BY <1>2, <1>3 DEF passVars
  <2> QED
    BY <2>1 DEF OutputIsCurrent
<1> QED
  BY <1>4, <1>5, <1>6, <1>7, <1>8 DEF DecompressorInv

LEMMA StartDecompressKeeps == DecompressorInv /\ StartDecompress => DecompressorInv'
<1> SUFFICES ASSUME DecompressorInv, StartDecompress PROVE DecompressorInv'
  OBVIOUS
<1>1. DecompressorTypes /\ InputDone /\ Started /\ InStep /\ OutputIsCurrent
  BY DEF DecompressorInv
<1>2. /\ global_state = "READY" /\ call = "none" /\ consume_input' = "data"
      /\ buffered_image' \in BOOLEAN
      /\ IF buffered_image' THEN global_state' = "BUFIMAGE" /\ UNCHANGED call
         ELSE global_state' = "PRELOAD" /\ call' = "start"
      /\ UNCHANGED <<datastream, input_scan_number, input_iMCU_row, eoi_reached, coef_arrays,
                     passVars, output_scan_number>>
  BY DEF StartDecompress
<1>3. /\ ~buffered_image /\ ~smoothing /\ output_iMCU_row = 0
      /\ input_scan_number = 1 /\ input_iMCU_row = 0 /\ ~eoi_reached /\ RowsRead
  BY <1>1, <1>2 DEF InputDone, Started
<1>4. 0 < total_iMCU_rows
  BY DecompressorAssumption
<1>5. RowsRead'
  BY <1>2, <1>3 DEF RowsRead, ImageRows
<1>6. InputDone'
  BY <1>2, <1>3, <1>4, <1>5 DEF InputDone
<1>7. DecompressorTypes'
  BY <1>1, <1>2 DEF DecompressorTypes, States, Calls, passVars, ImageRows
<1>8. Started'
  BY <1>1, <1>2, <1>3 DEF Started, passVars
<1>9. InStep'
  BY <1>1, <1>2, <1>3 DEF InStep, passVars
<1>10. OutputIsCurrent'
  <2>1. 0 .. output_iMCU_row' - 1 = {}
    BY <1>2, <1>3 DEF passVars
  <2> QED
    BY <2>1 DEF OutputIsCurrent
<1> QED
  BY <1>6, <1>7, <1>8, <1>9, <1>10 DEF DecompressorInv

\* A pass begins with no row.
LEMMA PreparePassKeeps ==
  ASSUME DecompressorInv, PreparePass, UNCHANGED <<inputVars, parameters>>,
         global_state \notin Early, output_scan_number' \in Nat,
         ~buffered_image \/ eoi_reached => output_scan_number' <= input_scan_number,
         ~full_buffer => input_iMCU_row = 0,
         ~buffered_image /\ has_multiple_scans => eoi_reached
  PROVE  DecompressorInv'
<1>1. DecompressorTypes /\ InputDone /\ Started /\ InStep /\ OutputIsCurrent
  BY DEF DecompressorInv
<1>2. /\ pass' \in {"dummy", "single"}
      /\ output_iMCU_row' = 0 /\ output_scanline' = 0 /\ output' = NoRows
      /\ smoothing' \in IF has_multiple_scans THEN BOOLEAN ELSE {FALSE}
      /\ global_state' = "PRESCAN" /\ call' = "prescan"
  BY DEF PreparePass
<1>3. /\ UNCHANGED <<datastream, buffered_image, quantize>>
      /\ has_multiple_scans' = has_multiple_scans /\ full_buffer' = full_buffer
  BY DEF parameters, has_multiple_scans, full_buffer
<1>4. /\ UNCHANGED <<consume_input, input_scan_number, input_iMCU_row, eoi_reached, coef_arrays>>
  BY DEF inputVars
<1>5. InputDone'
  BY <1>1, <1>2, <1>3, InputStays DEF Early
<1>6. DecompressorTypes'
  <2>1. 0 \in 0 .. total_iMCU_rows
    BY DecompressorAssumption
  <2>2. output' \in [ImageRows -> [own : Nat, next : Nat]]
    BY <1>2 DEF NoRows
  <2>3. smoothing' \in BOOLEAN
    BY <1>2
  <2> QED
    BY <1>1, <1>2, <1>3, <1>4, <2>1, <2>2, <2>3 DEF DecompressorTypes, States, Calls, ImageRows
<1>7. Started'
  BY <1>1, <1>2, <1>3, <1>4 DEF Started
<1>8. InStep'
  BY <1>1, <1>2, <1>3, <1>4 DEF InStep
<1>9. OutputIsCurrent'
  <2>1. 0 .. output_iMCU_row' - 1 = {}
    BY <1>2
  <2> QED
    BY <2>1 DEF OutputIsCurrent
<1> QED
  BY <1>5, <1>6, <1>7, <1>8, <1>9 DEF DecompressorInv

LEMMA PreloadKeeps == DecompressorInv /\ Preload => DecompressorInv'
<1> SUFFICES ASSUME DecompressorInv, Preload PROVE DecompressorInv'
  OBVIOUS
<1>1. DecompressorTypes /\ InputDone /\ Started /\ InStep
  BY DEF DecompressorInv
<1>2. global_state = "PRELOAD"
  BY DEF Preload
<1>3. CASE has_multiple_scans /\ ~eoi_reached
  BY <1>2, <1>3, GoOnKeeps, SuspendKeeps DEF Preload
<1>4. CASE ~(has_multiple_scans /\ ~eoi_reached)
  <2>1. /\ output_scan_number' = input_scan_number /\ PreparePass
        /\ UNCHANGED <<inputVars, parameters>>
    BY <1>4 DEF Preload
  <2>2. output_iMCU_row = 0
    BY <1>1, <1>2 DEF Started
  <2>3. ~full_buffer => input_iMCU_row = 0
    BY <1>1, <1>2, <2>2 DEF InStep
  <2>4. input_scan_number \in Nat /\ input_scan_number <= input_scan_number
    BY <1>1 DEF DecompressorTypes
  <2> QED
    BY <1>2, <1>4, <2>1, <2>3, <2>4, PreparePassKeeps DEF Early
<1> QED
  BY <1>3, <1>4

LEMMA StartOutputKeeps ==
  ASSUME DecompressorInv, NEW scan_number \in 1 .. NumScans + 1, StartOutput(scan_number)
  PROVE  DecompressorInv'
<1>1. DecompressorTypes /\ InputDone /\ Started /\ InStep
  BY DEF DecompressorInv
<1>2. /\ output_scan_number' = IF eoi_reached /\ scan_number > input_scan_number
                               THEN input_scan_number ELSE scan_number
      /\ UNCHANGED <<inputVars, parameters>>
  BY DEF StartOutput
<1>3. scan_number \in Nat /\ input_scan_number \in Nat /\ output_scan_number \in Nat
  BY <1>1 DEF DecompressorTypes
<1>4. output_scan_number' \in Nat /\ (eoi_reached => output_scan_number' <= input_scan_number)
  BY <1>2, <1>3
<1>5. CASE global_state = "BUFIMAGE"
  <2>1. PreparePass
    BY <1>5 DEF StartOutput
  <2>2. buffered_image /\ full_buffer
    BY <1>1, <1>5 DEF Started, full_buffer
  <2> QED
    BY <1>2, <1>4, <1>5, <2>1, <2>2, PreparePassKeeps DEF Early
<1>6. CASE global_state # "BUFIMAGE"
  <2>1. /\ global_state = "PRESCAN" /\ call' = "prescan" /\ scan_number = output_scan_number
        /\ UNCHANGED <<passVars, global_state>>
    BY <1>6 DEF StartOutput
  <2>2. eoi_reached => output_scan_number <= input_scan_number
    BY <1>1 DEF InStep
  <2>3. output_scan_number' = output_scan_number
    BY <1>2, <1>3, <2>1, <2>2
  <2> QED
    BY <1>2, <2>1, <2>3, CallChanges DEF Nowhere, Calls
<1> QED
  BY <1>5, <1>6

-----------------------------------------------------------------------------
(* A row of output.                                                        *)

\* What the coefficients of a row have when the output does not wait.
LEMMA RowIsThere ==
  ASSUME DecompressorInv, full_buffer, ~WaitForInput, global_state \notin Early,
         output_iMCU_row \in ImageRows
  PROVE  /\ output_scan_number <= input_scan_number
         /\ coef_arrays[output_iMCU_row] >= output_scan_number
         /\ smoothing /\ datastream.dc[output_scan_number] /\ output_iMCU_row + 1 \in ImageRows =>
              coef_arrays[output_iMCU_row + 1] >= output_scan_number
<1>1. DecompressorTypes /\ InputDone /\ Started /\ InStep
  BY DEF DecompressorInv
<1>2. /\ total_iMCU_rows \in Nat \ {0} /\ input_iMCU_row \in 0 .. total_iMCU_rows
      /\ input_scan_number \in Nat /\ output_scan_number \in Nat
      /\ output_iMCU_row \in Int
  BY <1>1, DecompressorAssumption DEF DecompressorTypes
<1>3. input_scan_number # 0 /\ RowsRead
  BY <1>1 DEF InputDone, Early
<1>4. \A row \in ImageRows :
        coef_arrays[row] = IF row < input_iMCU_row THEN input_scan_number ELSE input_scan_number - 1
  BY <1>3 DEF RowsRead
<1>5. CASE input_scan_number > output_scan_number
  BY <1>2, <1>4, <1>5
<1>6. CASE eoi_reached
  <2>1. input_iMCU_row = total_iMCU_rows /\ output_scan_number <= input_scan_number
    BY <1>1, <1>6 DEF InputDone, InStep, Early
  <2>2. \A row \in ImageRows : coef_arrays[row] = input_scan_number
    BY <1>2, <1>4, <2>1 DEF ImageRows
  <2> QED
    BY <1>2, <2>1, <2>2
<1>7. CASE ~eoi_reached /\ ~(input_scan_number > output_scan_number) /\ ~smoothing
  <2>1. ~(input_scan_number < output_scan_number)
        /\ ~(input_scan_number = output_scan_number /\ input_iMCU_row <= output_iMCU_row)
    BY <1>7 DEF WaitForInput, MustConsume
  <2>2. input_scan_number = output_scan_number /\ output_iMCU_row < input_iMCU_row
    BY <1>2, <1>7, <2>1
  <2> QED
    BY <1>2, <1>4, <1>7, <2>2
<1>8. CASE ~eoi_reached /\ ~(input_scan_number > output_scan_number) /\ smoothing
  <2>1. input_scan_number <= output_scan_number
    BY <1>2, <1>8
  <2>2. input_scan_number = output_scan_number /\ input_iMCU_row > output_iMCU_row + RowsAhead
    BY <1>8, <2>1 DEF WaitForInput, MustConsumeToSmooth
  <2>3. RowsAhead \in {0, 1} /\ (datastream.dc[output_scan_number] => RowsAhead = 1)
    BY <2>2 DEF RowsAhead
  <2>4. output_iMCU_row < input_iMCU_row
        /\ (datastream.dc[output_scan_number] => output_iMCU_row + 1 < input_iMCU_row)
    <3>1. CASE RowsAhead = 0
      BY <1>2, <2>2, <2>3, <3>1
    <3>2. CASE RowsAhead = 1
      BY <1>2, <2>2, <3>2
    <3> QED
      BY <2>3, <3>1, <3>2
  <2> QED
    BY <1>2, <1>4, <2>2, <2>4
<1> QED
  BY <1>5, <1>6, <1>7, <1>8

\* The rows of output with one more.
LEMMA RowEmitted ==
  ASSUME DecompressorTypes, OutputIsCurrent, output_iMCU_row \in ImageRows,
         NEW scans \in [ImageRows -> Nat], Emit(scans),
         UNCHANGED <<parameters, output_scan_number, smoothing>>,
         scans[output_iMCU_row] >= output_scan_number,
         smoothing /\ datastream.dc[output_scan_number] /\ output_iMCU_row + 1 \in ImageRows =>
           scans[output_iMCU_row + 1] >= output_scan_number,
         ~buffered_image /\ has_multiple_scans => scans[output_iMCU_row] = NumScans
  PROVE  /\ output' \in [ImageRows -> [own : Nat, next : Nat]]
         /\ output_iMCU_row' = output_iMCU_row + 1 /\ output_iMCU_row' \in 0 .. total_iMCU_rows
         /\ output_scanline' = output_scanline + 1
         /\ OutputIsCurrent'
<1> DEFINE r == output_iMCU_row
           behind == IF r + 1 \in ImageRows THEN r + 1 ELSE r
           emitted == [own |-> scans[r], next |-> scans[behind]]
<1>1. /\ output' = [output EXCEPT ![r] = emitted]
      /\ output_iMCU_row' = r + 1 /\ output_scanline' = output_scanline + 1
  BY DEF Emit
<1>2. r \in Int /\ total_iMCU_rows \in Nat /\ output_iMCU_row' \in 0 .. total_iMCU_rows
  BY <1>1, DecompressorAssumption DEF ImageRows
<1>3. behind \in ImageRows
  OBVIOUS
<1>4. emitted \in [own : Nat, next : Nat] /\ emitted.own = scans[r]
      /\ emitted.next = scans[behind]
  BY <1>3
<1>5. output \in [ImageRows -> [own : Nat, next : Nat]]
  BY DEF DecompressorTypes
<1>6. output' \in [ImageRows -> [own : Nat, next : Nat]]
  BY <1>1, <1>4, <1>5
<1>7. ASSUME NEW row \in 0 .. output_iMCU_row' - 1
      PROVE  /\ output'[row].own >= output_scan_number'
             /\ (smoothing /\ datastream.dc[output_scan_number])' =>
                  output'[row].next >= output_scan_number'
             /\ (~buffered_image /\ has_multiple_scans)' => output'[row].own = NumScans'
  <2>1. /\ UNCHANGED <<datastream, buffered_image, output_scan_number, smoothing>>
        /\ has_multiple_scans' = has_multiple_scans /\ NumScans' = NumScans
    BY DEF parameters, has_multiple_scans, NumScans
  <2>2. CASE row = r
    <3>1. output'[row] = emitted
      BY <1>1, <1>5, <2>2
    <3>2. smoothing /\ datastream.dc[output_scan_number] => scans[behind] >= output_scan_number
      OBVIOUS
    <3> QED
      BY <1>4, <2>1, <3>1, <3>2
  <2>3. CASE row # r
    <3>1. row \in 0 .. r - 1 /\ row \in ImageRows
      BY <1>1, <1>2, <2>3 DEF ImageRows
    <3>2. output'[row] = output[row]
      BY <1>1, <1>5, <2>3, <3>1
    <3> QED
      BY <2>1, <3>1, <3>2 DEF OutputIsCurrent
  <2> QED
    BY <2>2, <2>3
<1>8. OutputIsCurrent'
  BY <1>7 DEF OutputIsCurrent
<1> QED
  BY <1>1, <1>2, <1>6, <1>8

LEMMA OutputRowKeeps ==
  ASSUME DecompressorInv, OutputRow, global_state \in {"PRESCAN", "SCANNING"},
         pass # "final", output_scanline < total_iMCU_rows, call' \in Calls \ {"read"},
         UNCHANGED <<parameters, global_state, output_scan_number, pass, smoothing>>
  PROVE  DecompressorInv'
<1>1. DecompressorTypes /\ InputDone /\ Started /\ InStep /\ OutputIsCurrent
  BY DEF DecompressorInv
<1>2. /\ total_iMCU_rows \in Nat \ {0} /\ input_iMCU_row \in 0 .. total_iMCU_rows
      /\ input_scan_number \in Nat /\ output_scan_number \in Nat
      /\ output_iMCU_row \in 0 .. total_iMCU_rows
  BY <1>1, DecompressorAssumption DEF DecompressorTypes
<1>3. /\ UNCHANGED <<datastream, buffered_image>>
      /\ has_multiple_scans' = has_multiple_scans /\ full_buffer' = full_buffer
  BY DEF parameters, has_multiple_scans, full_buffer
<1>4. output_scanline = output_iMCU_row
  BY <1>1 DEF Started
<1>5. output_iMCU_row \in ImageRows
  BY <1>2, <1>4 DEF ImageRows
<1>6. global_state \notin Early
  BY DEF Early
<1>7. ~buffered_image /\ has_multiple_scans => eoi_reached
  BY <1>1 DEF Started
<1>8. CASE full_buffer
  <2>1. ~WaitForInput /\ Emit(coef_arrays) /\ UNCHANGED inputVars
    BY <1>8 DEF OutputRow
  <2>2. /\ output_scan_number <= input_scan_number
        /\ coef_arrays[output_iMCU_row] >= output_scan_number
        /\ smoothing /\ datastream.dc[output_scan_number] /\ output_iMCU_row + 1 \in ImageRows =>
             coef_arrays[output_iMCU_row + 1] >= output_scan_number
    BY <1>5, <1>6, <1>8, <2>1, RowIsThere
  <2>3. ~buffered_image /\ has_multiple_scans => coef_arrays[output_iMCU_row] = NumScans
    <3>1. SUFFICES ASSUME eoi_reached PROVE coef_arrays[output_iMCU_row] = NumScans
      BY <1>7
    <3>2. /\ input_iMCU_row = total_iMCU_rows /\ input_scan_number = NumScans /\ RowsRead
      BY <1>1, <1>6, <3>1 DEF InputDone, Early
    <3>3. output_iMCU_row < input_iMCU_row
      BY <1>2, <1>5, <3>2 DEF ImageRows
    <3> QED
      BY <1>5, <3>2, <3>3 DEF RowsRead
  <2>4. coef_arrays \in [ImageRows -> Nat]
    BY <1>1 DEF DecompressorTypes
  <2>5. /\ output' \in [ImageRows -> [own : Nat, next : Nat]]
        /\ output_iMCU_row' = output_iMCU_row + 1 /\ output_iMCU_row' \in 0 .. total_iMCU_rows
        /\ output_scanline' = output_scanline + 1
        /\ OutputIsCurrent'
    BY <1>1, <1>5, <2>1, <2>2, <2>3, <2>4, RowEmitted
  <2>6. InputDone'
    BY <1>1, <1>3, <1>6, <2>1, InputStays
  <2>7. DecompressorTypes'
    BY <1>1, <1>3, <2>1, <2>5 DEF DecompressorTypes, inputVars, ImageRows
  <2>8. Started'
    BY <1>1, <1>3, <1>4, <2>1, <2>5 DEF Started, inputVars
  <2>9. InStep'
    BY <1>1, <1>3, <1>8, <2>1, <2>2 DEF InStep, inputVars
  <2> QED
    BY <2>5, <2>6, <2>7, <2>8, <2>9 DEF DecompressorInv
<1>9. CASE ~full_buffer
  <2>1. StoreRow /\ Emit(coef_arrays') /\ UNCHANGED <<input_scan_number, eoi_reached>>
    BY <1>9 DEF OutputRow
  <2>2. input_iMCU_row = output_iMCU_row /\ ~buffered_image /\ ~has_multiple_scans /\ ~smoothing
    BY <1>1, <1>6, <1>9 DEF InStep, Started, full_buffer, Early
  <2>3. consume_input = "data"
    <3>1. input_iMCU_row # total_iMCU_rows
      BY <1>2, <1>5, <2>2 DEF ImageRows
    <3> QED
      BY <1>1, <1>6, <3>1 DEF InputDone, DecompressorTypes, Early
  <2>4. /\ coef_arrays' \in [ImageRows -> Nat] /\ RowsRead'
        /\ input_iMCU_row' = input_iMCU_row + 1 /\ input_iMCU_row' \in 0 .. total_iMCU_rows
        /\ consume_input' = IF input_iMCU_row' = total_iMCU_rows THEN "markers" ELSE "data"
    BY <2>1, <2>3, RowStored
  <2>5. output_scan_number <= input_scan_number
    BY <1>1, <2>2 DEF InStep
  <2>6. coef_arrays'[output_iMCU_row] >= output_scan_number
    <3>1. output_iMCU_row < input_iMCU_row'
      BY <1>2, <2>2, <2>4
    <3>2. coef_arrays'[output_iMCU_row] = input_scan_number
      BY <1>5, <2>1, <2>4, <3>1 DEF RowsRead, ImageRows
    <3> QED
      BY <1>2, <2>5, <3>2
  <2>7. /\ output' \in [ImageRows -> [own : Nat, next : Nat]]
        /\ output_iMCU_row' = output_iMCU_row + 1 /\ output_iMCU_row' \in 0 .. total_iMCU_rows
        /\ output_scanline' = output_scanline + 1
        /\ OutputIsCurrent'
    BY <1>1, <1>5, <2>1, <2>2, <2>4, <2>6, RowEmitted
  <2>8. InputDone'
    <3>1. ~eoi_reached /\ input_scan_number # 0
      BY <1>1, <2>3 DEF InputDone
    <3> QED
      BY <1>1, <1>2, <1>3, <2>1, <2>4, <3>1 DEF InputDone
  <2>9. DecompressorTypes'
    BY <1>1, <1>3, <2>1, <2>4, <2>7 DEF DecompressorTypes, ImageRows
  <2>10. Started'
    BY <1>1, <1>3, <1>4, <2>1, <2>7 DEF Started
  <2>11. InStep'
    BY <1>3, <2>1, <2>2, <2>4, <2>5, <2>7 DEF InStep
  <2> QED
    BY <2>7, <2>8, <2>9, <2>10, <2>11 DEF DecompressorInv
<1> QED
  BY <1>8, <1>9

LEMMA PrescanKeeps == DecompressorInv /\ Prescan => DecompressorInv'
<1> SUFFICES ASSUME DecompressorInv, Prescan PROVE DecompressorInv'
  OBVIOUS
<1>1. DecompressorTypes /\ InputDone /\ Started /\ InStep /\ OutputIsCurrent
  BY DEF DecompressorInv
<1>2. call = "prescan" /\ global_state = "PRESCAN" /\ global_state \notin Early
  BY DEF Prescan, Early
<1>3. CASE /\ pass = "dummy" /\ output_scanline < total_iMCU_rows
           /\ OutputRow
           /\ UNCHANGED <<parameters, call, global_state, output_scan_number, pass, smoothing>>
  BY <1>2, <1>3, OutputRowKeeps DEF Calls
<1>4. CASE GoOn
  BY <1>2, <1>4, GoOnKeeps
<1>5. CASE Return /\ Nowhere
  BY <1>5, CallChanges DEF Return, Calls
<1>6. CASE /\ pass = "dummy" /\ output_scanline = total_iMCU_rows
           /\ pass' = "final" /\ output_scanline' = 0
           /\ UNCHANGED <<inputVars, parameters, call, global_state, output_scan_number,
                          output_iMCU_row, smoothing, output>>
  <2>1. output_iMCU_row = total_iMCU_rows
    BY <1>1, <1>6 DEF Started
  <2>2. InputDone'
    BY <1>1, <1>2, <1>6, InputStays DEF parameters
  <2>3. DecompressorTypes'
    BY <1>1, <1>6 DEF DecompressorTypes, inputVars, parameters, ImageRows
  <2>4. Started'
    BY <1>1, <1>2, <1>6, <2>1 DEF Started, inputVars, parameters, has_multiple_scans
  <2>5. InStep'
    BY <1>1, <1>6 DEF InStep, inputVars, parameters, has_multiple_scans, full_buffer
  <2>6. OutputIsCurrent'
    BY <1>1, <1>6 DEF OutputIsCurrent, parameters, NumScans, has_multiple_scans
  <2> QED
    BY <2>2, <2>3, <2>4, <2>5, <2>6 DEF DecompressorInv
<1>7. CASE /\ global_state' = "SCANNING" /\ Return
           /\ UNCHANGED <<inputVars, passVars, parameters, output_scan_number>>
  BY <1>2, <1>7, StateChanges DEF Return, Calls
<1> QED
  BY <1>3, <1>4, <1>5, <1>6, <1>7 DEF Prescan

LEMMA ReadKeeps == DecompressorInv /\ Read => DecompressorInv'
<1> SUFFICES ASSUME DecompressorInv, Read PROVE DecompressorInv'
  OBVIOUS
<1>1. DecompressorTypes /\ InputDone /\ Started /\ InStep /\ OutputIsCurrent
  BY DEF DecompressorInv
<1>2. call = "read" /\ global_state = "SCANNING" /\ global_state \notin Early
  BY DEF Read, Early
<1>3. CASE /\ pass = "single" /\ OutputRow /\ Return
           /\ UNCHANGED <<parameters, global_state, output_scan_number, pass, smoothing>>
  <2>1. output_scanline < total_iMCU_rows
    BY <1>1, <1>2 DEF Started
  <2> QED
    BY <1>2, <1>3, <2>1, OutputRowKeeps DEF Return, Calls
<1>4. CASE GoOn
  BY <1>2, <1>4, GoOnKeeps
<1>5. CASE Return /\ Nowhere
  BY <1>5, CallChanges DEF Return, Calls
<1>6. CASE /\ pass = "final"
           /\ output_scanline' = output_scanline + 1 /\ Return
           /\ UNCHANGED <<inputVars, parameters, global_state, output_scan_number,
                          output_iMCU_row, pass, smoothing, output>>
  <2>2. InputDone'
    BY <1>1, <1>2, <1>6, InputStays DEF parameters
  <2>3. DecompressorTypes'
    BY <1>1, <1>6 DEF DecompressorTypes, inputVars, parameters, ImageRows, Return, Calls
  <2>4. Started'
    BY <1>1, <1>2, <1>6 DEF Started, inputVars, parameters, has_multiple_scans, Return
  <2>5. InStep'
    BY <1>1, <1>6 DEF InStep, inputVars, parameters, has_multiple_scans, full_buffer
  <2>6. OutputIsCurrent'
    BY <1>1, <1>6 DEF OutputIsCurrent, parameters, NumScans, has_multiple_scans
  <2> QED
    BY <2>2, <2>3, <2>4, <2>5, <2>6 DEF DecompressorInv
<1> QED
  BY <1>3, <1>4, <1>5, <1>6 DEF Read

-----------------------------------------------------------------------------

LEMMA ConsumeCallKeeps == DecompressorInv /\ ConsumeCall => DecompressorInv'
<1> SUFFICES ASSUME DecompressorInv, ConsumeCall PROVE DecompressorInv'
  OBVIOUS
<1>1. /\ call = "none" /\ global_state \notin {"READY", "ERROR"}
      /\ UNCHANGED <<passVars, parameters, call>>
  BY DEF ConsumeCall
<1>2. CASE Consume
  BY <1>1, <1>2, ConsumeKeeps
<1>3. CASE UNCHANGED <<inputVars, global_state, output_scan_number>>
  BY <1>1, <1>3, CallChanges DEF Nowhere, Calls
<1> QED
  BY <1>2, <1>3 DEF ConsumeCall

\* The ends of a pass and of a datastream.
LEMMA FinishKeeps ==
  DecompressorInv /\ (FinishOutput \/ ToNextScan \/ FinishDecompress \/ ToEOI) => DecompressorInv'
<1> SUFFICES ASSUME DecompressorInv, FinishOutput \/ ToNextScan \/ FinishDecompress \/ ToEOI
             PROVE  DecompressorInv'
  OBVIOUS
<1>1. Started
  BY DEF DecompressorInv
<1>2. CASE FinishOutput
  BY <1>2, StateChanges DEF FinishOutput, Early, Calls
<1>3. CASE ToNextScan
  <2>1. global_state = "BUFPOST" /\ buffered_image
    BY <1>1, <1>3 DEF ToNextScan, Started
  <2>2. CASE input_scan_number <= output_scan_number /\ ~eoi_reached
    BY <1>3, <2>1, <2>2, GoOnKeeps, SuspendKeeps DEF ToNextScan
  <2>3. CASE ~(input_scan_number <= output_scan_number /\ ~eoi_reached)
    BY <1>3, <2>1, <2>3, StateChanges DEF ToNextScan, Return, Early, Calls
  <2> QED
    BY <2>2, <2>3
<1>4. CASE FinishDecompress
  BY <1>4, StateChanges DEF FinishDecompress, Early, Calls
<1>5. CASE ToEOI
  <2>1. CASE eoi_reached
    BY <1>5, <2>1, FreshInv DEF ToEOI
  <2>2. CASE ~eoi_reached
    BY <1>5, <2>2, GoOnKeeps, SuspendKeeps DEF ToEOI
  <2> QED
    BY <2>1, <2>2
<1> QED
  BY <1>2, <1>3, <1>4, <1>5

LEMMA DecompressorStutters ==
  DecompressorInv /\ UNCHANGED decompressorVars => DecompressorInv'
<1> SUFFICES ASSUME DecompressorInv, UNCHANGED decompressorVars PROVE DecompressorInv'
  OBVIOUS
<1>1. Nowhere /\ call' = call
  BY DEF Nowhere, decompressorVars
<1>2. /\ call \in Calls /\ (call # "none" => global_state \notin {"START", "READY"})
      /\ (call = "read" => output_scanline < total_iMCU_rows)
  BY DEF DecompressorInv, DecompressorTypes, Started
<1> QED
  BY <1>1, <1>2, CallChanges

LEMMA DecompressorStep == DecompressorInv /\ [DecompressorNext]_decompressorVars => DecompressorInv'
<1> SUFFICES ASSUME DecompressorInv, [DecompressorNext]_decompressorVars PROVE DecompressorInv'
  OBVIOUS
<1>1. CASE \E scan_number \in 1 .. NumScans + 1 : StartOutput(scan_number)
  BY <1>1, StartOutputKeeps
<1>2. CASE TablesOnly \/ jpeg_abort
  BY <1>2, FreshInv DEF TablesOnly, jpeg_abort
<1>3. CASE StartAgain
  BY <1>3, CallChanges DEF StartAgain, Calls
<1>4. CASE ReadScanlines
  BY <1>4, CallChanges DEF ReadScanlines, Calls
<1> QED
  BY <1>1, <1>2, <1>3, <1>4, SetSourceKeeps, ArriveKeeps, ConsumeCallKeeps, StartDecompressKeeps,
     PreloadKeeps, PrescanKeeps, ReadKeeps, FinishKeeps, DecompressorStutters
  DEF DecompressorNext

LEMMA OutputOfInv == DecompressorInv => OutputArrives
<1> SUFFICES ASSUME DecompressorInv PROVE OutputArrives
  OBVIOUS
<1>1. DecompressorTypes /\ InputDone /\ Started /\ InStep /\ OutputIsCurrent
  BY DEF DecompressorInv
<1>2. ASSUME eoi_reached, call \in {"prescan", "read"}, output_iMCU_row \in ImageRows
      PROVE  ~WaitForInput
  <2>1. global_state \notin {"START", "READY", "ERROR"}
    BY <1>1, <1>2 DEF InputDone, Started
  <2>2. /\ input_iMCU_row = total_iMCU_rows /\ output_scan_number <= input_scan_number
    BY <1>1, <1>2, <2>1 DEF InputDone, InStep
  <2>3. /\ input_scan_number \in Nat /\ output_scan_number \in Nat
        /\ total_iMCU_rows \in Nat /\ output_iMCU_row \in Nat
        /\ output_iMCU_row < total_iMCU_rows
    BY <1>1, <1>2, DecompressorAssumption DEF DecompressorTypes, ImageRows
  <2>4. ~(input_scan_number < output_scan_number) /\ ~(input_iMCU_row <= output_iMCU_row)
    BY <2>2, <2>3
  <2>5. ~MustConsume
    BY <2>4 DEF MustConsume
  <2>6. ~MustConsumeToSmooth
    BY <1>2 DEF MustConsumeToSmooth
  <2> QED
    BY <2>5, <2>6 DEF WaitForInput
<1> QED
  BY <1>1, <1>2 DEF OutputArrives, NoWaitAtEnd

\* jdapistd.c and jdcoefct.c: for an image of any height and a file of any
\* number of scans, with or without buffered-image mode, suspended anywhere,
\* every row that is output has the data of all scans up to the requested one,
\* and at the end of the file the output does not wait for more.
THEOREM OutputOfAllScans == DecompressorSpec => []OutputArrives
<1>1. DecompressorSpec => []DecompressorInv
  BY DecompressorInitInv, DecompressorStep, PTL DEF DecompressorSpec
<1> QED
  BY <1>1, OutputOfInv, PTL

-----------------------------------------------------------------------------
(* Colors.                                                                 *)

\* A sample as a number.
LEMMA SamplesAre == \A s : s \in Samples <=> (s \in Int /\ 0 <= s /\ s <= 255)
BY SMT DEF Samples, MAXJSAMPLE

\* RightShift rounds down.
Floor(x, q) == q \in Int /\ 65536 * q <= x /\ x < 65536 * q + 65536
LEMMA Shifted ==
  ASSUME NEW x \in Int
  PROVE  Floor(x, RightShift(x))
BY SMT DEF RightShift, Floor

\* Of what is within 65536 times the range of a sample, rounded: a sample, to
\* within a half.
LEMMA RoundedToSample ==
  ASSUME NEW x \in Int, 0 <= x, x <= 16711680
  PROVE  /\ RightShift(x + 32768) \in Samples
         /\ -32768 <= 65536 * RightShift(x + 32768) - x
         /\ 65536 * RightShift(x + 32768) - x <= 32768
<1> DEFINE s == RightShift(x + 32768)
<1>1. s \in Int /\ 65536 * s <= x + 32768 /\ x + 32768 < 65536 * s + 65536
  BY SMT, Shifted DEF Floor
<1> HIDE DEF s
<1>2. 0 <= s /\ s <= 255 /\ -32768 <= 65536 * s - x /\ 65536 * s - x <= 32768
  BY SMT, <1>1
<1> QED
  BY SMT, <1>1, <1>2, SamplesAre DEF s

\* The same for a difference, which is to be one less than the next sample.
LEMMA RoundedToDifference ==
  ASSUME NEW x \in Int, -8355840 <= x, x <= 8355840
  PROVE  /\ RightShift(x + 8421375) \in Samples
         /\ -32768 <= 65536 * (RightShift(x + 8421375) - 128) - x
         /\ 65536 * (RightShift(x + 8421375) - 128) - x <= 32768
<1> DEFINE s == RightShift(x + 8421375)
<1>1. s \in Int /\ 65536 * s <= x + 8421375 /\ x + 8421375 < 65536 * s + 65536
  BY SMT, Shifted DEF Floor
<1> HIDE DEF s
<1>2. 0 <= s /\ s <= 255 /\ -32768 <= 65536 * (s - 128) - x /\ 65536 * (s - 128) - x <= 32768
  BY SMT, <1>1
<1> QED
  BY SMT, <1>1, <1>2, SamplesAre DEF s

\* A pixel's luminance and color differences before they are rounded.
Luma(r, g, b) == 19595 * r + 38470 * g + 7471 * b
Bluer(r, g, b) == 32768 * b - 11059 * r - 21709 * g
Redder(r, g, b) == 32768 * r - 27439 * g - 5329 * b

\* They are within the range of a sample, and half of it up and down.
LEMMA ExactlyConverted ==
  ASSUME NEW r \in Int, NEW g \in Int, NEW b \in Int,
         0 <= r, r <= 255, 0 <= g, g <= 255, 0 <= b, b <= 255
  PROVE  /\ Luma(r, g, b) \in Int /\ 0 <= Luma(r, g, b) /\ Luma(r, g, b) <= 16711680
         /\ Bluer(r, g, b) \in Int /\ -8355840 <= Bluer(r, g, b) /\ Bluer(r, g, b) <= 8355840
         /\ Redder(r, g, b) \in Int /\ -8355840 <= Redder(r, g, b) /\ Redder(r, g, b) <= 8355840
BY SMT DEF Luma, Bluer, Redder

\* The compressor's table of factors, with its offsets.
LEMMA Converts ==
  ASSUME NEW r \in Int, NEW g \in Int, NEW b \in Int
  PROVE  /\ ToY(r, g, b) = RightShift(Luma(r, g, b) + 32768)
         /\ ToCb(r, g, b) = RightShift(Bluer(r, g, b) + 8421375)
         /\ ToCr(r, g, b) = RightShift(Redder(r, g, b) + 8421375)
<1>1. CBCR_OFFSET = 8421375
  BY SMT DEF CBCR_OFFSET, ONE_HALF, CENTERJSAMPLE
<1> QED
  BY SMT, <1>1 DEF ToY, ToCb, ToCr, Luma, Bluer, Redder, ONE_HALF

\* Luminance and color differences of a pixel, to within half a sample.
LEMMA DifferencesOf ==
  ASSUME NEW r \in Samples, NEW g \in Samples, NEW b \in Samples
  PROVE  /\ ToY(r, g, b) \in Samples /\ ToCb(r, g, b) \in Samples /\ ToCr(r, g, b) \in Samples
         /\ -32768 <= 65536 * ToY(r, g, b) - Luma(r, g, b)
         /\ 65536 * ToY(r, g, b) - Luma(r, g, b) <= 32768
         /\ -32768 <= 65536 * (ToCb(r, g, b) - 128) - Bluer(r, g, b)
         /\ 65536 * (ToCb(r, g, b) - 128) - Bluer(r, g, b) <= 32768
         /\ -32768 <= 65536 * (ToCr(r, g, b) - 128) - Redder(r, g, b)
         /\ 65536 * (ToCr(r, g, b) - 128) - Redder(r, g, b) <= 32768
<1>1. /\ r \in Int /\ g \in Int /\ b \in Int
      /\ 0 <= r /\ r <= 255 /\ 0 <= g /\ g <= 255 /\ 0 <= b /\ b <= 255
  BY SMT, SamplesAre
<1>2. /\ Luma(r, g, b) \in Int /\ 0 <= Luma(r, g, b) /\ Luma(r, g, b) <= 16711680
      /\ Bluer(r, g, b) \in Int /\ -8355840 <= Bluer(r, g, b) /\ Bluer(r, g, b) <= 8355840
      /\ Redder(r, g, b) \in Int /\ -8355840 <= Redder(r, g, b) /\ Redder(r, g, b) <= 8355840
  BY SMT, <1>1, ExactlyConverted
<1>3. /\ ToY(r, g, b) = RightShift(Luma(r, g, b) + 32768)
      /\ ToCb(r, g, b) = RightShift(Bluer(r, g, b) + 8421375)
      /\ ToCr(r, g, b) = RightShift(Redder(r, g, b) + 8421375)
  BY SMT, <1>1, Converts
<1>4. /\ ToY(r, g, b) \in Samples
      /\ -32768 <= 65536 * ToY(r, g, b) - Luma(r, g, b)
      /\ 65536 * ToY(r, g, b) - Luma(r, g, b) <= 32768
  BY SMT, <1>2, <1>3, RoundedToSample
<1>5. /\ ToCb(r, g, b) \in Samples
      /\ -32768 <= 65536 * (ToCb(r, g, b) - 128) - Bluer(r, g, b)
      /\ 65536 * (ToCb(r, g, b) - 128) - Bluer(r, g, b) <= 32768
  BY SMT, <1>2, <1>3, RoundedToDifference
<1>6. /\ ToCr(r, g, b) \in Samples
      /\ -32768 <= 65536 * (ToCr(r, g, b) - 128) - Redder(r, g, b)
      /\ 65536 * (ToCr(r, g, b) - 128) - Redder(r, g, b) <= 32768
  BY SMT, <1>2, <1>3, RoundedToDifference
<1> QED
  BY <1>4, <1>5, <1>6

\* The arithmetic of the way back: red.
LEMMA BackToRed ==
  ASSUME NEW r \in Int, NEW g \in Int, NEW b \in Int, NEW y \in Int, NEW d \in Int, NEW t \in Int,
         0 <= r, r <= 255, 0 <= g, g <= 255, 0 <= b, b <= 255,
         -32768 <= 65536 * y - (19595 * r + 38470 * g + 7471 * b),
         65536 * y - (19595 * r + 38470 * g + 7471 * b) <= 32768,
         -32768 <= 65536 * d - (32768 * r - 27439 * g - 5329 * b),
         65536 * d - (32768 * r - 27439 * g - 5329 * b) <= 32768,
         65536 * t <= 91881 * d + 32768, 91881 * d + 32768 < 65536 * t + 65536
  PROVE  r - 1 <= y + t /\ y + t <= r + 1
BY SMT

\* The same for blue.
LEMMA BackToBlue ==
  ASSUME NEW r \in Int, NEW g \in Int, NEW b \in Int, NEW y \in Int, NEW d \in Int, NEW t \in Int,
         0 <= r, r <= 255, 0 <= g, g <= 255, 0 <= b, b <= 255,
         -32768 <= 65536 * y - (19595 * r + 38470 * g + 7471 * b),
         65536 * y - (19595 * r + 38470 * g + 7471 * b) <= 32768,
         -32768 <= 65536 * d - (32768 * b - 11059 * r - 21709 * g),
         65536 * d - (32768 * b - 11059 * r - 21709 * g) <= 32768,
         65536 * t <= 116130 * d + 32768, 116130 * d + 32768 < 65536 * t + 65536
  PROVE  b - 1 <= y + t /\ y + t <= b + 1
BY SMT

\* The same for green, which both differences tell of.
LEMMA BackToGreen ==
  ASSUME NEW r \in Int, NEW g \in Int, NEW b \in Int, NEW y \in Int, NEW d \in Int, NEW e \in Int,
         NEW t \in Int,
         0 <= r, r <= 255, 0 <= g, g <= 255, 0 <= b, b <= 255,
         -32768 <= 65536 * y - (19595 * r + 38470 * g + 7471 * b),
         65536 * y - (19595 * r + 38470 * g + 7471 * b) <= 32768,
         -32768 <= 65536 * d - (32768 * b - 11059 * r - 21709 * g),
         65536 * d - (32768 * b - 11059 * r - 21709 * g) <= 32768,
         -32768 <= 65536 * e - (32768 * r - 27439 * g - 5329 * b),
         65536 * e - (32768 * r - 27439 * g - 5329 * b) <= 32768,
         65536 * t <= 32768 - 22554 * d - 46802 * e,
         32768 - 22554 * d - 46802 * e < 65536 * t + 65536
  PROVE  g - 1 <= y + t /\ y + t <= g + 1
BY SMT

\* Gray has no color differences.
LEMMA BackToGray ==
  ASSUME NEW r \in Int, NEW y \in Int, NEW d \in Int, NEW e \in Int, 0 <= r, r <= 255,
         -32768 <= 65536 * y - (19595 * r + 38470 * r + 7471 * r),
         65536 * y - (19595 * r + 38470 * r + 7471 * r) <= 32768,
         -32768 <= 65536 * d - (32768 * r - 11059 * r - 21709 * r),
         65536 * d - (32768 * r - 11059 * r - 21709 * r) <= 32768,
         -32768 <= 65536 * e - (32768 * r - 27439 * r - 5329 * r),
         65536 * e - (32768 * r - 27439 * r - 5329 * r) <= 32768
  PROVE  y = r /\ d = 0 /\ e = 0
BY SMT

\* What the decompressor adds up for a pixel that the compressor converted.
LEMMA SumsComeBack ==
  ASSUME NEW r \in Samples, NEW g \in Samples, NEW b \in Samples,
         NEW y \in Int, NEW cb \in Int, NEW cr \in Int,
         y = ToY(r, g, b), cb = ToCb(r, g, b), cr = ToCr(r, g, b)
  PROVE  /\ y + Cr_r(cr) \in r - 1 .. r + 1
         /\ y + Cb_Cr_g(cb, cr) \in g - 1 .. g + 1
         /\ y + Cb_b(cb) \in b - 1 .. b + 1
         /\ r = g /\ g = b => y + Cr_r(cr) = r /\ y + Cb_Cr_g(cb, cr) = g /\ y + Cb_b(cb) = b
<1> DEFINE d == cb - 128
           e == cr - 128
           toRed == RightShift(91881 * e + 32768)
           toGreen == RightShift(32768 - 22554 * d - 46802 * e)
           toBlue == RightShift(116130 * d + 32768)
<1>1. /\ r \in Int /\ g \in Int /\ b \in Int
      /\ 0 <= r /\ r <= 255 /\ 0 <= g /\ g <= 255 /\ 0 <= b /\ b <= 255
  BY SMT, SamplesAre
<1>2. d \in Int /\ e \in Int
  BY SMT
<1>3. Cr_r(cr) = toRed /\ Cb_Cr_g(cb, cr) = toGreen /\ Cb_b(cb) = toBlue
  BY SMT DEF Cr_r, Cb_Cr_g, Cb_b, ONE_HALF, CENTERJSAMPLE
<1>4. /\ -32768 <= 65536 * y - Luma(r, g, b) /\ 65536 * y - Luma(r, g, b) <= 32768
      /\ -32768 <= 65536 * d - Bluer(r, g, b) /\ 65536 * d - Bluer(r, g, b) <= 32768
      /\ -32768 <= 65536 * e - Redder(r, g, b) /\ 65536 * e - Redder(r, g, b) <= 32768
  BY SMT, DifferencesOf
<1> HIDE DEF d, e
<1>5. /\ -32768 <= 65536 * y - (19595 * r + 38470 * g + 7471 * b)
      /\ 65536 * y - (19595 * r + 38470 * g + 7471 * b) <= 32768
      /\ -32768 <= 65536 * d - (32768 * b - 11059 * r - 21709 * g)
      /\ 65536 * d - (32768 * b - 11059 * r - 21709 * g) <= 32768
      /\ -32768 <= 65536 * e - (32768 * r - 27439 * g - 5329 * b)
      /\ 65536 * e - (32768 * r - 27439 * g - 5329 * b) <= 32768
  BY SMT, <1>4 DEF Luma, Bluer, Redder
<1>6. toRed \in Int /\ 65536 * toRed <= 91881 * e + 32768 /\ 91881 * e + 32768 < 65536 * toRed + 65536
  <2> DEFINE x == 91881 * e + 32768
  <2>1. x \in Int
    BY SMT, <1>2
  <2> HIDE DEF x
  <2>2. Floor(x, RightShift(x))
    BY <2>1, Shifted
  <2> QED
    BY SMT, <2>2 DEF x, Floor
<1>7. /\ toGreen \in Int /\ 65536 * toGreen <= 32768 - 22554 * d - 46802 * e
      /\ 32768 - 22554 * d - 46802 * e < 65536 * toGreen + 65536
  <2> DEFINE x == 32768 - 22554 * d - 46802 * e
  <2>1. x \in Int
    BY SMT, <1>2
  <2> HIDE DEF x
  <2>2. Floor(x, RightShift(x))
    BY <2>1, Shifted
  <2> QED
    BY SMT, <2>2 DEF x, Floor
<1>8. /\ toBlue \in Int /\ 65536 * toBlue <= 116130 * d + 32768
      /\ 116130 * d + 32768 < 65536 * toBlue + 65536
  <2> DEFINE x == 116130 * d + 32768
  <2>1. x \in Int
    BY SMT, <1>2
  <2> HIDE DEF x
  <2>2. Floor(x, RightShift(x))
    BY <2>1, Shifted
  <2> QED
    BY SMT, <2>2 DEF x, Floor
<1> HIDE DEF toRed, toGreen, toBlue
<1>9. /\ r - 1 <= y + toRed /\ y + toRed <= r + 1
      /\ g - 1 <= y + toGreen /\ y + toGreen <= g + 1
      /\ b - 1 <= y + toBlue /\ y + toBlue <= b + 1
  BY SMT, <1>1, <1>2, <1>5, <1>6, <1>7, <1>8, BackToRed, BackToGreen, BackToBlue
<1>10. ASSUME r = g, g = b
       PROVE  y + toRed = r /\ y + toGreen = g /\ y + toBlue = b
  <2>1. y = r /\ d = 0 /\ e = 0
    BY SMT, <1>1, <1>2, <1>5, <1>10, BackToGray
  <2> QED
    BY SMT, <1>1, <1>6, <1>7, <1>8, <1>10, <2>1
<1> QED
  BY SMT, <1>1, <1>3, <1>6, <1>7, <1>8, <1>9, <1>10

-----------------------------------------------------------------------------
(* The table that limits samples.                                          *)

\* The table: it limits what is not further from the samples than their range.
LEMMA TableLimits ==
  ASSUME NEW i \in Int, -256 <= i, i <= 639
  PROVE  range_limit(i) = IF i < 0 THEN 0 ELSE IF i > 255 THEN 255 ELSE i
<1>1. FirstEntry = -256 /\ LastEntry = 1151 /\ ZerosAgain = 640 /\ MAXJSAMPLE = 255 /\ Wrapped = 1024
  BY SMT DEF FirstEntry, LastEntry, ZerosAgain, MAXJSAMPLE, CENTERJSAMPLE, Wrapped
<1>2. ~(i < FirstEntry \/ i > LastEntry)
  BY SMT, <1>1
<1>3. CASE i < 0
  <2>1. i \in FirstEntry .. -1 /\ i \notin Samples /\ i \notin MAXJSAMPLE + 1 .. ZerosAgain - 1
        /\ i \notin ZerosAgain .. Wrapped - 1 /\ i \notin Wrapped .. LastEntry
    BY SMT, <1>1, <1>3, SamplesAre
  <2> QED
    BY <1>2, <1>3, <2>1 DEF range_limit
<1>4. CASE i \in Samples
  <2>1. i \notin FirstEntry .. -1 /\ i \notin MAXJSAMPLE + 1 .. ZerosAgain - 1
        /\ i \notin ZerosAgain .. Wrapped - 1 /\ i \notin Wrapped .. LastEntry
        /\ ~(i < 0) /\ ~(i > 255)
    BY SMT, <1>1, <1>4, SamplesAre
  <2> QED
    BY <1>2, <1>4, <2>1 DEF range_limit
<1>5. CASE i > 255
  <2>1. i \notin FirstEntry .. -1 /\ i \notin Samples /\ i \in MAXJSAMPLE + 1 .. ZerosAgain - 1
        /\ i \notin ZerosAgain .. Wrapped - 1 /\ i \notin Wrapped .. LastEntry /\ ~(i < 0)
    BY SMT, <1>1, <1>5, SamplesAre
  <2> QED
    BY <1>1, <1>2, <1>5, <2>1 DEF range_limit
<1>6. i < 0 \/ i \in Samples \/ i > 255
  BY SMT, SamplesAre
<1> QED
  BY <1>3, <1>4, <1>5, <1>6

\* The last entries, which only an inverse transform can reach: zeros again,
\* and then the samples up to the middle.
LEMMA TableWraps ==
  ASSUME NEW i \in Int, 640 <= i, i <= 1151
  PROVE  range_limit(i) = IF i < 1024 THEN 0 ELSE i - 1024
<1>1. FirstEntry = -256 /\ LastEntry = 1151 /\ ZerosAgain = 640 /\ MAXJSAMPLE = 255 /\ Wrapped = 1024
  BY SMT DEF FirstEntry, LastEntry, ZerosAgain, MAXJSAMPLE, CENTERJSAMPLE, Wrapped
<1>2. ~(i < FirstEntry \/ i > LastEntry) /\ i \notin FirstEntry .. -1 /\ i \notin Samples
      /\ i \notin MAXJSAMPLE + 1 .. ZerosAgain - 1
  BY SMT, <1>1, SamplesAre
<1>3. CASE i < 1024
  <2>1. i \in ZerosAgain .. Wrapped - 1 /\ i \notin Wrapped .. LastEntry
    BY SMT, <1>1, <1>3
  <2> QED
    BY <1>2, <1>3, <2>1 DEF range_limit
<1>4. CASE ~(i < 1024)
  <2>1. i \notin ZerosAgain .. Wrapped - 1 /\ i \in Wrapped .. LastEntry
    BY SMT, <1>1, <1>4
  <2> QED
    BY <1>1, <1>2, <1>4, <2>1 DEF range_limit
<1> QED
  BY <1>3, <1>4

\* Limiting what is beside a sample.
LEMMA LimitedBeside ==
  ASSUME NEW s \in Samples, NEW i \in s - 1 .. s + 1
  PROVE  /\ range_limit(i) \in Samples /\ range_limit(i) \in s - 1 .. s + 1
         /\ i = s => range_limit(i) = s
<1>1. s \in Int /\ 0 <= s /\ s <= 255 /\ i \in Int /\ s - 1 <= i /\ i <= s + 1
  BY SMT, SamplesAre
<1>2. range_limit(i) = IF i < 0 THEN 0 ELSE IF i > 255 THEN 255 ELSE i
  BY SMT, <1>1, TableLimits
<1> QED
  BY SMT, <1>1, <1>2, SamplesAre

RGBPixels == [1 .. 3 -> Samples]

\* What a pixel is after it was written into a file and read again.
Reread(pixel) == color_deconvert("ycc_rgb", color_convert("rgb_ycc", pixel))

\* jccolor.c and jdcolor.c: the compressor, which limits nothing, makes samples
\* of every color (the reason for CBCR_OFFSET); the decompressor stays within
\* its table; and a color comes back within 1, gray as it was.
THEOREM ColorComesBack ==
  ASSUME NEW pixel \in RGBPixels
  PROVE  /\ color_convert("rgb_ycc", pixel) \in [1 .. 3 -> Samples]
         /\ Reread(pixel) \in RGBPixels
         /\ \A k \in 1 .. 3 : Reread(pixel)[k] \in pixel[k] - 1 .. pixel[k] + 1
         /\ pixel[1] = pixel[2] /\ pixel[2] = pixel[3] => Reread(pixel) = pixel
<1> DEFINE r == pixel[1]
           g == pixel[2]
           b == pixel[3]
           file == ToYCC(r, g, b)
           sums == [k \in 1 .. 3 |-> file[1] + Chroma(file[2], file[3])[k]]
<1>1. r \in Samples /\ g \in Samples /\ b \in Samples /\ Samples \subseteq Int
  BY SamplesAre DEF RGBPixels
<1>2. file[1] = ToY(r, g, b) /\ file[2] = ToCb(r, g, b) /\ file[3] = ToCr(r, g, b)
  BY DEF ToYCC
<1>3. ToY(r, g, b) \in Samples /\ ToCb(r, g, b) \in Samples /\ ToCr(r, g, b) \in Samples
  <2> HIDE DEF r, g, b, file, sums
  <2> QED
    BY SMT, <1>1, DifferencesOf
<1>4. file \in [1 .. 3 -> Samples]
  BY <1>3 DEF ToYCC
<1>5. color_convert("rgb_ycc", pixel) = file
  BY DEF color_convert, rgb_ycc_convert
<1>6. color_deconvert("ycc_rgb", file) = [k \in 1 .. 3 |-> range_limit(sums[k])]
  BY DEF color_deconvert, ycc_rgb_convert, Tinted
<1>7. /\ sums[1] = file[1] + Cr_r(file[3])
      /\ sums[2] = file[1] + Cb_Cr_g(file[2], file[3])
      /\ sums[3] = file[1] + Cb_b(file[2])
  BY DEF Chroma
<1>8. file[1] \in Int /\ file[2] \in Int /\ file[3] \in Int
  BY <1>1, <1>2, <1>3
<1> HIDE DEF file, sums, r, g, b
<1>9. /\ sums[1] \in r - 1 .. r + 1 /\ sums[2] \in g - 1 .. g + 1 /\ sums[3] \in b - 1 .. b + 1
      /\ r = g /\ g = b => sums[1] = r /\ sums[2] = g /\ sums[3] = b
  BY <1>1, <1>2, <1>7, <1>8, SumsComeBack
<1>10. \A k \in 1 .. 3 : /\ pixel[k] \in Samples
                         /\ sums[k] \in pixel[k] - 1 .. pixel[k] + 1
                         /\ r = g /\ g = b => sums[k] = pixel[k]
  BY <1>1, <1>9 DEF r, g, b
<1>11. \A k \in 1 .. 3 : /\ range_limit(sums[k]) \in Samples
                         /\ range_limit(sums[k]) \in pixel[k] - 1 .. pixel[k] + 1
                         /\ r = g /\ g = b => range_limit(sums[k]) = pixel[k]
  BY <1>10, LimitedBeside
<1>12. Reread(pixel) = [k \in 1 .. 3 |-> range_limit(sums[k])]
  BY <1>5, <1>6 DEF Reread
<1> QED
  BY <1>4, <1>5, <1>11, <1>12 DEF RGBPixels, r, g, b

\* jdmaster.c: whatever a damaged file makes of a coefficient, the table makes
\* a sample of it; and the nearest one, up to twice the range too far.
THEOREM InverseTransformIsLimited ==
  ASSUME NEW x \in Int
  PROVE  /\ IDCT_range_limit(x) \in Samples
         /\ x \in -512 .. 511 =>
              IDCT_range_limit(x) = IF x < -128 THEN 0 ELSE IF x > 127 THEN 255 ELSE x + 128
<1> DEFINE m == x % 1024
<1>1. m \in Int /\ 0 <= m /\ m <= 1023 /\ (x \in 0 .. 1023 => m = x) /\ (x \in -1024 .. -1 => m = x + 1024)
  BY SMT
<1>2. IDCT_range_limit(x) = range_limit(128 + m)
  BY SMT DEF IDCT_range_limit, RANGE_MASK, MAXJSAMPLE, CENTERJSAMPLE
<1> HIDE DEF m
<1>3. range_limit(128 + m) = IF m < 128 THEN m + 128 ELSE IF m < 512 THEN 255
                             ELSE IF m < 896 THEN 0 ELSE m - 896
  <2> DEFINE i == 128 + m
  <2>0. i \in Int /\ i = 128 + m
    BY SMT, <1>1
  <2> HIDE DEF i
  <2>1. CASE m < 512
    <3>1. -256 <= i /\ i <= 639
      BY SMT, <1>1, <2>0, <2>1
    <3>2. range_limit(i) = IF i < 0 THEN 0 ELSE IF i > 255 THEN 255 ELSE i
      BY SMT, <2>0, <3>1, TableLimits
    <3> QED
      BY SMT, <1>1, <2>0, <2>1, <3>2
  <2>2. CASE ~(m < 512)
    <3>1. 640 <= i /\ i <= 1151
      BY SMT, <1>1, <2>0, <2>2
    <3>2. range_limit(i) = IF i < 1024 THEN 0 ELSE i - 1024
      BY SMT, <2>0, <3>1, TableWraps
    <3> QED
      BY SMT, <1>1, <2>0, <2>2, <3>2
  <2> QED
    BY <2>1, <2>2
<1>4. IDCT_range_limit(x) \in Samples
  BY SMT, <1>1, <1>2, <1>3, SamplesAre
<1>5. ASSUME x \in -512 .. 511
      PROVE  IDCT_range_limit(x) = IF x < -128 THEN 0 ELSE IF x > 127 THEN 255 ELSE x + 128
  <2>1. CASE 0 <= x
    <3>1. m = x
      BY SMT, <1>1, <1>5, <2>1
    <3> QED
      BY SMT, <1>2, <1>3, <1>5, <2>1, <3>1
  <2>2. CASE ~(0 <= x)
    <3>1. m = x + 1024
      BY SMT, <1>1, <1>5, <2>2
    <3> QED
      BY SMT, <1>2, <1>3, <1>5, <2>2, <3>1
  <2> QED
    BY <2>1, <2>2
<1> QED
  BY <1>4, <1>5

-----------------------------------------------------------------------------
(* Scans with restart markers.                                             *)

\* Induction, on a set of numbers.
LEMMA SetInduction ==
  ASSUME NEW S, 0 \in S, \A n \in Nat : n \in S => n + 1 \in S
  PROVE  \A n \in Nat : n \in S
<1> DEFINE Outside == {n \in Nat : n \notin S}
           Less == OpToRel(<, Nat)
<1>1. \A m, n \in Nat : m < n => <<m, n>> \in Less
  BY DEF OpToRel
<1>2. IsWellFoundedOn(Less, Nat)
  BY NatLessThanWellFounded
<1> SUFFICES ASSUME Outside # {} PROVE FALSE
  OBVIOUS
<1> HIDE DEF Less
<1>3. PICK n \in Outside : \A m \in Outside : <<m, n>> \notin Less
  <2>1. Outside \subseteq Nat
    OBVIOUS
  <2> HIDE DEF Outside
  <2> QED
    BY <1>2, <2>1, WFMin
<1>4. n \in Nat /\ n # 0 /\ n - 1 \in Nat /\ n - 1 < n /\ n = (n - 1) + 1
  OBVIOUS
<1>5. n - 1 \in S
  BY <1>1, <1>3, <1>4
<1> QED
  BY <1>4, <1>5

Items == [kind : {"marker", "data"}, value : Int]

\* A state of the decoder.
At(rest, marker, nextRestart, supply, image) ==
  [rest |-> rest, unread |-> marker, nextRestart |-> nextRestart, insufficient |-> (supply = "none"),
   image |-> image]

\* A marker that is next is found.
LEMMA MarkerIsNext ==
  ASSUME NEW t \in Seq(Items), NEW v \in Int, NEW u, NEW d, NEW b, NEW image
  PROVE  next_marker(At(<<Marker(v)>> \o t, u, d, b, image)) = At(t, v, d, b, image)
<1> DEFINE rest == <<Marker(v)>> \o t
           Markers == {i \in 1 .. Len(rest) : rest[i].kind = "marker"}
           s == At(rest, u, d, b, image)
<1>1. Marker(v) \in Items /\ Marker(v).kind = "marker" /\ Marker(v).value = v
  BY DEF Marker, Items
<1>2. rest \in Seq(Items) /\ Len(rest) = Len(t) + 1 /\ rest[1] = Marker(v)
  BY <1>1
<1>3. SubSeq(rest, 2, Len(rest)) = t
  BY <1>1
<1> HIDE DEF rest
<1>4. 1 \in Markers /\ \A y \in Markers : 1 <= y
  BY <1>1, <1>2
<1>5. \A x \in Markers : (\A y \in Markers : x <= y) => x = 1
  BY <1>4
<1>6. Min(Markers) = 1
  <2> HIDE DEF Markers
  <2> QED
    BY <1>4, <1>5 DEF Min
<1>7. Markers # {}
  BY <1>4
<1>9. s.rest = rest
  BY DEF At
<1>10. next_marker(s) = [s EXCEPT !.rest = SubSeq(rest, 2, Len(rest)), !.unread = rest[1].value]
  <2> HIDE DEF s
  <2>1. {i \in 1 .. Len(s.rest) : s.rest[i].kind = "marker"} = Markers
    BY <1>9
  <2>2. Markers # {} /\ Min(Markers) = 1 /\ 1 # 0 /\ 1 + 1 = 2
    BY <1>6, <1>7
  <2> HIDE DEF Markers
  <2> QED
    BY <1>9, <2>1, <2>2 DEF next_marker, SelectInSeq
<1>11. next_marker(s) = At(t, v, d, b, image)
  BY <1>1, <1>2, <1>3, <1>10 DEF At
<1> QED
  BY <1>11 DEF rest

\* There is none at the end.
LEMMA NoMarkerIsNext ==
  ASSUME NEW u, NEW d, NEW b, NEW image
  PROVE  next_marker(At(<<>>, u, d, b, image)) = At(<<>>, EOI, d, b, image)
<1>1. SelectInSeq(<<>>, LAMBDA item : item.kind = "marker") = 0
  BY DEF SelectInSeq
<1> QED
  BY <1>1 DEF next_marker, At

\* A marker that is to be left is left.
LEMMA LeftAlone ==
  ASSUME NEW rest \in Seq(Items), NEW v, NEW d, NEW b, NEW image, Action(v, d) = "leave"
  PROVE  jpeg_resync_to_restart(At(rest, v, d, b, image), d) = At(rest, v, d, b, image)
<1> DEFINE s == At(rest, v, d, b, image)
           last == Len(s.rest) + 1
           Row(f) == f = [n \in 0 .. Len(s.rest) + 1 |->
                            IF n = 0 THEN s
                            ELSE IF Action(f[n - 1].unread, d) = "advance"
                                 THEN next_marker(f[n - 1]) ELSE f[n - 1]]
           resync == CHOOSE f : Row(f)
<1>1. s.rest = rest /\ s.unread = v /\ last \in Nat /\ last \in 0 .. last
  BY DEF At
<1>2. Action(s.unread, d) # "advance" /\ Action(s.unread, d) # "discard"
  BY <1>1
<1>3. jpeg_resync_to_restart(s, d) =
        IF Action(resync[last].unread, d) = "discard"
        THEN [resync[last] EXCEPT !.unread = None] ELSE resync[last]
  BY DEF jpeg_resync_to_restart
<1> HIDE DEF s
<1>4. \E f : Row(f)
  <2> DEFINE f == [n \in 0 .. Len(s.rest) + 1 |-> s]
  <2>1. \A n \in 0 .. Len(s.rest) + 1 : n # 0 => n - 1 \in 0 .. Len(s.rest) + 1
    BY <1>1
  <2>2. \A n \in 0 .. Len(s.rest) + 1 : n # 0 => f[n - 1] = s
    BY <2>1
  <2>3. Row(f)
    BY <1>2, <2>2
  <2> QED
    BY <2>3
<1>5. Row(resync)
  BY <1>4
<1>6. \A n \in 0 .. last : resync[n] = IF n = 0 THEN s ELSE IF Action(resync[n - 1].unread, d) = "advance"
                                 THEN next_marker(resync[n - 1]) ELSE resync[n - 1]
  BY <1>5
<1> HIDE DEF resync, last
<1> DEFINE Unchanged == {n \in Nat : n <= last => resync[n] = s}
<1>7. 0 \in Unchanged
  BY <1>1, <1>6
<1>8. ASSUME NEW n \in Nat, n \in Unchanged PROVE n + 1 \in Unchanged
  <2> SUFFICES ASSUME n + 1 <= last PROVE resync[n + 1] = s
    OBVIOUS
  <2>1. n + 1 \in 0 .. last /\ n + 1 # 0 /\ (n + 1) - 1 = n /\ n <= last
    BY <1>1
  <2> QED
    BY <1>2, <1>6, <1>8, <2>1
<1>9. last \in Unchanged
  <2> HIDE DEF Unchanged
  <2> QED
    BY <1>1, <1>7, <1>8, SetInduction
<1>10. resync[last] = s
  BY <1>1, <1>9
<1> QED
  BY <1>2, <1>3, <1>10 DEF s

\* The numbers of restart markers: one and two further.
LEMMA NumbersWrap ==
  ASSUME NEW x \in Int
  PROVE  /\ x % 8 \in Int /\ 0 <= x % 8 /\ x % 8 <= 7
         /\ (x + 1) % 8 = ((x % 8) + 1) % 8 /\ (x + 1) % 8 # x % 8
         /\ (x + 2) % 8 = ((x % 8) + 2) % 8 /\ (x + 2) % 8 # x % 8
         /\ ((x % 8) - 1) % 8 # (x + 1) % 8 /\ ((x % 8) - 2) % 8 # (x + 1) % 8
         /\ ((x % 8) - 1) % 8 # (x + 2) % 8 /\ ((x % 8) - 2) % 8 # (x + 2) % 8
BY SMT

\* What read_restart_marker does about a marker that is behind the one that it
\* is looking for, or ends the scan, is to leave it.
LEMMA LaterIsLeft ==
  ASSUME NEW k \in Nat \ {0}, NEW m \in {k + 1, k + 2}
  PROVE  /\ Action((m - 1) % 8, (k - 1) % 8) = "leave"
         /\ (m - 1) % 8 # (k - 1) % 8
<1> DEFINE d == (k - 1) % 8
           v == (m - 1) % 8
<1>1. k - 1 \in Int /\ (m - 1 = (k - 1) + 1 \/ m - 1 = (k - 1) + 2) /\ m - 1 \in Int
  OBVIOUS
<1>2. v \in Int /\ 0 <= v /\ v <= 7
  BY <1>1, NumbersWrap
<1>3. (v = (d + 1) % 8 \/ v = (d + 2) % 8) /\ v # d /\ v # (d - 1) % 8 /\ v # (d - 2) % 8
  BY <1>1, NumbersWrap
<1> HIDE DEF d, v
<1>4. v # Reserved /\ v # EOI
  BY <1>2 DEF Reserved, EOI
<1>5. v \in Ahead(d) /\ v \notin Behind(d)
  BY <1>3 DEF Ahead, Behind
<1>6. Action(v, d) = "leave"
  BY <1>4, <1>5 DEF Action
<1> QED
  BY <1>3, <1>6 DEF d, v

\* The end of the scan is left, too.
LEMMA EndIsLeft ==
  ASSUME NEW d \in 0 .. 7
  PROVE  Action(EOI, d) = "leave" /\ EOI # d /\ EOI # None
<1>1. EOI # Reserved /\ EOI \notin Behind(d) /\ EOI # d /\ EOI # None
  BY DEF EOI, Reserved, Behind, None
<1> QED
  BY <1>1 DEF Action

\* The state behind an interval that has its data.
LEMMA DecodesData ==
  ASSUME NEW i \in Int, NEW t \in Seq(Items), NEW d, NEW image
  PROVE  decode_interval(At(<<Data(i)>> \o t, None, d, "some", image))
           = At(t, None, d, "some", Append(image, i))
<1> DEFINE rest == <<Data(i)>> \o t
<1>1. Data(i) \in Items /\ Data(i).kind = "data" /\ Data(i).value = i
  BY DEF Data, Items
<1>2. rest \in Seq(Items) /\ rest # <<>> /\ Head(rest) = Data(i) /\ Tail(rest) = t
  BY <1>1
<1> HIDE DEF rest
<1>3. decode_interval(At(rest, None, d, "some", image)) = At(Tail(rest), None, d, "some", Append(image, Head(rest).value))
  BY <1>1, <1>2 DEF decode_interval, At
<1> QED
  BY <1>1, <1>2, <1>3 DEF rest

\* The state behind an interval that has none, when a marker was left.
LEMMA FillsUp ==
  ASSUME NEW rest, NEW u, u # None, NEW d, NEW b, NEW image
  PROVE  decode_interval(At(rest, u, d, b, image)) = At(rest, u, d, "none", Append(image, Filled))
<1> USE DEF At
<1>1. CASE b = "none"
  BY <1>1 DEF decode_interval
<1>2. CASE b # "none"
  BY <1>2 DEF decode_interval
<1> QED
  BY <1>1, <1>2

\* The same, when the marker is found instead of the data.
LEMMA FindsMarker ==
  ASSUME NEW rest \in Seq(Items), rest # <<>> => Head(rest).kind = "marker",
         NEW later, NEW v, NEW d, NEW image,
         next_marker(At(rest, None, d, "some", image)) = At(later, v, d, "some", image)
  PROVE  decode_interval(At(rest, None, d, "some", image)) = At(later, v, d, "none", Append(image, Filled))
<1> DEFINE s == At(rest, None, d, "some", image)
<1>1. s.rest = rest /\ s.unread = None /\ s.insufficient = FALSE /\ s.image = image
  BY DEF At
<1>2. next_marker(s) = At(later, v, d, "some", image)
  OBVIOUS
<1>3. ~(s.rest # <<>> /\ Head(s.rest).kind = "data")
  BY <1>1
<1> HIDE DEF s
<1> DEFINE t == At(later, v, d, "some", image)
<1>4. t.image = image
  BY DEF At
<1> HIDE DEF t
<1>5. decode_interval(s) = [t EXCEPT !.insufficient = TRUE, !.image = Append(image, Filled)]
  BY <1>1, <1>2, <1>3, <1>4 DEF decode_interval, t
<1>6. decode_interval(s) = At(later, v, d, "none", Append(image, Filled))
  BY <1>5 DEF At, t
<1> QED
  BY <1>6 DEF s

\* A restart marker that is the right one.
LEMMA MarkerMatches ==
  ASSUME NEW rest, NEW d \in 0 .. 7, NEW b, NEW image
  PROVE  read_restart_marker(At(rest, d, d, b, image)) = At(rest, None, (d + 1) % 8, b, image)
<1> DEFINE s == At(rest, d, d, b, image)
<1>1. d # None
  BY DEF None
<1>2. s.unread = d /\ s.nextRestart = d
  BY DEF At
<1> HIDE DEF s
<1>3. read_restart_marker(s) = [[s EXCEPT !.unread = None] EXCEPT !.nextRestart = (@ + 1) % 8]
  BY <1>1, <1>2 DEF read_restart_marker
<1> QED
  BY <1>3 DEF s, At

\* One that is to be left.
LEMMA MarkerIsLeft ==
  ASSUME NEW rest \in Seq(Items), NEW v, v # None, NEW d, v # d, NEW b, NEW image, Action(v, d) = "leave"
  PROVE  read_restart_marker(At(rest, v, d, b, image)) = At(rest, v, (d + 1) % 8, b, image)
<1> DEFINE s == At(rest, v, d, b, image)
<1>1. s.unread = v /\ s.nextRestart = d
  BY DEF At
<1>2. jpeg_resync_to_restart(s, d) = s
  BY LeftAlone
<1> HIDE DEF s
<1>3. read_restart_marker(s) = [s EXCEPT !.nextRestart = (@ + 1) % 8]
  BY <1>1, <1>2 DEF read_restart_marker
<1> QED
  BY <1>3 DEF s, At

\* It is looked for the same whether it was found already or not.
LEMMA LooksFirst ==
  ASSUME NEW rest, NEW later, NEW v, v # None, NEW d, NEW b, NEW image,
         next_marker(At(rest, None, d, b, image)) = At(later, v, d, b, image)
  PROVE  read_restart_marker(At(rest, None, d, b, image)) = read_restart_marker(At(later, v, d, b, image))
<1> DEFINE s == At(rest, None, d, b, image)
           t == At(later, v, d, b, image)
<1>1. s.unread = None /\ t.unread = v /\ s.nextRestart = t.nextRestart /\ next_marker(s) = t
  BY DEF At
<1> HIDE DEF s, t
<1>2. read_restart_marker(s) = read_restart_marker(t)
  BY <1>1 DEF read_restart_marker
<1> QED
  BY <1>2 DEF s, t

\* Behind a marker that was taken there is data.
LEMMA RestartGoesOn ==
  ASSUME NEW s, NEW rest, NEW u, NEW d, NEW b, NEW image,
         read_restart_marker(s) = At(rest, u, d, b, image)
  PROVE  process_restart(s) = At(rest, u, d, IF u = None THEN "some" ELSE b, image)
<1> DEFINE t == At(rest, u, d, b, image)
<1>1. t.unread = u
  BY DEF At
<1> HIDE DEF t
<1>2. process_restart(s) = IF u = None THEN [t EXCEPT !.insufficient = FALSE] ELSE t
  BY <1>1 DEF process_restart, t
<1> QED
  BY <1>2 DEF t, At

\* A scan of so many intervals, of which some have lost their restart marker
\* and some their data: `segments' is what is left of it from each on.
DataOf(i, whole) == IF i \in whole THEN <<Data(i)>> ELSE <<>>
LossyScan(intervals, marked, whole, segments) ==
  /\ intervals \in Nat \ {0}
  /\ marked \subseteq 1 .. intervals - 1
  /\ whole \subseteq marked \cup {0}
  /\ segments \in [1 .. intervals -> Seq(Items)]
  /\ segments[intervals] = <<>>
  /\ \A k \in 1 .. intervals - 1 :
       segments[k] = IF k \in marked THEN <<Marker((k - 1) % 8)>> \o (DataOf(k, whole) \o segments[k + 1])
                     ELSE segments[k + 1]

\* The next marker from interval k on; or the end.
NextMarked(intervals, marked, k, m) ==
  /\ m \in k .. intervals
  /\ m = intervals \/ m \in marked
  /\ \A j \in k .. m - 1 : j \notin marked

\* It is what the scan goes on with.
LEMMA LeadsToNext ==
  ASSUME NEW intervals, NEW marked, NEW whole, NEW segments,
         LossyScan(intervals, marked, whole, segments),
         NEW k \in 1 .. intervals, NEW m, NextMarked(intervals, marked, k, m)
  PROVE  segments[k] = segments[m]
<1> DEFINE Same == {n \in Nat : k + n <= m => segments[k + n] = segments[k]}
<1>1. k \in Nat /\ m \in Nat /\ k <= m /\ m <= intervals /\ intervals \in Nat /\ 1 <= k
  BY DEF NextMarked, LossyScan
<1>2. 0 \in Same
  BY <1>1
<1>3. ASSUME NEW n \in Nat, n \in Same PROVE n + 1 \in Same
  <2> SUFFICES ASSUME k + (n + 1) <= m PROVE segments[k + (n + 1)] = segments[k]
    OBVIOUS
  <2>1. /\ k + n \in 1 .. intervals - 1 /\ k + n \in k .. m - 1 /\ (k + n) + 1 = k + (n + 1)
        /\ k + n <= m
    BY <1>1
  <2>2. k + n \notin marked
    BY <2>1 DEF NextMarked
  <2>3. segments[k + n] = segments[(k + n) + 1]
    BY <2>1, <2>2 DEF LossyScan
  <2> QED
    BY <1>3, <2>1, <2>3
<1>4. m - k \in Nat /\ k + (m - k) = m /\ m <= m
  BY <1>1
<1>5. m - k \in Same
  <2> HIDE DEF Same
  <2> QED
    BY <1>2, <1>3, <1>4, SetInduction
<1> QED
  BY <1>4, <1>5

\* jdhuff.c and jdmarker.c: of a scan of any length, with up to two restart
\* markers in a row lost together with their data, or data lost alone, and
\* anything lost at the end, all that is left is decoded into its own place,
\* and all other intervals are filled up.
THEOREM DecodedInItsPlace ==
  ASSUME NEW intervals, NEW marked, NEW whole, NEW segments,
         LossyScan(intervals, marked, whole, segments),
         \A k \in 1 .. intervals - 1 :
           \/ {k, k + 1, k + 2} \cap marked # {}
           \/ (k .. intervals - 1) \cap marked = {}
  PROVE  DecodeScan(DataOf(0, whole) \o segments[1], intervals).image
           = [i \in 1 .. intervals |-> IF i - 1 \in whole THEN i - 1 ELSE Filled]
<1> DEFINE Following(k) == CHOOSE m : NextMarked(intervals, marked, k, m)
           Unread(m) == IF m = intervals THEN EOI ELSE (m - 1) % 8
           Rest(m) == IF m = intervals THEN <<>> ELSE DataOf(m, whole) \o segments[m + 1]
           Image(k) == [i \in 1 .. k |-> IF i - 1 \in whole THEN i - 1 ELSE Filled]
           State(k) ==
             IF k - 1 \in whole THEN At(segments[k], None, (k - 1) % 8, "some", Image(k))
             ELSE At(Rest(Following(k)), Unread(Following(k)), (k - 1) % 8, "none", Image(k))
<1>1. /\ intervals \in Nat \ {0} /\ marked \subseteq 1 .. intervals - 1 /\ whole \subseteq marked \cup {0}
      /\ segments \in [1 .. intervals -> Seq(Items)] /\ segments[intervals] = <<>>
  BY DEF LossyScan
<1>2. ASSUME NEW k \in 1 .. intervals
      PROVE  /\ NextMarked(intervals, marked, k, Following(k))
             /\ Following(k) \in {k, k + 1, k + 2, intervals}
  <2>1. \E m \in {k, k + 1, k + 2, intervals} : NextMarked(intervals, marked, k, m)
    <3>1. CASE k = intervals \/ (k .. intervals - 1) \cap marked = {}
      BY <1>1, <3>1 DEF NextMarked
    <3>2. CASE k # intervals /\ (k .. intervals - 1) \cap marked # {}
      <4>0. k \in 1 .. intervals - 1 /\ k \in Nat
        BY <1>1, <3>2
      <4>1. {k, k + 1, k + 2} \cap marked # {} /\ k \in Nat
        BY <3>2, <4>0
      <4>2. CASE k \in marked
        BY <1>1, <4>2 DEF NextMarked
      <4>3. CASE k \notin marked /\ k + 1 \in marked
        BY <1>1, <4>3 DEF NextMarked
      <4>4. CASE k \notin marked /\ k + 1 \notin marked /\ k + 2 \in marked
        <5>1. \A j \in k .. k + 1 : j \notin marked
          BY <4>1, <4>4
        <5>2. k + 2 \in k .. intervals /\ (k + 2) - 1 = k + 1
          BY <1>1, <4>1, <4>4
        <5> QED
          BY <4>4, <5>1, <5>2 DEF NextMarked
      <4> QED
        BY <4>1, <4>2, <4>3, <4>4
    <3> QED
      BY <3>1, <3>2
  <2>2. PICK m : NextMarked(intervals, marked, k, m) /\ m \in {k, k + 1, k + 2, intervals}
    BY <2>1
  <2>3. \A n : NextMarked(intervals, marked, k, n) => n = m
    BY <1>1, <2>2 DEF NextMarked
  <2> QED
    BY <2>2, <2>3
<1>3. ASSUME NEW k \in 1 .. intervals - 1, Following(k) # k
      PROVE  Following(k + 1) = Following(k) /\ k \notin marked
  <2>1. k \in 1 .. intervals /\ k + 1 \in 1 .. intervals
    BY <1>1
  <2>2. NextMarked(intervals, marked, k, Following(k)) /\ NextMarked(intervals, marked, k + 1, Following(k + 1))
    BY <1>2, <2>1
  <2> HIDE DEF Following
  <2> QED
    BY <1>1, <1>3, <2>1, <2>2 DEF NextMarked
<1>4. ASSUME NEW m \in 1 .. intervals
      PROVE  Rest(m) \in Seq(Items) /\ Unread(m) # None
  <2>1. CASE m = intervals
    BY <2>1 DEF EOI, None
  <2>2. CASE m # intervals
    <3>1. m + 1 \in 1 .. intervals /\ m \in Int /\ m - 1 \in Int
      BY <1>1, <2>2
    <3>2. DataOf(m, whole) \in Seq(Items)
      <4>1. Data(m) \in Items
        BY <3>1 DEF Data, Items
      <4> QED
        BY <4>1 DEF DataOf
    <3>3. Rest(m) \in Seq(Items)
      BY <1>1, <2>2, <3>1, <3>2
    <3>4. (m - 1) % 8 # None
      BY <3>1, NumbersWrap DEF None
    <3> QED
      BY <2>2, <3>3, <3>4
  <2> QED
    BY <2>1, <2>2
<1>5. ASSUME NEW k \in 1 .. intervals, NEW u, NEW d, NEW b, NEW image
      PROVE  /\ next_marker(At(segments[k], u, d, b, image))
                  = At(Rest(Following(k)), Unread(Following(k)), d, b, image)
             /\ segments[k] \in Seq(Items)
             /\ segments[k] # <<>> => Head(segments[k]).kind = "marker"
  <2> DEFINE m == Following(k)
  <2>1. NextMarked(intervals, marked, k, m)
    BY <1>2
  <2> HIDE DEF m
  <2>2. segments[k] = segments[m] /\ m \in 1 .. intervals /\ (m = intervals \/ m \in marked)
    <3>1. segments[k] = segments[m]
      BY <2>1, LeadsToNext
    <3> QED
      BY <1>1, <2>1, <3>1 DEF NextMarked
  <2>3. CASE m = intervals
    <3>1. segments[k] = <<>> /\ Rest(m) = <<>> /\ Unread(m) = EOI
      BY <1>1, <2>2, <2>3
    <3> HIDE DEF Rest, Unread
    <3>2. next_marker(At(segments[k], u, d, b, image)) = At(Rest(m), Unread(m), d, b, image)
      BY <3>1, NoMarkerIsNext
    <3> QED
      BY <1>1, <3>1, <3>2 DEF m
  <2>4. CASE m # intervals
    <3>1. m \in 1 .. intervals - 1 /\ m - 1 \in Int
      BY <1>1, <2>2, <2>4
    <3>2. segments[m] = <<Marker((m - 1) % 8)>> \o Rest(m)
      BY <2>2, <2>4, <3>1 DEF LossyScan
    <3>3. Rest(m) \in Seq(Items) /\ Unread(m) = (m - 1) % 8 /\ (m - 1) % 8 \in Int
      BY <1>4, <2>2, <2>4, <3>1, NumbersWrap
    <3> HIDE DEF Rest, Unread
    <3>4. next_marker(At(segments[k], u, d, b, image)) = At(Rest(m), Unread(m), d, b, image)
      BY <2>2, <3>2, <3>3, MarkerIsNext
    <3>5. Head(segments[m]) = Marker((m - 1) % 8)
      <4>1. Marker((m - 1) % 8) \in Items
        BY <3>3 DEF Marker, Items
      <4> QED
        BY <3>2, <3>3, <4>1
    <3> QED
      BY <1>1, <2>2, <3>4, <3>5 DEF Marker, m
  <2> QED
    BY <2>3, <2>4
<1>6. ASSUME NEW k \in 0 .. intervals - 1
      PROVE  Image(k + 1) = Append(Image(k), IF k \in whole THEN k ELSE Filled)
  <2>1. k \in Nat /\ k + 1 \in Nat /\ (k + 1) - 1 = k
    BY <1>1
  <2>2. Len(Image(k)) = k
    BY <2>1
  <2> QED
    BY <2>1, <2>2
<1>7. ASSUME NEW k \in 1 .. intervals - 1
      PROVE  decode_interval(process_restart(State(k))) = State(k + 1)
  <2> DEFINE m == Following(k)
             d == (k - 1) % 8
             e == k % 8
             b == IF k - 1 \in whole THEN "some" ELSE "none"
             image == Image(k)
             next == segments[k + 1]
  <2> HIDE DEF Following, Unread, Rest, Image, State
  <2>1. /\ k \in 1 .. intervals /\ k + 1 \in 1 .. intervals /\ k # intervals /\ (k + 1) - 1 = k
        /\ k \in 0 .. intervals - 1 /\ k - 1 \in Int /\ (k - 1) + 1 = k /\ k \in Int /\ k # 0 /\ k \in Nat \ {0}
    BY <1>1
  <2>2. d \in 0 .. 7 /\ (d + 1) % 8 = e
    BY <2>1, NumbersWrap
  <2>3. NextMarked(intervals, marked, k, m) /\ m \in {k, k + 1, k + 2, intervals} /\ m \in 1 .. intervals
    <3>1. NextMarked(intervals, marked, k, m) /\ m \in {k, k + 1, k + 2, intervals}
      BY <1>2, <2>1
    <3>2. m \in k .. intervals
      BY <3>1 DEF NextMarked
    <3> QED
      BY <1>1, <2>1, <3>1, <3>2
  <2>4. Rest(m) \in Seq(Items) /\ Unread(m) # None
    BY <1>4, <2>3
  <2>5. /\ next_marker(At(segments[k], None, d, "some", image)) = At(Rest(m), Unread(m), d, "some", image)
        /\ next_marker(At(next, None, e, "some", image))
             = At(Rest(Following(k + 1)), Unread(Following(k + 1)), e, "some", image)
        /\ next \in Seq(Items)
        /\ next # <<>> => Head(next).kind = "marker"
    <3> HIDE DEF d, e, image
    <3>0. k \in 1 .. intervals
      BY <2>1
    <3>1. next_marker(At(segments[k], None, d, "some", image)) = At(Rest(Following(k)), Unread(Following(k)), d, "some", image)
      BY ONLY <1>5, <3>0
    <3>2. next_marker(At(next, None, e, "some", image))
            = At(Rest(Following(k + 1)), Unread(Following(k + 1)), e, "some", image)
      BY <1>5, <2>1
    <3> QED
      BY <1>5, <2>1, <3>1, <3>2
  <2>6. /\ State(k) = IF b = "none" THEN At(Rest(m), Unread(m), d, "none", image) ELSE At(segments[k], None, d, "some", image)
        /\ State(k + 1) = IF k \in whole THEN At(next, None, e, "some", Image(k + 1))
                          ELSE At(Rest(Following(k + 1)), Unread(Following(k + 1)), e, "none", Image(k + 1))
    BY <2>1 DEF State
  <2>7. Image(k + 1) = Append(image, IF k \in whole THEN k ELSE Filled)
    BY <1>6, <2>1
  <2>8. m = k => Unread(m) = d /\ Rest(m) = DataOf(k, whole) \o next
    BY <2>1 DEF Unread, Rest
  <2>9. m # k => k \notin whole /\ Following(k + 1) = m
    BY <1>1, <1>3, <2>1
  <2>10. m # k => Action(Unread(m), d) = "leave" /\ Unread(m) # d
    BY <2>1, <2>2, <2>3, LaterIsLeft, EndIsLeft DEF Unread
  <2> HIDE DEF m, d, e, b, image, next
  <2>11. read_restart_marker(State(k)) = read_restart_marker(At(Rest(m), Unread(m), d, b, image))
    <3>1. CASE b = "none"
      BY <2>6, <3>1
    <3>2. CASE b # "none"
      <4>1. read_restart_marker(At(segments[k], None, d, "some", image))
              = read_restart_marker(At(Rest(m), Unread(m), d, "some", image))
        BY <2>4, <2>5, LooksFirst
      <4>2. b = "some"
        BY <3>2 DEF b
      <4> QED
        BY <2>6, <4>1, <4>2
    <3> QED
      BY <3>1, <3>2
  <2>12. CASE m = k
    <3>1. read_restart_marker(State(k)) = At(Rest(m), None, e, b, image)
      <4>1. read_restart_marker(At(Rest(m), d, d, b, image)) = At(Rest(m), None, (d + 1) % 8, b, image)
        BY <2>2, MarkerMatches
      <4> QED
        BY <2>2, <2>8, <2>11, <2>12, <4>1
    <3>2. process_restart(State(k)) = At(DataOf(k, whole) \o next, None, e, "some", image)
      <4>1. process_restart(State(k)) = At(Rest(m), None, e, "some", image)
        BY <3>1, RestartGoesOn
      <4> QED
        BY <2>8, <2>12, <4>1
    <3>3. CASE k \in whole
      <4>1. DataOf(k, whole) = <<Data(k)>>
        BY <3>3 DEF DataOf
      <4>2. decode_interval(process_restart(State(k))) = At(next, None, e, "some", Append(image, k))
        BY <2>1, <2>5, <3>2, <4>1, DecodesData
      <4> QED
        BY <2>6, <2>7, <3>3, <4>2
    <3>4. CASE k \notin whole
      <4>1. DataOf(k, whole) \o next = next
        BY <2>5, <3>4 DEF DataOf
      <4>2. decode_interval(process_restart(State(k)))
              = At(Rest(Following(k + 1)), Unread(Following(k + 1)), e, "none", Append(image, Filled))
        BY <2>5, <3>2, <4>1, FindsMarker
      <4> QED
        BY <2>6, <2>7, <3>4, <4>2
    <3> QED
      BY <3>3, <3>4
  <2>13. CASE m # k
    <3>1. read_restart_marker(State(k)) = At(Rest(m), Unread(m), e, b, image)
      BY <2>2, <2>4, <2>10, <2>11, <2>13, MarkerIsLeft
    <3>2. process_restart(State(k)) = At(Rest(m), Unread(m), e, b, image)
      BY <2>4, <3>1, RestartGoesOn
    <3>4. decode_interval(process_restart(State(k))) = At(Rest(m), Unread(m), e, "none", Append(image, Filled))
      BY <2>4, <3>2, FillsUp
    <3> QED
      BY <2>6, <2>7, <2>9, <2>13, <3>4
  <2> QED
    BY <2>12, <2>13
<1> DEFINE items == DataOf(0, whole) \o segments[1]
<1>8. decode_interval(StartOfScan(items)) = State(1)
  <2> DEFINE next == segments[1]
             first == 0
             nothing == <<>>
  <2> HIDE DEF Following, Unread, Rest, Image, State
  <2>1. 1 \in 1 .. intervals /\ 0 \in 0 .. intervals - 1 /\ 0 + 1 = 1 /\ 1 - 1 = 0 /\ 0 % 8 = 0
    BY <1>1
  <2>2. Image(1) = Append(nothing, IF 0 \in whole THEN first ELSE Filled)
    <3>1. Image(0) = <<>>
      BY DEF Image
    <3> QED
      BY <1>6, <2>1, <3>1
  <2>3. /\ next_marker(At(next, None, first, "some", nothing)) = At(Rest(Following(1)), Unread(Following(1)), first, "some", nothing)
        /\ next \in Seq(Items)
        /\ next # <<>> => Head(next).kind = "marker"
    BY <1>5, <2>1
  <2>4. State(1) = IF 0 \in whole THEN At(next, None, first, "some", Image(1))
                   ELSE At(Rest(Following(1)), Unread(Following(1)), first, "none", Image(1))
    BY <2>1 DEF State
  <2>5. StartOfScan(items) = At(items, None, first, "some", nothing)
    BY DEF StartOfScan, At
  <2> HIDE DEF next, items, nothing
  <2>6. CASE 0 \in whole
    <3>1. items = <<Data(first)>> \o next
      BY <2>6 DEF DataOf, next, items
    <3>0. first \in Int
      OBVIOUS
    <3> HIDE DEF first
    <3>2. decode_interval(At(items, None, first, "some", nothing)) = At(next, None, first, "some", Append(nothing, first))
      BY <2>3, <3>0, <3>1, DecodesData
    <3> QED
      BY <2>2, <2>4, <2>5, <2>6, <3>2
  <2>7. CASE 0 \notin whole
    <3>1. items = next
      BY <2>3, <2>7 DEF DataOf, next, items
    <3> HIDE DEF first
    <3>2. decode_interval(At(items, None, first, "some", nothing))
            = At(Rest(Following(1)), Unread(Following(1)), first, "none", Append(nothing, Filled))
      BY <2>3, <3>1, FindsMarker
    <3> QED
      BY <2>2, <2>4, <2>5, <2>7, <3>2
  <2> QED
    BY <2>6, <2>7
<1> HIDE DEF State, items, Following, Unread, Rest
<1> DEFINE Row(f) == f = [n \in 1 .. intervals |->
                            IF n = 1 THEN decode_interval(StartOfScan(items))
                            ELSE decode_interval(process_restart(f[n - 1]))]
           after == CHOOSE f : Row(f)
<1>9. \A n \in 1 .. intervals : n # 1 => n - 1 \in 1 .. intervals - 1 /\ n - 1 \in 1 .. intervals /\ (n - 1) + 1 = n
  BY <1>1
<1>10. \E f : Row(f)
  <2> DEFINE f == [n \in 1 .. intervals |-> State(n)]
  <2>1. \A n \in 1 .. intervals :
          f[n] = IF n = 1 THEN decode_interval(StartOfScan(items)) ELSE decode_interval(process_restart(f[n - 1]))
    BY <1>7, <1>8, <1>9
  <2>2. Row(f)
    BY <2>1
  <2> QED
    BY <2>2
<1>11. Row(after)
  BY <1>10
<1>12. \A n \in 1 .. intervals :
         after[n] = IF n = 1 THEN decode_interval(StartOfScan(items)) ELSE decode_interval(process_restart(after[n - 1]))
  BY <1>11
<1>13. DecodeScan(items, intervals) = after[intervals]
  BY DEF DecodeScan
<1> HIDE DEF after
<1> DEFINE Reached == {n \in Nat : n + 1 <= intervals => after[n + 1] = State(n + 1)}
<1>14. 0 \in Reached
  BY <1>1, <1>8, <1>12
<1>15. ASSUME NEW n \in Nat, n \in Reached PROVE n + 1 \in Reached
  <2> SUFFICES ASSUME (n + 1) + 1 <= intervals PROVE after[(n + 1) + 1] = State((n + 1) + 1)
    OBVIOUS
  <2>1. n + 1 \in 1 .. intervals - 1 /\ (n + 1) + 1 \in 1 .. intervals /\ (n + 1) + 1 # 1
        /\ ((n + 1) + 1) - 1 = n + 1 /\ n + 1 <= intervals
    BY <1>1
  <2>2. after[(n + 1) + 1] = decode_interval(process_restart(after[n + 1]))
    BY <1>12, <2>1
  <2> QED
    BY <1>7, <1>15, <2>1, <2>2
<1>16. intervals - 1 \in Reached /\ (intervals - 1) + 1 = intervals /\ intervals <= intervals
  <2> HIDE DEF Reached
  <2>1. intervals - 1 \in Nat /\ (intervals - 1) + 1 = intervals /\ intervals <= intervals
    BY <1>1
  <2> QED
    BY <1>14, <1>15, <2>1, SetInduction
<1>17. DecodeScan(items, intervals) = State(intervals)
  BY <1>13, <1>16
<1>18. State(intervals).image = Image(intervals)
  <2> HIDE DEF Image
  <2> QED
    BY DEF State, At
<1> QED
  BY <1>17, <1>18 DEF items

-----------------------------------------------------------------------------
(* Images that are turned: blocks, and the pairs of a row.                 *)

\* Blocks of coefficients; quantization tables look the same.
CoefBlocks == [Frequencies -> [Frequencies -> Int]]

\* Transposed, coefficient i, j is j, i.
LEMMA TransposedIs ==
  ASSUME NEW b \in CoefBlocks
  PROVE  /\ TransposedBlock(b) \in CoefBlocks
         /\ \A i, j \in Frequencies : TransposedBlock(b)[i][j] = b[j][i]
BY DEF TransposedBlock, CoefBlocks

\* Mirrored from left to right, odd columns change their signs.
LEMMA AcrossIs ==
  ASSUME NEW b \in CoefBlocks
  PROVE  /\ MirroredAcross(b) \in CoefBlocks
         /\ \A i, j \in Frequencies : MirroredAcross(b)[i][j] = IF j % 2 = 1 THEN -b[i][j] ELSE b[i][j]
<1>1. MirroredAcross(b)
        = [i \in Frequencies |-> [j \in Frequencies |-> IF j % 2 = 1 THEN -b[i][j] ELSE b[i][j]]]
  BY DEF MirroredAcross, NegatedWhere
<1>2. \A i, j \in Frequencies : b[i][j] \in Int
  BY DEF CoefBlocks
<1> QED
  BY <1>1, <1>2 DEF CoefBlocks

\* Mirrored from top to bottom, odd rows do.
LEMMA DownIs ==
  ASSUME NEW b \in CoefBlocks
  PROVE  /\ MirroredDown(b) \in CoefBlocks
         /\ \A i, j \in Frequencies : MirroredDown(b)[i][j] = IF i % 2 = 1 THEN -b[i][j] ELSE b[i][j]
<1>1. MirroredDown(b)
        = [i \in Frequencies |-> [j \in Frequencies |-> IF i % 2 = 1 THEN -b[i][j] ELSE b[i][j]]]
  BY DEF MirroredDown, NegatedWhere
<1>2. \A i, j \in Frequencies : b[i][j] \in Int
  BY DEF CoefBlocks
<1> QED
  BY <1>1, <1>2 DEF CoefBlocks

\* Mirrored both ways, what is odd in one of them does.
LEMMA BothIs ==
  ASSUME NEW b \in CoefBlocks
  PROVE  /\ MirroredBoth(b) \in CoefBlocks
         /\ \A i, j \in Frequencies : MirroredBoth(b)[i][j] = IF (i + j) % 2 = 1 THEN -b[i][j] ELSE b[i][j]
<1>1. MirroredBoth(b)
        = [i \in Frequencies |-> [j \in Frequencies |-> IF (i + j) % 2 = 1 THEN -b[i][j] ELSE b[i][j]]]
  BY DEF MirroredBoth, NegatedWhere
<1>2. \A i, j \in Frequencies : b[i][j] \in Int
  BY DEF CoefBlocks
<1> QED
  BY <1>1, <1>2 DEF CoefBlocks

\* Blocks are equal when their coefficients are.
LEMMA SameBlock ==
  ASSUME NEW a \in CoefBlocks, NEW b \in CoefBlocks,
         \A i, j \in Frequencies : a[i][j] = b[i][j]
  PROVE  a = b
BY DEF CoefBlocks

\* do_flip_h swaps pairs from both ends: what is left of width is mirrored, in
\* one piece, the block in the middle included.
LEMMA SwappedFromBothEnds ==
  ASSUME NEW width \in Nat, NEW n \in Nat, width <= n, NEW row \in [0 .. n - 1 -> CoefBlocks]
  PROVE  FlippedRow(row, width)
           = [x \in 0 .. n - 1 |-> IF x < width THEN MirroredAcross(row[width - 1 - x]) ELSE row[x]]
<1> DEFINE pairs == (width + 1) \div 2
           last == width - 1
           After(k) == [x \in 0 .. n - 1 |->
             IF x < width /\ (x < k \/ last - x < k) THEN MirroredAcross(row[last - x]) ELSE row[x]]
           flipped == [k \in 0 .. pairs |-> After(k)]
           Recursive(f) == f = [k \in 0 .. pairs |-> IF k = 0 THEN row ELSE SwapPair(f[k - 1], k - 1, last)]
           chosen == CHOOSE f : Recursive(f)
<1>1. pairs \in Nat /\ last \in Int /\ last < n /\ (width = 2 * pairs \/ width = 2 * pairs - 1)
  OBVIOUS
<1>2. FlippedRow(row, width) = chosen[pairs]
  BY DEF FlippedRow
<1> HIDE DEF pairs, chosen
<1>3. \A x \in 0 .. last : x \in 0 .. n - 1 /\ row[x] \in CoefBlocks /\ last - x \in 0 .. last
  BY <1>1
<1>4. After(0) = row
  BY <1>1
<1>5. ASSUME NEW k \in 1 .. pairs PROVE After(k) = SwapPair(After(k - 1), k - 1, last)
  <2> DEFINE s == After(k - 1)
  <2>1. k - 1 \in 0 .. last /\ last - (k - 1) \in 0 .. last /\ k - 1 <= last - (k - 1) /\ k \in Int
        /\ k - 1 \in 0 .. n - 1 /\ last - (k - 1) \in 0 .. n - 1
    BY <1>1
  <2>2. DOMAIN s = 0 .. n - 1
    OBVIOUS
  <2>3. s[k - 1] = row[k - 1] /\ s[last - (k - 1)] = row[last - (k - 1)]
    BY <2>1
  <2>4. \A x \in 0 .. n - 1 : x # k - 1 /\ x # last - (k - 1) => After(k)[x] = s[x]
    BY <2>1
  <2>5. After(k)[k - 1] = MirroredAcross(row[last - (k - 1)])
        /\ After(k)[last - (k - 1)] = MirroredAcross(row[k - 1])
    BY <2>1
  <2>6. DOMAIN After(k) = 0 .. n - 1 /\ After(k) = [x \in 0 .. n - 1 |-> After(k)[x]]
    OBVIOUS
  <2> DEFINE t == After(k)
             a == k - 1
             b == last - a
  <2> HIDE DEF s, t
  <2>7. SwapPair(s, a, last) = [[s EXCEPT ![a] = MirroredAcross(s[b])] EXCEPT ![b] = MirroredAcross(s[a])]
    BY DEF SwapPair
  <2>8. t = [x \in 0 .. n - 1 |-> t[x]]
    BY <2>6 DEF t
  <2>9. a \in 0 .. n - 1 /\ b \in 0 .. n - 1 /\ s[a] = row[a] /\ s[b] = row[b]
        /\ t[a] = MirroredAcross(row[b]) /\ t[b] = MirroredAcross(row[a])
        /\ \A x \in 0 .. n - 1 : x # a /\ x # b => t[x] = s[x]
    BY <2>1, <2>3, <2>4, <2>5 DEF t
  <2> HIDE DEF a, b
  <2>10. t = SwapPair(s, a, last)
    BY <2>2, <2>7, <2>8, <2>9
  <2> QED
    BY <2>10 DEF s, t, a
<1>6. Recursive(flipped)
  <2> HIDE DEF After
  <2>1. \A k \in 0 .. pairs : flipped[k] = IF k = 0 THEN row ELSE SwapPair(flipped[k - 1], k - 1, last)
    BY <1>1, <1>4, <1>5
  <2> QED
    BY <2>1
<1> HIDE DEF flipped, After
<1>7. Recursive(chosen)
  BY <1>6 DEF chosen
<1> DEFINE Same == {k \in Nat : k <= pairs => chosen[k] = After(k)}
<1>8. 0 \in Same
  BY <1>1, <1>4, <1>7
<1>9. ASSUME NEW k \in Nat, k \in Same PROVE k + 1 \in Same
  <2>1. k + 1 <= pairs => /\ k + 1 \in 1 .. pairs /\ k + 1 \in 0 .. pairs
                          /\ k + 1 # 0 /\ (k + 1) - 1 = k /\ k <= pairs
    BY <1>1
  <2> QED
    BY <1>5, <1>7, <1>9, <2>1
<1>10. pairs \in Same
  <2> HIDE DEF Same
  <2> QED
    BY <1>1, <1>8, <1>9, SetInduction
<1>11. chosen[pairs] = After(pairs)
  BY <1>1, <1>10
<1>12. \A x \in 0 .. n - 1 : x < width => x < pairs \/ last - x < pairs
  BY <1>1
<1> QED
  BY <1>2, <1>11, <1>12 DEF After

-----------------------------------------------------------------------------
(* Images that are turned: what all transformations do to a component.     *)

\* So many rows and columns of blocks.
Grids(rows, cols) == [0 .. rows - 1 -> [0 .. cols - 1 -> CoefBlocks]]

\* How many rows of blocks a component has, padded to full iMCUs, without
\* padding, and in full iMCUs; and how many columns.
SizesOf == {m \in [padded : Nat, blocks : Nat, full : Nat] : m.full <= m.blocks /\ m.blocks <= m.padded}
RowSizes(dst, c) ==
  [padded |-> jround_up(height_in_blocks(dst, c), c.v), blocks |-> height_in_blocks(dst, c),
   full |-> comp_height(dst, c)]
ColumnSizes(dst, c) ==
  [padded |-> jround_up(width_in_blocks(dst, c), c.h), blocks |-> width_in_blocks(dst, c),
   full |-> comp_width(dst, c)]

\* Where the blocks of a transformed component come from, and their signs: one
\* formula for all transformations.
MirroredIn(m, x) == IF x < m.full THEN m.full - 1 - x ELSE x
Turned(transform, rows, cols, src, y, x) ==
  LET row == IF transform \in TrimsBottom THEN MirroredIn(rows, y) ELSE y
      col == IF transform \in TrimsRight THEN MirroredIn(cols, x) ELSE x
      block == IF transform \in Transposes THEN TransposedBlock(src[col][row]) ELSE src[row][col]
  IN IF transform \in TrimsBottom /\ y < rows.full
     THEN IF transform \in TrimsRight /\ x < cols.full THEN MirroredBoth(block) ELSE MirroredDown(block)
     ELSE IF transform \in TrimsRight /\ x < cols.full THEN MirroredAcross(block) ELSE block

\* The columns that a transformation writes.
Written(transform, cols, n) ==
  IF transform \in {"JXFORM_NONE", "JXFORM_FLIP_H"} THEN n
  ELSE IF transform \in {"JXFORM_FLIP_V", "JXFORM_ROT_180"} THEN cols.blocks
  ELSE cols.padded

\* The eight routines are one formula.
LEMMA AllTurned ==
  ASSUME NEW transform \in Transforms, NEW dst, NEW c, NEW src, NEW n \in Nat,
         RowSizes(dst, c) \in SizesOf, ColumnSizes(dst, c) \in SizesOf, ColumnSizes(dst, c).full <= n,
         transform \in {"JXFORM_NONE", "JXFORM_FLIP_H"} => src \in Grids(RowSizes(dst, c).padded, n)
  PROVE  Transformed(transform, dst, c, src)
           = [y \in 0 .. RowSizes(dst, c).padded - 1 |->
               [x \in 0 .. Written(transform, ColumnSizes(dst, c), n) - 1 |->
                 Turned(transform, RowSizes(dst, c), ColumnSizes(dst, c), src, y, x)]]
<1> DEFINE rows == RowSizes(dst, c)
           cols == ColumnSizes(dst, c)
           T(y, x) == Turned(transform, rows, cols, src, y, x)
           Result(k) == [y \in 0 .. rows.padded - 1 |-> [x \in 0 .. k - 1 |-> T(y, x)]]
<1>1. /\ RowsOf(dst, c) = 0 .. rows.padded - 1 /\ ColumnsOf(dst, c) = 0 .. cols.padded - 1
      /\ width_in_blocks(dst, c) = cols.blocks
      /\ comp_height(dst, c) = rows.full /\ comp_width(dst, c) = cols.full
  BY DEF RowsOf, ColumnsOf, RowSizes, ColumnSizes
<1>2. /\ rows.padded \in Nat /\ rows.full \in Nat /\ cols.padded \in Nat /\ cols.blocks \in Nat
      /\ cols.full \in Nat /\ cols.full <= n
  BY DEF SizesOf
<1> HIDE DEF rows, cols
<1>3. \A a, b : (a \in Int /\ b \in Int) => ~(a < b) = (a >= b)
  OBVIOUS
<1>4. CASE transform = "JXFORM_NONE"
  <2>1. src = [y \in 0 .. rows.padded - 1 |-> [x \in 0 .. n - 1 |-> src[y][x]]]
    BY <1>4 DEF Grids, rows
  <2>2. \A y, x : T(y, x) = src[y][x]
    BY <1>4 DEF Turned, Transposes, TrimsRight, TrimsBottom
  <2> QED
    BY <1>4, <2>1, <2>2 DEF Transformed, Written, rows, cols
<1>5. CASE transform = "JXFORM_FLIP_H"
  <2>1. src \in Grids(rows.padded, n)
    BY <1>5 DEF rows
  <2>2. \A y, x : T(y, x) = IF x < cols.full THEN MirroredAcross(src[y][cols.full - 1 - x]) ELSE src[y][x]
    BY <1>5 DEF Turned, Transposes, TrimsRight, TrimsBottom, MirroredIn
  <2>3. \A y \in 0 .. rows.padded - 1 :
          FlippedRow(src[y], cols.full)
            = [x \in 0 .. n - 1 |-> IF x < cols.full THEN MirroredAcross(src[y][cols.full - 1 - x]) ELSE src[y][x]]
    <3> SUFFICES ASSUME NEW y \in 0 .. rows.padded - 1
                 PROVE  FlippedRow(src[y], cols.full)
                          = [x \in 0 .. n - 1 |->
                              IF x < cols.full THEN MirroredAcross(src[y][cols.full - 1 - x]) ELSE src[y][x]]
      OBVIOUS
    <3> DEFINE row == src[y]
               width == cols.full
    <3>1. row \in [0 .. n - 1 -> CoefBlocks] /\ width \in Nat /\ width <= n
      BY <1>2, <2>1 DEF Grids
    <3> HIDE DEF row, width
    <3>2. FlippedRow(row, width)
            = [x \in 0 .. n - 1 |-> IF x < width THEN MirroredAcross(row[width - 1 - x]) ELSE row[x]]
      BY <3>1, SwappedFromBothEnds
    <3> QED
      BY <3>2 DEF row, width
  <2>4. DOMAIN src = 0 .. rows.padded - 1
    BY <2>1 DEF Grids
  <2>5. do_flip_h(dst, c, src) = [y \in 0 .. rows.padded - 1 |-> FlippedRow(src[y], cols.full)]
    BY <1>1, <2>4 DEF do_flip_h
  <2> HIDE DEF T
  <2>6. \A y \in 0 .. rows.padded - 1 : FlippedRow(src[y], cols.full) = [x \in 0 .. n - 1 |-> T(y, x)]
    BY <2>2, <2>3
  <2> QED
    BY <1>5, <2>5, <2>6 DEF Transformed, Written, rows, cols, T
<1>6. CASE transform = "JXFORM_FLIP_V"
  <2>1. \A y, x : T(y, x) = IF y < rows.full THEN MirroredDown(src[rows.full - 1 - y][x]) ELSE src[y][x]
    BY <1>6 DEF Turned, Transposes, TrimsRight, TrimsBottom, MirroredIn
  <2>2. do_flip_v(dst, c, src) = Result(cols.blocks)
    BY <1>1, <2>1 DEF do_flip_v
  <2> QED
    BY <1>6, <2>2 DEF Transformed, Written, rows, cols
<1>7. CASE transform = "JXFORM_TRANSPOSE"
  <2>1. \A y, x : T(y, x) = TransposedBlock(src[x][y])
    BY <1>7 DEF Turned, Transposes, TrimsRight, TrimsBottom
  <2>2. do_transpose(dst, c, src) = Result(cols.padded)
    BY <1>1, <2>1 DEF do_transpose, Assembled
  <2> QED
    BY <1>7, <2>2 DEF Transformed, Written, rows, cols
<1>8. CASE transform = "JXFORM_ROT_90"
  <2>1. \A y, x : T(y, x) = IF x < cols.full THEN MirroredAcross(TransposedBlock(src[cols.full - 1 - x][y]))
                            ELSE TransposedBlock(src[x][y])
    BY <1>8 DEF Turned, Transposes, TrimsRight, TrimsBottom, MirroredIn
  <2>2. do_rot_90(dst, c, src) = Result(cols.padded)
    BY <1>1, <2>1 DEF do_rot_90, Assembled
  <2> QED
    BY <1>8, <2>2 DEF Transformed, Written, rows, cols
<1>9. CASE transform = "JXFORM_ROT_270"
  <2>1. \A y, x : T(y, x) = IF y < rows.full THEN MirroredDown(TransposedBlock(src[x][rows.full - 1 - y]))
                            ELSE TransposedBlock(src[x][y])
    BY <1>9 DEF Turned, Transposes, TrimsRight, TrimsBottom, MirroredIn
  <2>2. do_rot_270(dst, c, src) = Result(cols.padded)
    BY <1>1, <2>1 DEF do_rot_270, Assembled
  <2> QED
    BY <1>9, <2>2 DEF Transformed, Written, rows, cols
<1>10. CASE transform = "JXFORM_ROT_180"
  <2>1. \A y, x : T(y, x) =
          IF y < rows.full
          THEN IF x < cols.full THEN MirroredBoth(src[rows.full - 1 - y][cols.full - 1 - x])
               ELSE MirroredDown(src[rows.full - 1 - y][x])
          ELSE IF x < cols.full THEN MirroredAcross(src[y][cols.full - 1 - x]) ELSE src[y][x]
    BY <1>10 DEF Turned, Transposes, TrimsRight, TrimsBottom, MirroredIn
  <2> HIDE DEF T
  <2>2. \A y \in 0 .. rows.padded - 1, x \in 0 .. cols.blocks - 1 :
          T(y, x) = CASE y < rows.full /\ x < cols.full -> MirroredBoth(src[rows.full - 1 - y][cols.full - 1 - x])
                      [] y < rows.full /\ x >= cols.full -> MirroredDown(src[rows.full - 1 - y][x])
                      [] y >= rows.full /\ x < cols.full -> MirroredAcross(src[y][cols.full - 1 - x])
                      [] y >= rows.full /\ x >= cols.full -> src[y][x]
    BY <1>2, <2>1
  <2>3. do_rot_180(dst, c, src) = Result(cols.blocks)
    BY <1>1, <2>2 DEF do_rot_180
  <2> QED
    BY <1>10, <2>3 DEF Transformed, Written, rows, cols, T
<1>11. CASE transform = "JXFORM_TRANSVERSE"
  <2>1. \A y, x : T(y, x) =
          IF y < rows.full
          THEN IF x < cols.full THEN MirroredBoth(TransposedBlock(src[cols.full - 1 - x][rows.full - 1 - y]))
               ELSE MirroredDown(TransposedBlock(src[x][rows.full - 1 - y]))
          ELSE IF x < cols.full THEN MirroredAcross(TransposedBlock(src[cols.full - 1 - x][y]))
               ELSE TransposedBlock(src[x][y])
    BY <1>11 DEF Turned, Transposes, TrimsRight, TrimsBottom, MirroredIn
  <2> HIDE DEF T
  <2>2. \A y \in 0 .. rows.padded - 1, x \in 0 .. cols.padded - 1 :
          T(y, x) = CASE y < rows.full /\ x < cols.full ->
                           MirroredBoth(TransposedBlock(src[cols.full - 1 - x][rows.full - 1 - y]))
                      [] y < rows.full /\ x >= cols.full -> MirroredDown(TransposedBlock(src[x][rows.full - 1 - y]))
                      [] y >= rows.full /\ x < cols.full -> MirroredAcross(TransposedBlock(src[cols.full - 1 - x][y]))
                      [] y >= rows.full /\ x >= cols.full -> TransposedBlock(src[x][y])
    BY <1>2, <2>1
  <2>3. do_transverse(dst, c, src) = Result(cols.padded)
    BY <1>1, <2>2 DEF do_transverse, Assembled
  <2> QED
    BY <1>11, <2>3 DEF Transformed, Written, rows, cols, T
<1> QED
  BY <1>4, <1>5, <1>6, <1>7, <1>8, <1>9, <1>10, <1>11 DEF Transforms

-----------------------------------------------------------------------------
(* Images that are turned: twice, or in one step.                          *)

\* The block in which a block of the result has its coefficients.
SourceRow(transform, rows, cols, y, x) ==
  LET row == IF transform \in TrimsBottom THEN MirroredIn(rows, y) ELSE y
      col == IF transform \in TrimsRight THEN MirroredIn(cols, x) ELSE x
  IN IF transform \in Transposes THEN col ELSE row
SourceColumn(transform, rows, cols, y, x) ==
  LET row == IF transform \in TrimsBottom THEN MirroredIn(rows, y) ELSE y
      col == IF transform \in TrimsRight THEN MirroredIn(cols, x) ELSE x
  IN IF transform \in Transposes THEN row ELSE col

\* Coefficient i, j of a block of the result.
Coefficient(transform, rows, cols, b, y, x, i, j) ==
  LET value == IF transform \in Transposes THEN b[j][i] ELSE b[i][j]
  IN IF transform \in TrimsBottom /\ y < rows.full /\ i % 2 = 1
     THEN IF transform \in TrimsRight /\ x < cols.full /\ j % 2 = 1 THEN value ELSE -value
     ELSE IF transform \in TrimsRight /\ x < cols.full /\ j % 2 = 1 THEN -value ELSE value

\* Of one block: its coefficients are those of its source, in their places and
\* with their signs.
LEMMA CoefficientsTurned ==
  ASSUME NEW transform, NEW rows, NEW cols, NEW src, NEW y, NEW x, NEW b \in CoefBlocks,
         b = src[SourceRow(transform, rows, cols, y, x)][SourceColumn(transform, rows, cols, y, x)]
  PROVE  /\ Turned(transform, rows, cols, src, y, x) \in CoefBlocks
         /\ \A i, j \in Frequencies :
              Turned(transform, rows, cols, src, y, x)[i][j] = Coefficient(transform, rows, cols, b, y, x, i, j)
<1> DEFINE row == IF transform \in TrimsBottom THEN MirroredIn(rows, y) ELSE y
           col == IF transform \in TrimsRight THEN MirroredIn(cols, x) ELSE x
           t == IF transform \in Transposes THEN TransposedBlock(b) ELSE b
           turned == Turned(transform, rows, cols, src, y, x)
<1>1. t = IF transform \in Transposes THEN TransposedBlock(src[col][row]) ELSE src[row][col]
  BY DEF SourceRow, SourceColumn
<1>2. turned = IF transform \in TrimsBottom /\ y < rows.full
               THEN IF transform \in TrimsRight /\ x < cols.full THEN MirroredBoth(t) ELSE MirroredDown(t)
               ELSE IF transform \in TrimsRight /\ x < cols.full THEN MirroredAcross(t) ELSE t
  BY <1>1 DEF Turned
<1>3. t \in CoefBlocks /\ \A i, j \in Frequencies : t[i][j] = IF transform \in Transposes THEN b[j][i] ELSE b[i][j]
  BY TransposedIs
<1> HIDE DEF t, turned
<1>4. turned \in CoefBlocks
  BY <1>2, <1>3, AcrossIs, DownIs, BothIs
<1>5. ASSUME NEW i \in Frequencies, NEW j \in Frequencies
      PROVE  turned[i][j] = Coefficient(transform, rows, cols, b, y, x, i, j)
  <2> DEFINE v == IF transform \in Transposes THEN b[j][i] ELSE b[i][j]
  <2>1. i \in Int /\ j \in Int
    BY DEF Frequencies
  <2>2. (i + j) % 2 = 1 <=> ~(i % 2 = 1 <=> j % 2 = 1)
    BY <2>1
  <2>3. t[i][j] = v /\ v \in Int
    BY <1>3 DEF CoefBlocks
  <2>4. /\ MirroredBoth(t)[i][j] = IF (i + j) % 2 = 1 THEN -v ELSE v
        /\ MirroredDown(t)[i][j] = IF i % 2 = 1 THEN -v ELSE v
        /\ MirroredAcross(t)[i][j] = IF j % 2 = 1 THEN -v ELSE v
    BY <1>3, <2>3, AcrossIs, DownIs, BothIs
  <2>5. Coefficient(transform, rows, cols, b, y, x, i, j)
          = IF transform \in TrimsBottom /\ y < rows.full /\ i % 2 = 1
            THEN IF transform \in TrimsRight /\ x < cols.full /\ j % 2 = 1 THEN v ELSE -v
            ELSE IF transform \in TrimsRight /\ x < cols.full /\ j % 2 = 1 THEN -v ELSE v
    BY DEF Coefficient
  <2> HIDE DEF v
  <2> QED
    BY <1>2, <2>2, <2>3, <2>4, <2>5
<1> QED
  BY <1>4, <1>5 DEF turned

\* Mirrored twice, a row or a column is where it was.
LEMMA MirroredBack ==
  ASSUME NEW m \in SizesOf, NEW x \in 0 .. m.blocks - 1
  PROVE  /\ MirroredIn(m, x) \in 0 .. m.blocks - 1
         /\ MirroredIn(m, MirroredIn(m, x)) = x
         /\ MirroredIn(m, x) < m.full <=> x < m.full
BY DEF MirroredIn, SizesOf

\* One transformation does what two others do, one after the other.
InOneStep(first, second, whole) ==
  LET Across == IF second \in Transposes THEN first \in TrimsBottom ELSE first \in TrimsRight
      Down == IF second \in Transposes THEN first \in TrimsRight ELSE first \in TrimsBottom
  IN /\ whole \in Transposes <=> ~(first \in Transposes <=> second \in Transposes)
     /\ whole \in TrimsRight <=> ~(Across <=> second \in TrimsRight)
     /\ whole \in TrimsBottom <=> ~(Down <=> second \in TrimsBottom)

\* Transposing swaps the sizes of a component.
SizesTurned(transform, rows, cols, rows0, cols0) ==
  IF transform \in Transposes THEN rows = cols0 /\ cols = rows0 ELSE rows = rows0 /\ cols = cols0

\* The blocks that are not padding: they are there, and they are turned.
HasBlocks(src, rows, cols) ==
  \A v \in 0 .. rows.blocks - 1, u \in 0 .. cols.blocks - 1 : src[v][u] \in CoefBlocks
IsTurned(transform, rows, cols, src, result) ==
  \A v \in 0 .. rows.blocks - 1, u \in 0 .. cols.blocks - 1 :
    result[v][u] = Turned(transform, rows, cols, src, v, u)

\* A block that is turned twice is the block that is turned once.
LEMMA TurnedTwice ==
  ASSUME NEW first, NEW second, NEW whole, InOneStep(first, second, whole),
         NEW rows \in SizesOf, NEW cols \in SizesOf, NEW rows1, NEW cols1, NEW rows0, NEW cols0,
         SizesTurned(second, rows, cols, rows1, cols1), SizesTurned(first, rows1, cols1, rows0, cols0),
         NEW src, NEW mid, HasBlocks(src, rows0, cols0), IsTurned(first, rows1, cols1, src, mid),
         NEW y \in 0 .. rows.blocks - 1, NEW x \in 0 .. cols.blocks - 1
  PROVE  Turned(second, rows, cols, mid, y, x) = Turned(whole, rows, cols, src, y, x)
<1> DEFINE v == SourceRow(second, rows, cols, y, x)
           u == SourceColumn(second, rows, cols, y, x)
           q == SourceRow(first, rows1, cols1, v, u)
           p == SourceColumn(first, rows1, cols1, v, u)
           b == src[q][p]
           m == mid[v][u]
<1>1. /\ MirroredIn(rows, y) \in 0 .. rows.blocks - 1 /\ MirroredIn(rows, MirroredIn(rows, y)) = y
      /\ MirroredIn(rows, y) < rows.full <=> y < rows.full
      /\ MirroredIn(cols, x) \in 0 .. cols.blocks - 1 /\ MirroredIn(cols, MirroredIn(cols, x)) = x
      /\ MirroredIn(cols, x) < cols.full <=> x < cols.full
  BY MirroredBack
<1>2. v \in 0 .. rows1.blocks - 1 /\ u \in 0 .. cols1.blocks - 1 /\ rows1 \in SizesOf /\ cols1 \in SizesOf
  BY <1>1 DEF SizesTurned, SourceRow, SourceColumn
<1>3. q \in 0 .. rows0.blocks - 1 /\ p \in 0 .. cols0.blocks - 1
  <2> HIDE DEF v, u
  <2>1. MirroredIn(rows1, v) \in 0 .. rows1.blocks - 1 /\ MirroredIn(cols1, u) \in 0 .. cols1.blocks - 1
    BY <1>2, MirroredBack
  <2> QED
    BY <1>2, <2>1 DEF SizesTurned, SourceRow, SourceColumn
<1>4. q = SourceRow(whole, rows, cols, y, x) /\ p = SourceColumn(whole, rows, cols, y, x)
  <2>1. CASE second \in Transposes
    BY <1>1, <2>1 DEF SizesTurned, SourceRow, SourceColumn, InOneStep
  <2>2. CASE second \notin Transposes
    BY <1>1, <2>2 DEF SizesTurned, SourceRow, SourceColumn, InOneStep
  <2> QED
    BY <2>1, <2>2
<1>5. /\ second \in Transposes => /\ v < rows1.full <=> x < cols.full
                                  /\ u < cols1.full <=> y < rows.full
      /\ second \notin Transposes => /\ v < rows1.full <=> y < rows.full
                                     /\ u < cols1.full <=> x < cols.full
  BY <1>1 DEF SizesTurned, SourceRow, SourceColumn
<1>6. b \in CoefBlocks
  BY <1>3 DEF HasBlocks
<1>7. m = Turned(first, rows1, cols1, src, v, u)
  BY <1>2 DEF IsTurned
<1> HIDE DEF v, u, q, p, b, m
<1>8. m \in CoefBlocks
      /\ \A i, j \in Frequencies : m[i][j] = Coefficient(first, rows1, cols1, b, v, u, i, j)
  BY <1>6, <1>7, CoefficientsTurned DEF b, q, p
<1> DEFINE two == Turned(second, rows, cols, mid, y, x)
           one == Turned(whole, rows, cols, src, y, x)
<1>9. two \in CoefBlocks
      /\ \A i, j \in Frequencies : two[i][j] = Coefficient(second, rows, cols, m, y, x, i, j)
  BY <1>8, CoefficientsTurned DEF m, v, u
<1>10. one \in CoefBlocks
       /\ \A i, j \in Frequencies : one[i][j] = Coefficient(whole, rows, cols, b, y, x, i, j)
  BY <1>4, <1>6, CoefficientsTurned DEF b
<1>11. ASSUME NEW i \in Frequencies, NEW j \in Frequencies
       PROVE  Coefficient(second, rows, cols, m, y, x, i, j) = Coefficient(whole, rows, cols, b, y, x, i, j)
  <2>1. b[i][j] \in Int /\ b[j][i] \in Int
    BY <1>6 DEF CoefBlocks
  <2>2. \A n \in Int : -(-n) = n
    OBVIOUS
  <2>3. /\ m[i][j] = Coefficient(first, rows1, cols1, b, v, u, i, j)
        /\ m[j][i] = Coefficient(first, rows1, cols1, b, v, u, j, i)
    BY <1>8
  <2>4. CASE second \in Transposes
    BY <1>5, <2>1, <2>2, <2>3, <2>4 DEF Coefficient, InOneStep
  <2>5. CASE second \notin Transposes
    BY <1>5, <2>1, <2>2, <2>3, <2>5 DEF Coefficient, InOneStep
  <2> QED
    BY <2>4, <2>5
<1> HIDE DEF two, one
<1>12. two = one
  BY <1>9, <1>10, <1>11, SameBlock
<1> QED
  BY <1>12 DEF two, one

-----------------------------------------------------------------------------
(* Images that are turned: the parameters.                                 *)

\* Up to MAX_SAMP_FACTOR.
Factors == 1 .. 4

\* The largest of some sampling factors is one of them.
LEMMA LargestFactor ==
  ASSUME NEW S, S \subseteq Factors, S # {}
  PROVE  Max(S) \in Factors
<1>1. \A x \in S : x = 1 \/ x = 2 \/ x = 3 \/ x = 4
  BY DEF Factors
<1>2. PICK x \in S : IF 4 \in S THEN x = 4 ELSE IF 3 \in S THEN x = 3 ELSE IF 2 \in S THEN x = 2 ELSE x = 1
  BY <1>1
<1>3. \A y \in S : x >= y
  BY <1>1, <1>2
<1> QED
  BY <1>3 DEF Max

\* So max_h_samp_factor and max_v_samp_factor are between 1 and 4.
LEMMA MaxFactors ==
  ASSUME NEW components, DOMAIN components # {},
         \A ci \in DOMAIN components : components[ci].h \in Factors /\ components[ci].v \in Factors
  PROVE  max_h_samp_factor(components) \in Factors /\ max_v_samp_factor(components) \in Factors
BY LargestFactor DEF max_h_samp_factor, max_v_samp_factor

\* Images of any size, with any sampling factors.
AnyBlocks == UNION {Grids(rows, cols) : rows \in Nat, cols \in Nat}
Components == [h : Factors, v : Factors, quant_tbl_no : Nat, blocks : AnyBlocks]
Images ==
  [width : Nat, height : Nat, color_space : STRING, quant_tbls : Seq(CoefBlocks),
   components : Seq(Components)]

\* The destination, as transpose_critical_parameters leaves it.
TransposedComponent(c) == [h |-> c.v, v |-> c.h, quant_tbl_no |-> c.quant_tbl_no, blocks |-> c.blocks]
TransposedParameters(image) ==
  [width |-> image.height, height |-> image.width, color_space |-> image.color_space,
   quant_tbls |-> [n \in DOMAIN image.quant_tbls |-> TransposedBlock(image.quant_tbls[n])],
   components |-> [ci \in DOMAIN image.components |-> TransposedComponent(image.components[ci])]]

\* Records whose fields are replaced.
WithFactors(c, h, v) == [c EXCEPT !.h = h, !.v = v]
WithParameters(image, width, height, tables, components) ==
  [image EXCEPT !.width = width, !.height = height, !.quant_tbls = tables, !.components = components]

\* A component whose factors are replaced.
LEMMA ComponentExcept ==
  ASSUME NEW h, NEW v, NEW q, NEW b, NEW x, NEW y, NEW c,
         c = [h |-> h, v |-> v, quant_tbl_no |-> q, blocks |-> b]
  PROVE WithFactors(c, x, y) = [h |-> x, v |-> y, quant_tbl_no |-> q, blocks |-> b]
<1> DEFINE d == [c EXCEPT !.h = x]
<1>1. d = [h |-> x, v |-> v, quant_tbl_no |-> q, blocks |-> b]
  OBVIOUS
<1>3. WithFactors(c, x, y) = [d EXCEPT !.v = y]
  BY Zenon DEF WithFactors
<1> HIDE DEF d
<1>2. [d EXCEPT !.v = y] = [h |-> x, v |-> y, quant_tbl_no |-> q, blocks |-> b]
  BY <1>1
<1> QED
  BY <1>2, <1>3

\* An image whose parameters are replaced.
LEMMA ImageExcept ==
  ASSUME NEW a, NEW b, NEW c, NEW d, NEW e, NEW a1, NEW b1, NEW d1, NEW e1, NEW im,
         im = [width |-> a, height |-> b, color_space |-> c, quant_tbls |-> d, components |-> e]
  PROVE WithParameters(im, a1, b1, d1, e1) =
        [width |-> a1, height |-> b1, color_space |-> c, quant_tbls |-> d1, components |-> e1]
<1> DEFINE i1 == [im EXCEPT !.width = a1]
           i2 == [i1 EXCEPT !.height = b1]
           i3 == [i2 EXCEPT !.quant_tbls = d1]
           i4 == [i3 EXCEPT !.components = e1]
<1>1. WithParameters(im, a1, b1, d1, e1) = i4
  BY Zenon DEF WithParameters
<1>2. i1 = [width |-> a1, height |-> b, color_space |-> c, quant_tbls |-> d, components |-> e]
  OBVIOUS
<1> HIDE DEF i1
<1>3. i2 = [width |-> a1, height |-> b1, color_space |-> c, quant_tbls |-> d, components |-> e]
  BY <1>2
<1> HIDE DEF i2
<1>4. i3 = [width |-> a1, height |-> b1, color_space |-> c, quant_tbls |-> d1, components |-> e]
  BY <1>3
<1> HIDE DEF i3
<1>5. i4 = [width |-> a1, height |-> b1, color_space |-> c, quant_tbls |-> d1, components |-> e1]
  BY <1>4
<1> QED
  BY <1>1, <1>5

\* What an image consists of.
LEMMA ImageParts ==
  ASSUME NEW image \in Images
  PROVE  /\ image = [width |-> image.width, height |-> image.height, color_space |-> image.color_space,
                     quant_tbls |-> image.quant_tbls, components |-> image.components]
         /\ image.width \in Nat /\ image.height \in Nat /\ image.color_space \in STRING
         /\ image.quant_tbls \in Seq(CoefBlocks) /\ image.components \in Seq(Components)
         /\ \A ci \in DOMAIN image.components : image.components[ci] \in Components
BY DEF Images

\* What a component consists of.
LEMMA ComponentParts ==
  ASSUME NEW c \in Components
  PROVE  /\ c = [h |-> c.h, v |-> c.v, quant_tbl_no |-> c.quant_tbl_no, blocks |-> c.blocks]
         /\ c.h \in Factors /\ c.v \in Factors /\ c.quant_tbl_no \in Nat
         /\ \A b : [c EXCEPT !.blocks = b]
                     = [h |-> c.h, v |-> c.v, quant_tbl_no |-> c.quant_tbl_no, blocks |-> b]
         /\ \A h, v : WithFactors(c, h, v)
                        = [h |-> h, v |-> v, quant_tbl_no |-> c.quant_tbl_no, blocks |-> c.blocks]
<1>1. /\ c = [h |-> c.h, v |-> c.v, quant_tbl_no |-> c.quant_tbl_no, blocks |-> c.blocks]
      /\ c.h \in Factors /\ c.v \in Factors /\ c.quant_tbl_no \in Nat
  BY DEF Components
<1>2. ASSUME NEW b
      PROVE  [c EXCEPT !.blocks = b] = [h |-> c.h, v |-> c.v, quant_tbl_no |-> c.quant_tbl_no, blocks |-> b]
  BY <1>1
<1>3. ASSUME NEW h, NEW v
      PROVE WithFactors(c, h, v) = [h |-> h, v |-> v, quant_tbl_no |-> c.quant_tbl_no, blocks |-> c.blocks]
  BY <1>1, ComponentExcept
<1> QED
  BY <1>1, <1>2, <1>3

\* transpose_critical_parameters, field by field.
LEMMA TransposedIsRecord ==
  ASSUME NEW image \in Images
  PROVE  transpose_critical_parameters(image) = TransposedParameters(image)
<1> DEFINE turned == [ci \in DOMAIN image.components |->
                        [image.components[ci] EXCEPT !.h = image.components[ci].v,
                                                     !.v = image.components[ci].h]]
           tables == TransposeTables(image.quant_tbls)
<1>1. turned = [ci \in DOMAIN image.components |-> TransposedComponent(image.components[ci])]
  <2>1. ASSUME NEW c \in Components PROVE WithFactors(c, c.v, c.h) = TransposedComponent(c)
    BY ComponentParts DEF TransposedComponent
  <2>2. \A ci \in DOMAIN image.components :
          [image.components[ci] EXCEPT !.h = image.components[ci].v, !.v = image.components[ci].h]
            = TransposedComponent(image.components[ci])
    BY <2>1, ImageParts DEF WithFactors
  <2> QED
    BY <2>2
<1>2. transpose_critical_parameters(image)
        = WithParameters(image, image.height, image.width, tables, turned)
  BY Zenon DEF transpose_critical_parameters, WithParameters
<1>3. tables = [n \in DOMAIN image.quant_tbls |-> TransposedBlock(image.quant_tbls[n])]
  BY DEF TransposeTables
<1> HIDE DEF turned, tables
<1>4. image = [width |-> image.width, height |-> image.height, color_space |-> image.color_space,
               quant_tbls |-> image.quant_tbls, components |-> image.components]
  BY ImageParts
<1>5. WithParameters(image, image.height, image.width, tables, turned)
        = [width |-> image.height, height |-> image.width, color_space |-> image.color_space,
           quant_tbls |-> tables, components |-> turned]
  BY <1>4, ImageExcept
<1> QED
  BY <1>1, <1>2, <1>3, <1>5 DEF TransposedParameters

Parameters(image, transform) ==
  IF transform \in Transposes THEN TransposedParameters(image) ELSE image

\* In color, and not trimmed.
Info(transform) == [transform |-> transform, trim |-> FALSE, force_grayscale |-> FALSE]

\* The image that comes out.
Outcome(image, transform) ==
  LET dst == Parameters(image, transform)
  IN [width |-> dst.width, height |-> dst.height, color_space |-> dst.color_space,
      quant_tbls |-> dst.quant_tbls,
      components |-> [ci \in DOMAIN image.components |->
        [h |-> dst.components[ci].h, v |-> dst.components[ci].v,
         quant_tbl_no |-> dst.components[ci].quant_tbl_no,
         blocks |-> Transformed(transform, dst, dst.components[ci], image.components[ci].blocks)]]]

\* The parameters of the destination are those of an image.
LEMMA ParametersAre ==
  ASSUME NEW image \in Images, NEW transform
  PROVE  LET dst == Parameters(image, transform)
         IN /\ dst \in Images
            /\ DOMAIN dst.components = DOMAIN image.components
<1>1. CASE transform \notin Transposes
  BY <1>1 DEF Parameters
<1>2. CASE transform \in Transposes
  <2>1. Parameters(image, transform) = TransposedParameters(image)
    BY <1>2 DEF Parameters
  <2> DEFINE turned == [ci \in DOMAIN image.components |-> TransposedComponent(image.components[ci])]
  <2>2. turned \in Seq(Components)
    <3>1. \A c \in Components : TransposedComponent(c) \in Components
      BY DEF Components, TransposedComponent
    <3> QED
      BY <3>1, ImageParts
  <2>3. [n \in DOMAIN image.quant_tbls |-> TransposedBlock(image.quant_tbls[n])] \in Seq(CoefBlocks)
    BY ImageParts, TransposedIs
  <2>4. DOMAIN turned = DOMAIN image.components
    OBVIOUS
  <2> QED
    BY <2>1, <2>2, <2>3, <2>4, ImageParts DEF TransposedParameters, Images
<1> QED
  BY <1>1, <1>2

\* jtransform, field by field.
LEMMA OutcomeIs ==
  ASSUME NEW image \in Images, NEW transform
  PROVE  jtransform(image, Info(transform)) = Outcome(image, transform)
<1> DEFINE info == Info(transform)
           dst == Parameters(image, transform)
           Executed == [ci \in DOMAIN dst.components |->
             [dst.components[ci] EXCEPT !.blocks =
                Transformed(transform, dst, dst.components[ci], image.components[ci].blocks)]]
<1>1. info.transform = transform
  BY DEF Info
<1>2. ~info.force_grayscale /\ ~info.trim
  BY Zenon DEF Info
<1> HIDE DEF info
<1>3. jtransform_adjust_parameters(image, info) = dst
  <2> DEFINE turned == IF transform \in Transposes THEN transpose_critical_parameters(image) ELSE image
  <2>1. turned = dst
    BY TransposedIsRecord DEF Parameters
  <2>2. jtransform_adjust_parameters(image, info) = turned
    BY <1>1, <1>2, Zenon DEF jtransform_adjust_parameters
  <2> QED
    BY <2>1, <2>2
<1>4. jtransform(image, info) = [dst EXCEPT !.components = Executed]
  <2> HIDE DEF dst
  <2> QED
    BY <1>1, <1>2, <1>3, Zenon DEF jtransform
<1>5. dst \in Images /\ DOMAIN dst.components = DOMAIN image.components
  BY ParametersAre
<1>6. Executed = [ci \in DOMAIN image.components |->
        [h |-> dst.components[ci].h, v |-> dst.components[ci].v,
         quant_tbl_no |-> dst.components[ci].quant_tbl_no,
         blocks |-> Transformed(transform, dst, dst.components[ci], image.components[ci].blocks)]]
  <2> HIDE DEF dst
  <2>1. \A ci \in DOMAIN image.components : dst.components[ci] \in Components
    BY <1>5, ImageParts
  <2>2. \A ci \in DOMAIN image.components : \A b :
          [dst.components[ci] EXCEPT !.blocks = b]
            = [h |-> dst.components[ci].h, v |-> dst.components[ci].v,
               quant_tbl_no |-> dst.components[ci].quant_tbl_no, blocks |-> b]
    BY <2>1, ComponentParts
  <2> QED
    BY <1>5, <2>2
<1>7. dst = [width |-> dst.width, height |-> dst.height, color_space |-> dst.color_space,
             quant_tbls |-> dst.quant_tbls, components |-> dst.components]
  BY <1>5, ImageParts
<1> DEFINE result == Executed
<1>8. [dst EXCEPT !.components = result]
        = [width |-> dst.width, height |-> dst.height, color_space |-> dst.color_space,
           quant_tbls |-> dst.quant_tbls, components |-> result]
  <2> HIDE DEF dst, result
  <2> QED
    BY <1>7
<1> QED
  BY <1>4, <1>6, <1>8 DEF Outcome, info

-----------------------------------------------------------------------------
(* Images that are turned: the sizes of the components.                    *)

\* There are not more full iMCUs than blocks, and not more than with padding.
LEMMA BlocksAndPadding ==
  ASSUME NEW size \in Nat, NEW f \in Factors, NEW m \in Nat \ {0}
  PROVE  /\ (size \div m) * f \in Nat /\ ceil_div(size * f, m) \in Nat
         /\ (size \div m) * f <= ceil_div(size * f, m)
         /\ jround_up(ceil_div(size * f, m), f) \in Nat
         /\ ceil_div(size * f, m) <= jround_up(ceil_div(size * f, m), f)
<1> DEFINE k == size \div m
           a == size * f + m - 1
           n == a \div m
           j == (n + f - 1) \div f
<1>1. f \in Nat /\ 1 <= f /\ f <= 4
  BY DEF Factors
<1>2. size * f \in Nat
  BY <1>1
<1>3. k \in Nat /\ k * m <= size
  BY SMT
<1>4. a \in Nat
  BY <1>2
<1> HIDE DEF k
<1>d. \A p \in Nat, q \in Nat \ {0} : p \div q \in Nat /\ p < (p \div q) * q + q
  BY SMT
<1>e. a = size * f + m - 1
  OBVIOUS
<1> HIDE DEF a
<1>5. n \in Nat /\ a < n * m + m /\ a = size * f + m - 1
  BY <1>d, <1>4, <1>e
<1> HIDE DEF n
<1>6. size * f <= n * m
  BY <1>2, <1>5
<1>7. k * f \in Nat /\ (k * f) * m <= n * m
  <2>1. PICK e \in Nat : size = k * m + e
    <3>1. size - k * m \in Nat /\ size = k * m + (size - k * m)
      BY <1>3
    <3> QED
      BY <3>1
  <2>2. size * f = (k * f) * m + e * f /\ e * f \in Nat
    BY <1>1, <1>3, <2>1, SMT
  <2>3. (k * f) * m \in Nat /\ n * m \in Nat
    BY <1>1, <1>3, <1>5
  <2> QED
    BY <1>1, <1>3, <1>6, <2>2, <2>3
<1> DEFINE kf == k * f
<1> HIDE DEF kf
<1>8. kf \in Nat /\ kf * m <= n * m
  BY <1>7 DEF kf
<1>9. kf <= n
  <2> SUFFICES ASSUME kf > n PROVE FALSE
    BY <1>5, <1>8
  <2>1. PICK e \in Nat : kf = n + 1 + e
    <3>1. kf - n - 1 \in Nat /\ kf = n + 1 + (kf - n - 1)
      BY <1>5, <1>8
    <3> QED
      BY <3>1
  <2>2. kf * m = n * m + m + e * m /\ e * m \in Nat /\ n * m \in Nat
    BY <1>5, <2>1, SMT
  <2> QED
    BY <1>8, <2>2
<1>10. j * f \in Nat /\ n <= j * f
  <2>1. f = 1 \/ f = 2 \/ f = 3 \/ f = 4
    BY <1>1
  <2>2. CASE f = 1
    BY <1>5, <2>2
  <2>3. CASE f = 2
    BY <1>5, <2>3
  <2>4. CASE f = 3
    BY <1>5, <2>4
  <2>5. CASE f = 4
    BY <1>5, <2>5
  <2> QED
    BY <2>1, <2>2, <2>3, <2>4, <2>5
<1>11. ceil_div(size * f, m) = n /\ jround_up(n, f) = j * f
  BY DEF ceil_div, jround_up, a, n
<1> QED
  BY <1>5, <1>8, <1>9, <1>10, <1>11 DEF kf, k

\* As jpeg_read_coefficients reads them: every component has all its blocks, up
\* to full iMCUs.
AnyImages ==
  {image \in Images :
    /\ image.components # <<>>
    /\ \A ci \in DOMAIN image.components :
         LET c == image.components[ci]
         IN c.blocks \in Grids(RowSizes(image, c).padded, ColumnSizes(image, c).padded)}

\* The largest factors depend on nothing but the factors.
LEMMA SameFactors ==
  ASSUME NEW a, NEW b, DOMAIN a = DOMAIN b, \A ci \in DOMAIN a : a[ci].h = b[ci].h /\ a[ci].v = b[ci].v
  PROVE  max_h_samp_factor(a) = max_h_samp_factor(b) /\ max_v_samp_factor(a) = max_v_samp_factor(b)
<1>1. {a[ci].h : ci \in DOMAIN a} = {b[ci].h : ci \in DOMAIN b} /\ {a[ci].v : ci \in DOMAIN a} = {b[ci].v : ci \in DOMAIN b}
  OBVIOUS
<1> QED
  BY <1>1 DEF max_h_samp_factor, max_v_samp_factor

\* They are swapped when all factors are.
LEMMA SwappedFactors ==
  ASSUME NEW a, NEW b, DOMAIN a = DOMAIN b, \A ci \in DOMAIN a : a[ci].h = b[ci].v /\ a[ci].v = b[ci].h
  PROVE  max_h_samp_factor(a) = max_v_samp_factor(b) /\ max_v_samp_factor(a) = max_h_samp_factor(b)
<1>1. {a[ci].h : ci \in DOMAIN a} = {b[ci].v : ci \in DOMAIN b} /\ {a[ci].v : ci \in DOMAIN a} = {b[ci].h : ci \in DOMAIN b}
  OBVIOUS
<1> QED
  BY <1>1 DEF max_h_samp_factor, max_v_samp_factor

\* Full iMCUs, blocks and padding of a component of an image.
LEMMA SizesFit ==
  ASSUME DCTSIZE \in Nat \ {0}, NEW image \in Images, NEW ci \in DOMAIN image.components
  PROVE  RowSizes(image, image.components[ci]) \in SizesOf /\ ColumnSizes(image, image.components[ci]) \in SizesOf
<1> DEFINE c == image.components[ci]
           h == max_h_samp_factor(image.components)
           v == max_v_samp_factor(image.components)
           mh == h * DCTSIZE
           mv == v * DCTSIZE
<1>1. c.h \in Factors /\ c.v \in Factors /\ image.width \in Nat /\ image.height \in Nat
  BY ImageParts, ComponentParts
<1>2. h \in Factors /\ v \in Factors
  <2>1. \A k \in DOMAIN image.components : image.components[k].h \in Factors /\ image.components[k].v \in Factors
    BY ImageParts, ComponentParts
  <2> QED
    BY <2>1, MaxFactors
<1>3. mh \in Nat \ {0} /\ mv \in Nat \ {0}
  <2> HIDE DEF h, v
  <2>1. h \in 1 .. 4 /\ v \in 1 .. 4
    BY <1>2 DEF Factors
  <2>2. (h = 1 \/ h = 2 \/ h = 3 \/ h = 4) /\ (v = 1 \/ v = 2 \/ v = 3 \/ v = 4)
    BY <2>1
  <2>3. mh \in Nat \ {0}
    BY <2>2
  <2>4. mv \in Nat \ {0}
    BY <2>2
  <2> QED
    BY <2>3, <2>4
<1>4. RowSizes(image, c) = [padded |-> jround_up(ceil_div(image.height * c.v, mv), c.v),
                            blocks |-> ceil_div(image.height * c.v, mv),
                            full |-> (image.height \div mv) * c.v]
  BY DEF RowSizes, height_in_blocks, comp_height
<1>5. ColumnSizes(image, c) = [padded |-> jround_up(ceil_div(image.width * c.h, mh), c.h),
                               blocks |-> ceil_div(image.width * c.h, mh),
                               full |-> (image.width \div mh) * c.h]
  BY DEF ColumnSizes, width_in_blocks, comp_width
<1> HIDE DEF c, h, v, mh, mv
<1>6. RowSizes(image, c) \in SizesOf
  BY <1>1, <1>3, <1>4, BlocksAndPadding DEF SizesOf
<1>7. ColumnSizes(image, c) \in SizesOf
  BY <1>1, <1>3, <1>5, BlocksAndPadding DEF SizesOf
<1> QED
  BY <1>6, <1>7 DEF c

\* SizesOf depend on the size of the image and on the factors.
LEMMA SameSizes ==
  ASSUME NEW a, NEW b, NEW ca, NEW cb, a.width = b.width, a.height = b.height, ca.h = cb.h, ca.v = cb.v,
         max_h_samp_factor(a.components) = max_h_samp_factor(b.components),
         max_v_samp_factor(a.components) = max_v_samp_factor(b.components)
  PROVE  RowSizes(a, ca) = RowSizes(b, cb) /\ ColumnSizes(a, ca) = ColumnSizes(b, cb)
BY DEF RowSizes, ColumnSizes, height_in_blocks, width_in_blocks, comp_height, comp_width

\* Rows and columns are swapped when these are.
LEMMA SwappedSizes ==
  ASSUME NEW a, NEW b, NEW ca, NEW cb, a.width = b.height, a.height = b.width, ca.h = cb.v, ca.v = cb.h,
         max_h_samp_factor(a.components) = max_v_samp_factor(b.components),
         max_v_samp_factor(a.components) = max_h_samp_factor(b.components)
  PROVE  RowSizes(a, ca) = ColumnSizes(b, cb) /\ ColumnSizes(a, ca) = RowSizes(b, cb)
BY DEF RowSizes, ColumnSizes, height_in_blocks, width_in_blocks, comp_height, comp_width

\* A destination has the sizes of its source, swapped when it is transposed.
LEMMA ParametersTurned ==
  ASSUME NEW image \in Images, NEW transform, NEW ci \in DOMAIN image.components,
         NEW dst, dst = Parameters(image, transform)
  PROVE  LET c == image.components[ci]
             d == dst.components[ci]
         IN SizesTurned(transform, RowSizes(dst, d), ColumnSizes(dst, d), RowSizes(image, c), ColumnSizes(image, c))
<1>1. CASE transform \notin Transposes
  BY <1>1 DEF Parameters, SizesTurned
<1>2. CASE transform \in Transposes
  <2> DEFINE c == image.components[ci]
             d == dst.components[ci]
  <2>1. /\ dst.width = image.height /\ dst.height = image.width
        /\ dst.components = [k \in DOMAIN image.components |-> TransposedComponent(image.components[k])]
    BY <1>2 DEF Parameters, TransposedParameters
  <2>2. /\ DOMAIN dst.components = DOMAIN image.components
        /\ \A k \in DOMAIN image.components : /\ dst.components[k].h = image.components[k].v
                                              /\ dst.components[k].v = image.components[k].h
    BY <2>1 DEF TransposedComponent
  <2> DEFINE ds == dst.components
             cs == image.components
  <2>3. max_h_samp_factor(ds) = max_v_samp_factor(cs) /\ max_v_samp_factor(ds) = max_h_samp_factor(cs)
    <3> HIDE DEF ds, cs
    <3>1. DOMAIN ds = DOMAIN cs /\ \A k \in DOMAIN ds : ds[k].h = cs[k].v /\ ds[k].v = cs[k].h
      BY <2>2 DEF ds, cs
    <3> QED
      BY <3>1, SwappedFactors
  <2>4. d.h = c.v /\ d.v = c.h
    BY <2>2
  <2>5. RowSizes(dst, d) = ColumnSizes(image, c) /\ ColumnSizes(dst, d) = RowSizes(image, c)
    <3> HIDE DEF d, c
    <3> QED
      BY <2>1, <2>3, <2>4, SwappedSizes DEF ds, cs
  <2> QED
    BY <1>2, <2>5 DEF SizesTurned
<1> QED
  BY <1>1, <1>2

\* The image that comes out has the parameters of the destination.
LEMMA OutcomeParts ==
  ASSUME NEW image \in Images, NEW transform, NEW mid, mid = Outcome(image, transform),
         NEW dst, dst = Parameters(image, transform)
  PROVE  /\ mid.width = dst.width /\ mid.height = dst.height /\ mid.color_space = dst.color_space
         /\ mid.quant_tbls = dst.quant_tbls
         /\ DOMAIN mid.components = DOMAIN image.components
         /\ max_h_samp_factor(mid.components) = max_h_samp_factor(dst.components)
         /\ max_v_samp_factor(mid.components) = max_v_samp_factor(dst.components)
         /\ \A ci \in DOMAIN image.components :
              mid.components[ci] = [h |-> dst.components[ci].h, v |-> dst.components[ci].v,
                quant_tbl_no |-> dst.components[ci].quant_tbl_no,
                blocks |-> Transformed(transform, dst, dst.components[ci], image.components[ci].blocks)]
<1> DEFINE turned == [ci \in DOMAIN image.components |->
        [h |-> dst.components[ci].h, v |-> dst.components[ci].v,
         quant_tbl_no |-> dst.components[ci].quant_tbl_no,
         blocks |-> Transformed(transform, dst, dst.components[ci], image.components[ci].blocks)]]
<1>1. mid = [width |-> dst.width, height |-> dst.height, color_space |-> dst.color_space,
             quant_tbls |-> dst.quant_tbls, components |-> turned]
  BY DEF Outcome
<1>2. DOMAIN turned = DOMAIN image.components
  OBVIOUS
<1>3. ASSUME NEW ci \in DOMAIN image.components
      PROVE  turned[ci] = [h |-> dst.components[ci].h, v |-> dst.components[ci].v,
         quant_tbl_no |-> dst.components[ci].quant_tbl_no,
         blocks |-> Transformed(transform, dst, dst.components[ci], image.components[ci].blocks)]
  OBVIOUS
<1> HIDE DEF turned
<1>4. /\ mid.width = dst.width /\ mid.height = dst.height /\ mid.color_space = dst.color_space
      /\ mid.quant_tbls = dst.quant_tbls /\ mid.components = turned
  BY <1>1
<1>5. DOMAIN dst.components = DOMAIN image.components
  BY ParametersAre
<1>6. ASSUME NEW ci \in DOMAIN turned
      PROVE  turned[ci].h = dst.components[ci].h /\ turned[ci].v = dst.components[ci].v
  <2> DEFINE d == dst.components[ci]
             b == Transformed(transform, dst, d, image.components[ci].blocks)
             m == turned[ci]
  <2>1. m = [h |-> d.h, v |-> d.v, quant_tbl_no |-> d.quant_tbl_no, blocks |-> b]
    BY <1>2, <1>3
  <2> HIDE DEF d, b, m
  <2>2. m.h = d.h /\ m.v = d.v
    BY <2>1
  <2> QED
    BY <2>2 DEF m, d
<1>7. /\ max_h_samp_factor(mid.components) = max_h_samp_factor(dst.components)
      /\ max_v_samp_factor(mid.components) = max_v_samp_factor(dst.components)
  <2> DEFINE ds == dst.components
  <2>1. DOMAIN turned = DOMAIN ds /\ \A ci \in DOMAIN turned : turned[ci].h = ds[ci].h /\ turned[ci].v = ds[ci].v
    BY <1>2, <1>5, <1>6
  <2> HIDE DEF ds
  <2>2. max_h_samp_factor(turned) = max_h_samp_factor(ds) /\ max_v_samp_factor(turned) = max_v_samp_factor(ds)
    BY <2>1, SameFactors
  <2> QED
    BY <1>4, <2>2 DEF ds
<1> QED
  BY <1>2, <1>3, <1>4, <1>7

\* And so have its components.
LEMMA OutcomeComponent ==
  ASSUME NEW image \in Images, NEW transform, NEW mid, mid = Outcome(image, transform),
         NEW dst, dst = Parameters(image, transform), NEW ci \in DOMAIN image.components,
         NEW c, c = image.components[ci], NEW m, m = mid.components[ci], NEW d, d = dst.components[ci]
  PROVE  /\ m = [h |-> d.h, v |-> d.v, quant_tbl_no |-> d.quant_tbl_no,
                 blocks |-> Transformed(transform, dst, d, c.blocks)]
         /\ m.h = d.h /\ m.v = d.v /\ m.quant_tbl_no = d.quant_tbl_no
         /\ m.blocks = Transformed(transform, dst, d, c.blocks)
         /\ RowSizes(mid, m) = RowSizes(dst, d) /\ ColumnSizes(mid, m) = ColumnSizes(dst, d)
         /\ SizesTurned(transform, RowSizes(mid, m), ColumnSizes(mid, m), RowSizes(image, c), ColumnSizes(image, c))
<1>1. m = [h |-> d.h, v |-> d.v, quant_tbl_no |-> d.quant_tbl_no,
           blocks |-> Transformed(transform, dst, d, c.blocks)]
  BY OutcomeParts
<1>2. SizesTurned(transform, RowSizes(dst, d), ColumnSizes(dst, d), RowSizes(image, c), ColumnSizes(image, c))
  BY ParametersTurned
<1>3. /\ m.h = d.h /\ m.v = d.v /\ m.quant_tbl_no = d.quant_tbl_no
      /\ m.blocks = Transformed(transform, dst, d, c.blocks)
  BY <1>1
<1>4. RowSizes(mid, m) = RowSizes(dst, d) /\ ColumnSizes(mid, m) = ColumnSizes(dst, d)
  <2>1. /\ mid.width = dst.width /\ mid.height = dst.height
        /\ max_h_samp_factor(mid.components) = max_h_samp_factor(dst.components)
        /\ max_v_samp_factor(mid.components) = max_v_samp_factor(dst.components)
    BY OutcomeParts
  <2> QED
    BY <1>3, <2>1, SameSizes
<1> QED
  BY <1>1, <1>2, <1>3, <1>4

-----------------------------------------------------------------------------
(* Images that are turned: what comes out.                                 *)

\* A block of the result has a source, in the padding too.
LEMMA TurnedFits ==
  ASSUME NEW transform, NEW rows \in SizesOf, NEW cols \in SizesOf, NEW rows0, NEW cols0,
         SizesTurned(transform, rows, cols, rows0, cols0),
         NEW src \in Grids(rows0.padded, cols0.padded),
         NEW y \in 0 .. rows.padded - 1, NEW x \in 0 .. cols.padded - 1
  PROVE  Turned(transform, rows, cols, src, y, x) \in CoefBlocks
<1> DEFINE q == SourceRow(transform, rows, cols, y, x)
           p == SourceColumn(transform, rows, cols, y, x)
           b == src[q][p]
<1>1. /\ rows.padded \in Nat /\ rows.full \in Nat /\ rows.full <= rows.padded
      /\ cols.padded \in Nat /\ cols.full \in Nat /\ cols.full <= cols.padded
  BY DEF SizesOf
<1>2. MirroredIn(rows, y) \in 0 .. rows.padded - 1 /\ MirroredIn(cols, x) \in 0 .. cols.padded - 1
  BY <1>1 DEF MirroredIn
<1>3. q \in 0 .. rows0.padded - 1 /\ p \in 0 .. cols0.padded - 1
  BY <1>2 DEF SizesTurned, SourceRow, SourceColumn
<1> HIDE DEF q, p
<1>4. b \in CoefBlocks
  BY <1>3 DEF Grids
<1> QED
  BY <1>4, CoefficientsTurned DEF q, p

\* All blocks of the image that comes out.
LEMMA OutcomeBlocks ==
  ASSUME DCTSIZE \in Nat \ {0}, NEW image \in AnyImages, NEW transform \in Transforms,
         NEW mid, mid = Outcome(image, transform), NEW ci \in DOMAIN image.components
  PROVE  LET c == image.components[ci]
             m == mid.components[ci]
             rows == RowSizes(mid, m)
             cols == ColumnSizes(mid, m)
             n == Written(transform, cols, cols.padded)
         IN /\ rows \in SizesOf /\ cols \in SizesOf /\ n \in Nat /\ cols.blocks <= n /\ n <= cols.padded
            /\ m.blocks \in Grids(rows.padded, n)
            /\ \A y \in 0 .. rows.padded - 1, x \in 0 .. n - 1 :
                 m.blocks[y][x] = Turned(transform, rows, cols, c.blocks, y, x)
<1> DEFINE c == image.components[ci]
           src == c.blocks
           m == mid.components[ci]
           dst == Parameters(image, transform)
           d == dst.components[ci]
           rows == RowSizes(mid, m)
           cols == ColumnSizes(mid, m)
           n == Written(transform, cols, cols.padded)
<1>1. image \in Images /\ src \in Grids(RowSizes(image, c).padded, ColumnSizes(image, c).padded)
  BY DEF AnyImages
<1>2. /\ m.blocks = Transformed(transform, dst, d, src)
      /\ rows = RowSizes(dst, d) /\ cols = ColumnSizes(dst, d)
      /\ SizesTurned(transform, rows, cols, RowSizes(image, c), ColumnSizes(image, c))
  <2>1. dst = Parameters(image, transform) /\ d = dst.components[ci]
    OBVIOUS
  <2>2. c = image.components[ci] /\ m = mid.components[ci]
    OBVIOUS
  <2> HIDE DEF dst, c, d, m
  <2> QED
    BY <1>1, <2>1, <2>2, OutcomeComponent
<1>3. dst \in Images /\ DOMAIN dst.components = DOMAIN image.components
  BY <1>1, ParametersAre
<1>4. rows \in SizesOf /\ cols \in SizesOf
  <2>1. RowSizes(dst, d) \in SizesOf /\ ColumnSizes(dst, d) \in SizesOf
    <3> HIDE DEF dst
    <3> QED
      BY <1>3, SizesFit
  <2> QED
    BY <1>2, <2>1
<1> HIDE DEF c, src, m, d, dst, rows, cols
<1>5. n \in Nat /\ cols.blocks <= n /\ n <= cols.padded /\ cols.full <= cols.padded /\ cols.padded \in Nat
      /\ rows.padded \in Nat
  BY <1>4 DEF Written, SizesOf
<1>6. transform \in {"JXFORM_NONE", "JXFORM_FLIP_H"} => src \in Grids(rows.padded, cols.padded)
  BY <1>1, <1>2 DEF SizesTurned, Transposes
<1>7. m.blocks = [y \in 0 .. rows.padded - 1 |-> [x \in 0 .. n - 1 |-> Turned(transform, rows, cols, src, y, x)]]
  BY <1>2, <1>4, <1>5, <1>6, AllTurned
<1>8. \A y \in 0 .. rows.padded - 1, x \in 0 .. n - 1 :
        /\ Turned(transform, rows, cols, src, y, x) \in CoefBlocks
        /\ m.blocks[y][x] = Turned(transform, rows, cols, src, y, x)
  BY <1>1, <1>2, <1>4, <1>5, <1>7, TurnedFits
<1> HIDE DEF n
<1>9. m.blocks \in Grids(rows.padded, n)
  <2> HIDE DEF m, rows, cols
  <2>1. \A y \in 0 .. rows.padded - 1 :
          [x \in 0 .. n - 1 |-> Turned(transform, rows, cols, src, y, x)] \in [0 .. n - 1 -> CoefBlocks]
    BY <1>8
  <2> QED
    BY <1>7, <2>1 DEF Grids
<1> QED
  BY <1>4, <1>5, <1>8, <1>9 DEF n, c, src, m, rows, cols

\* So it is an image, and can be transformed again.
LEMMA OutcomeIsImage ==
  ASSUME DCTSIZE \in Nat \ {0}, NEW image \in AnyImages, NEW transform \in Transforms
  PROVE  Outcome(image, transform) \in Images
<1> DEFINE mid == Outcome(image, transform)
           dst == Parameters(image, transform)
           ms == mid.components
<1>1. image \in Images
  BY DEF AnyImages
<1>2. dst \in Images /\ DOMAIN dst.components = DOMAIN image.components
  BY <1>1, ParametersAre
<1>3. /\ dst.width \in Nat /\ dst.height \in Nat /\ dst.color_space \in STRING
      /\ dst.quant_tbls \in Seq(CoefBlocks) /\ dst.components \in Seq(Components)
      /\ \A ci \in DOMAIN image.components : dst.components[ci] \in Components
  BY <1>2, ImageParts
<1>4. mid = [width |-> dst.width, height |-> dst.height, color_space |-> dst.color_space,
             quant_tbls |-> dst.quant_tbls, components |-> ms]
      /\ ms = [ci \in DOMAIN image.components |-> ms[ci]]
  BY DEF Outcome
<1>5. ASSUME NEW ci \in DOMAIN image.components
      PROVE  ms[ci] \in Components
  <2> DEFINE m == ms[ci]
             d == dst.components[ci]
             b == Transformed(transform, dst, d, image.components[ci].blocks)
             rows == RowSizes(mid, m)
             cols == ColumnSizes(mid, m)
             n == Written(transform, cols, cols.padded)
  <2>1. m = [h |-> d.h, v |-> d.v, quant_tbl_no |-> d.quant_tbl_no, blocks |-> b] /\ m.blocks = b
    <3>1. dst = Parameters(image, transform) /\ mid = Outcome(image, transform)
      OBVIOUS
    <3> HIDE DEF dst, mid
    <3> QED
      BY <1>1, <3>1, OutcomeComponent
  <2>2. rows \in SizesOf /\ n \in Nat /\ m.blocks \in Grids(rows.padded, n)
    BY OutcomeBlocks
  <2>3. d.h \in Factors /\ d.v \in Factors /\ d.quant_tbl_no \in Nat
    BY <1>3, ComponentParts
  <2> HIDE DEF m, d, b, rows, cols, n
  <2>4. b \in AnyBlocks
    BY <2>1, <2>2 DEF AnyBlocks, SizesOf
  <2>5. m \in Components
    BY <2>1, <2>3, <2>4 DEF Components
  <2> QED
    BY <2>5 DEF m
<1>6. ms \in Seq(Components)
  <2> DEFINE k == Len(image.components)
  <2>1. DOMAIN image.components = 1 .. k /\ k \in Nat
    BY <1>1, ImageParts
  <2> HIDE DEF ms, k
  <2>2. ms = [ci \in 1 .. k |-> ms[ci]] /\ \A ci \in 1 .. k : ms[ci] \in Components
    BY <1>4, <1>5, <2>1
  <2> QED
    BY <2>1, <2>2
<1> HIDE DEF mid, dst, ms
<1>7. mid \in Images
  BY <1>3, <1>4, <1>6 DEF Images
<1> QED
  BY <1>7 DEF mid

\* Two images that show the same, in every block that is not padding.
ShowsSame(a, b) ==
  /\ a.width = b.width /\ a.height = b.height /\ a.color_space = b.color_space
  /\ a.quant_tbls = b.quant_tbls /\ DOMAIN a.components = DOMAIN b.components
  /\ \A ci \in DOMAIN a.components :
       LET c == a.components[ci]
           d == b.components[ci]
       IN /\ c.h = d.h /\ c.v = d.v /\ c.quant_tbl_no = d.quant_tbl_no
          /\ \A y \in 0 .. height_in_blocks(a, c) - 1, x \in 0 .. width_in_blocks(a, c) - 1 :
               c.blocks[y][x] = d.blocks[y][x]

\* Transposed twice, a block is as it was.
LEMMA TransposedBack ==
  ASSUME NEW b \in CoefBlocks
  PROVE  TransposedBlock(TransposedBlock(b)) = b
<1> DEFINE t == TransposedBlock(b)
           u == TransposedBlock(t)
<1>1. t \in CoefBlocks /\ \A i, j \in Frequencies : t[i][j] = b[j][i]
  BY TransposedIs
<1> HIDE DEF t
<1>2. u \in CoefBlocks /\ \A i, j \in Frequencies : u[i][j] = t[j][i]
  BY <1>1, TransposedIs
<1> HIDE DEF u
<1>3. u = b
  BY <1>1, <1>2, SameBlock
<1> QED
  BY <1>3 DEF u, t

\* AllTurned, for one block.
LEMMA TurnedAt ==
  ASSUME NEW transform \in Transforms, NEW dst, NEW c, NEW src, NEW n \in Nat, NEW rows \in SizesOf, NEW cols \in SizesOf,
         rows = RowSizes(dst, c), cols = ColumnSizes(dst, c), cols.full <= n,
         transform \in {"JXFORM_NONE", "JXFORM_FLIP_H"} => src \in Grids(rows.padded, n),
         NEW k, k = Written(transform, cols, n)
  PROVE  \A y \in 0 .. rows.padded - 1, x \in 0 .. k - 1 :
           Transformed(transform, dst, c, src)[y][x] = Turned(transform, rows, cols, src, y, x)
<1>1. Transformed(transform, dst, c, src)
        = [y \in 0 .. rows.padded - 1 |-> [x \in 0 .. k - 1 |-> Turned(transform, rows, cols, src, y, x)]]
  BY AllTurned
<1> QED
  BY <1>1

\* The blocks that are not padding, after a second transformation.
LEMMA SecondOutcomeBlocks ==
  ASSUME DCTSIZE \in Nat \ {0}, NEW image \in AnyImages, NEW first \in Transforms, NEW second \in Transforms,
         NEW mid, mid = Outcome(image, first), NEW last, last = Outcome(mid, second),
         NEW ci \in DOMAIN image.components, NEW m, m = mid.components[ci], NEW l, l = last.components[ci],
         NEW rows, rows = RowSizes(last, l), NEW cols, cols = ColumnSizes(last, l)
  PROVE  /\ rows \in SizesOf /\ cols \in SizesOf
         /\ SizesTurned(second, rows, cols, RowSizes(mid, m), ColumnSizes(mid, m))
         /\ \A y \in 0 .. rows.blocks - 1, x \in 0 .. cols.blocks - 1 :
              l.blocks[y][x] = Turned(second, rows, cols, m.blocks, y, x)
<1> DEFINE dst == Parameters(mid, second)
           d == dst.components[ci]
           rows1 == RowSizes(mid, m)
           cols1 == ColumnSizes(mid, m)
           n1 == Written(first, cols1, cols1.padded)
           n == IF second \in {"JXFORM_NONE", "JXFORM_FLIP_H"} THEN n1 ELSE cols.full
           k == Written(second, cols, n)
<1>1. image \in Images /\ mid \in Images /\ ci \in DOMAIN mid.components
  <2>1. image \in Images
    BY DEF AnyImages
  <2>2. mid \in Images
    BY OutcomeIsImage
  <2>3. ci \in DOMAIN mid.components
    BY <2>1, OutcomeParts
  <2> QED
    BY <2>1, <2>2, <2>3
<1>2. /\ rows1 \in SizesOf /\ cols1 \in SizesOf /\ n1 \in Nat /\ cols1.blocks <= n1
      /\ m.blocks \in Grids(rows1.padded, n1)
  BY OutcomeBlocks
<1>3. /\ l.blocks = Transformed(second, dst, d, m.blocks)
      /\ rows = RowSizes(dst, d) /\ cols = ColumnSizes(dst, d)
      /\ SizesTurned(second, rows, cols, rows1, cols1)
  <2>1. dst = Parameters(mid, second) /\ d = dst.components[ci]
    OBVIOUS
  <2> HIDE DEF dst, d
  <2> QED
    BY <1>1, <2>1, OutcomeComponent
<1> HIDE DEF rows1, cols1, dst, d, n1
<1>4. rows \in SizesOf /\ cols \in SizesOf
  BY <1>2, <1>3 DEF SizesTurned
<1>5. cols.full \in Nat /\ cols.blocks \in Nat /\ cols.padded \in Nat /\ rows.padded \in Nat
      /\ cols.full <= cols.blocks /\ cols.blocks <= cols.padded /\ rows.blocks <= rows.padded /\ rows.blocks \in Nat
  BY <1>4 DEF SizesOf
<1>6. second \in {"JXFORM_NONE", "JXFORM_FLIP_H"} => rows = rows1 /\ cols = cols1
  BY <1>3 DEF SizesTurned, Transposes
<1>7. n \in Nat /\ cols.full <= n
  BY <1>2, <1>5, <1>6
<1>8. second \in {"JXFORM_NONE", "JXFORM_FLIP_H"} => m.blocks \in Grids(rows.padded, n)
  BY <1>2, <1>6
<1>9. k \in Nat /\ cols.blocks <= k
  BY <1>2, <1>5, <1>6 DEF Written
<1> HIDE DEF n, k
<1>11. \A y \in 0 .. rows.blocks - 1, x \in 0 .. cols.blocks - 1 :
         l.blocks[y][x] = Turned(second, rows, cols, m.blocks, y, x)
  <2> DEFINE src == m.blocks
  <2>1. k = Written(second, cols, n)
    BY DEF k
  <2> HIDE DEF src
  <2>2. \A y \in 0 .. rows.padded - 1, x \in 0 .. k - 1 :
          Transformed(second, dst, d, src)[y][x] = Turned(second, rows, cols, src, y, x)
    BY <1>3, <1>4, <1>7, <1>8, <2>1, TurnedAt DEF src
  <2> QED
    BY <1>3, <1>5, <1>9, <2>2 DEF src
<1> QED
  BY <1>3, <1>4, <1>11 DEF rows1, cols1

\* Parameters and tables are the same, in two steps or in one.
LEMMA ParametersCompose ==
  ASSUME DCTSIZE \in Nat \ {0}, NEW image \in AnyImages,
         NEW first \in Transforms, NEW second \in Transforms, NEW whole \in Transforms,
         whole \in Transposes <=> ~(first \in Transposes <=> second \in Transposes),
         NEW mid, mid = Outcome(image, first), NEW last, last = Outcome(mid, second),
         NEW once, once = Outcome(image, whole)
  PROVE  /\ last.width = once.width /\ last.height = once.height /\ last.color_space = once.color_space
         /\ last.quant_tbls = once.quant_tbls
         /\ DOMAIN last.components = DOMAIN image.components /\ DOMAIN once.components = DOMAIN image.components
         /\ \A ci \in DOMAIN image.components :
              /\ last.components[ci].h = once.components[ci].h /\ last.components[ci].v = once.components[ci].v
              /\ last.components[ci].quant_tbl_no = once.components[ci].quant_tbl_no
<1>1. image \in Images /\ mid \in Images
  <2>1. image \in Images
    BY DEF AnyImages
  <2> QED
    BY <2>1, OutcomeIsImage
<1> DEFINE Tables(im, transform) ==
             IF transform \in Transposes THEN [t \in DOMAIN im.quant_tbls |-> TransposedBlock(im.quant_tbls[t])]
             ELSE im.quant_tbls
<1>2. ASSUME NEW im \in Images, NEW transform, NEW out, out = Outcome(im, transform)
      PROVE  /\ out.width = IF transform \in Transposes THEN im.height ELSE im.width
             /\ out.height = IF transform \in Transposes THEN im.width ELSE im.height
             /\ out.color_space = im.color_space
             /\ out.quant_tbls = Tables(im, transform)
             /\ DOMAIN out.components = DOMAIN im.components
  <2> DEFINE dst == Parameters(im, transform)
  <2>1. /\ out.width = dst.width /\ out.height = dst.height /\ out.color_space = dst.color_space
        /\ out.quant_tbls = dst.quant_tbls /\ DOMAIN out.components = DOMAIN im.components
    BY <1>2, OutcomeParts
  <2>2. transform \in Transposes => dst = TransposedParameters(im)
    BY DEF Parameters
  <2>3. transform \notin Transposes => dst = im
    BY DEF Parameters
  <2> HIDE DEF dst
  <2> QED
    BY <2>1, <2>2, <2>3 DEF TransposedParameters
<1>3. ASSUME NEW im \in Images, NEW transform, NEW out, out = Outcome(im, transform), NEW ci \in DOMAIN im.components
      PROVE  /\ out.components[ci].h
                  = IF transform \in Transposes THEN im.components[ci].v ELSE im.components[ci].h
             /\ out.components[ci].v
                  = IF transform \in Transposes THEN im.components[ci].h ELSE im.components[ci].v
             /\ out.components[ci].quant_tbl_no = im.components[ci].quant_tbl_no
  <2> DEFINE dst == Parameters(im, transform)
             d == dst.components[ci]
             c == im.components[ci]
             m == out.components[ci]
  <2>1. m.h = d.h /\ m.v = d.v /\ m.quant_tbl_no = d.quant_tbl_no
    <3>1. dst = Parameters(im, transform) /\ d = dst.components[ci] /\ c = im.components[ci] /\ m = out.components[ci]
      OBVIOUS
    <3> HIDE DEF dst, d, c, m
    <3> QED
      BY <1>3, <3>1, OutcomeComponent
  <2>2. transform \in Transposes => d = TransposedComponent(c)
    BY DEF Parameters, TransposedParameters
  <2>3. transform \notin Transposes => d = c
    BY DEF Parameters
  <2> HIDE DEF d, c, m
  <2>4. /\ m.h = IF transform \in Transposes THEN c.v ELSE c.h
        /\ m.v = IF transform \in Transposes THEN c.h ELSE c.v
        /\ m.quant_tbl_no = c.quant_tbl_no
    BY <2>1, <2>2, <2>3 DEF TransposedComponent
  <2> QED
    BY <2>4 DEF m, c
<1>4. Tables(mid, second) = Tables(image, whole)
  <2> DEFINE q == image.quant_tbls
             t == [k \in DOMAIN q |-> TransposedBlock(q[k])]
             u == [k \in DOMAIN t |-> TransposedBlock(t[k])]
  <2>1. q \in Seq(CoefBlocks)
    BY <1>1, ImageParts
  <2>2. u = q
    <3>1. \A k \in DOMAIN q : TransposedBlock(TransposedBlock(q[k])) = q[k]
      BY <2>1, TransposedBack
    <3>2. q = [k \in DOMAIN q |-> q[k]]
      BY <2>1
    <3> HIDE DEF q
    <3>3. DOMAIN t = DOMAIN q /\ \A k \in DOMAIN q : t[k] = TransposedBlock(q[k])
      OBVIOUS
    <3> QED
      BY <3>1, <3>2, <3>3
  <2>3. mid.quant_tbls = IF first \in Transposes THEN t ELSE q
    BY <1>1, <1>2
  <2> QED
    BY <2>2, <2>3
<1>5. mid.width = (IF first \in Transposes THEN image.height ELSE image.width)
      /\ mid.height = (IF first \in Transposes THEN image.width ELSE image.height)
      /\ mid.color_space = image.color_space /\ DOMAIN mid.components = DOMAIN image.components
  BY <1>1, <1>2
<1>6. /\ last.width = (IF second \in Transposes THEN mid.height ELSE mid.width)
      /\ last.height = (IF second \in Transposes THEN mid.width ELSE mid.height)
      /\ last.color_space = mid.color_space /\ last.quant_tbls = Tables(mid, second)
      /\ DOMAIN last.components = DOMAIN mid.components
  BY <1>1, <1>2
<1>7. /\ once.width = (IF whole \in Transposes THEN image.height ELSE image.width)
      /\ once.height = (IF whole \in Transposes THEN image.width ELSE image.height)
      /\ once.color_space = image.color_space /\ once.quant_tbls = Tables(image, whole)
      /\ DOMAIN once.components = DOMAIN image.components
  BY <1>1, <1>2
<1>8. ASSUME NEW ci \in DOMAIN image.components
      PROVE  /\ last.components[ci].h = once.components[ci].h /\ last.components[ci].v = once.components[ci].v
             /\ last.components[ci].quant_tbl_no = once.components[ci].quant_tbl_no
  <2> DEFINE c == image.components[ci]
             m == mid.components[ci]
             l == last.components[ci]
             o == once.components[ci]
  <2>1. /\ m.h = IF first \in Transposes THEN c.v ELSE c.h
        /\ m.v = IF first \in Transposes THEN c.h ELSE c.v
        /\ m.quant_tbl_no = c.quant_tbl_no
    BY <1>1, <1>3
  <2>2. /\ l.h = IF second \in Transposes THEN m.v ELSE m.h
        /\ l.v = IF second \in Transposes THEN m.h ELSE m.v
        /\ l.quant_tbl_no = m.quant_tbl_no
    BY <1>1, <1>3, <1>5
  <2>3. /\ o.h = IF whole \in Transposes THEN c.v ELSE c.h
        /\ o.v = IF whole \in Transposes THEN c.h ELSE c.v
        /\ o.quant_tbl_no = c.quant_tbl_no
    BY <1>1, <1>3
  <2> HIDE DEF c, m, l, o
  <2>4. l.h = o.h /\ l.v = o.v /\ l.quant_tbl_no = o.quant_tbl_no
    BY <2>1, <2>2, <2>3
  <2> QED
    BY <2>4 DEF l, o
<1> HIDE DEF Tables
<1>9. last.width = once.width /\ last.height = once.height
  BY <1>5, <1>6, <1>7
<1> QED
  BY <1>4, <1>5, <1>6, <1>7, <1>8, <1>9

\* Two transformations after one another show what the one transformation shows
\* that does both, in every block, whatever the size of the image and its
\* sampling factors: the signs, the places, the sizes, the factors and the
\* tables of the do_* routines and of jtransform_adjust_parameters agree.
THEOREM TransformsCompose ==
  ASSUME DCTSIZE \in Nat \ {0}, NEW image \in AnyImages,
         NEW first \in Transforms, NEW second \in Transforms, NEW whole \in Transforms,
         InOneStep(first, second, whole)
  PROVE  ShowsSame(jtransform(jtransform(image, Info(first)), Info(second)), jtransform(image, Info(whole)))
<1> DEFINE mid == Outcome(image, first)
           last == Outcome(mid, second)
           once == Outcome(image, whole)
<1>1. image \in Images /\ mid \in Images
  <2>1. image \in Images
    BY DEF AnyImages
  <2> QED
    BY <2>1, OutcomeIsImage
<1>2. jtransform(jtransform(image, Info(first)), Info(second)) = last /\ jtransform(image, Info(whole)) = once
  <2>1. jtransform(image, Info(first)) = mid /\ jtransform(image, Info(whole)) = once
    BY <1>1, OutcomeIs
  <2> HIDE DEF mid, once
  <2> QED
    BY <1>1, <2>1, OutcomeIs
<1>3. mid = Outcome(image, first) /\ last = Outcome(mid, second) /\ once = Outcome(image, whole)
  OBVIOUS
<1> HIDE DEF mid, last, once
<1>4. whole \in Transposes <=> ~(first \in Transposes <=> second \in Transposes)
  BY DEF InOneStep
<1>5. /\ last.width = once.width /\ last.height = once.height /\ last.color_space = once.color_space
      /\ last.quant_tbls = once.quant_tbls
      /\ DOMAIN last.components = DOMAIN image.components /\ DOMAIN once.components = DOMAIN image.components
      /\ \A ci \in DOMAIN image.components :
           /\ last.components[ci].h = once.components[ci].h /\ last.components[ci].v = once.components[ci].v
           /\ last.components[ci].quant_tbl_no = once.components[ci].quant_tbl_no
  BY <1>3, <1>4, ParametersCompose
<1>6. ASSUME NEW ci \in DOMAIN image.components
      PROVE  \A y \in 0 .. height_in_blocks(last, last.components[ci]) - 1,
                x \in 0 .. width_in_blocks(last, last.components[ci]) - 1 :
               last.components[ci].blocks[y][x] = once.components[ci].blocks[y][x]
  <2> DEFINE c == image.components[ci]
             m == mid.components[ci]
             l == last.components[ci]
             o == once.components[ci]
             rows0 == RowSizes(image, c)
             cols0 == ColumnSizes(image, c)
             rows1 == RowSizes(mid, m)
             cols1 == ColumnSizes(mid, m)
             rows == RowSizes(last, l)
             cols == ColumnSizes(last, l)
             src == c.blocks
  <2>1. /\ rows \in SizesOf /\ cols \in SizesOf
        /\ SizesTurned(second, rows, cols, rows1, cols1)
        /\ \A y \in 0 .. rows.blocks - 1, x \in 0 .. cols.blocks - 1 :
             l.blocks[y][x] = Turned(second, rows, cols, m.blocks, y, x)
    <3>1. m = mid.components[ci] /\ l = last.components[ci] /\ rows = RowSizes(last, l) /\ cols = ColumnSizes(last, l)
      OBVIOUS
    <3> HIDE DEF m, l, rows, cols
    <3> QED
      BY <1>3, <3>1, SecondOutcomeBlocks DEF rows1, cols1
  <2>2. /\ RowSizes(once, o) = rows /\ ColumnSizes(once, o) = cols
    <3>1. /\ max_h_samp_factor(once.components) = max_h_samp_factor(last.components)
          /\ max_v_samp_factor(once.components) = max_v_samp_factor(last.components)
      <4> DEFINE os == once.components
                 ls == last.components
      <4>1. DOMAIN os = DOMAIN ls /\ \A k \in DOMAIN os : os[k].h = ls[k].h /\ os[k].v = ls[k].v
        BY <1>5
      <4> HIDE DEF os, ls
      <4>2. max_h_samp_factor(os) = max_h_samp_factor(ls) /\ max_v_samp_factor(os) = max_v_samp_factor(ls)
        BY <4>1, SameFactors
      <4> QED
        BY <4>2 DEF os, ls
    <3>2. o.h = l.h /\ o.v = l.v
      BY <1>5
    <3> HIDE DEF o, l
    <3> QED
      BY <1>5, <3>1, <3>2, SameSizes
  <2>3. /\ rows1 \in SizesOf /\ cols1 \in SizesOf
        /\ \A y \in 0 .. rows1.padded - 1, x \in 0 .. Written(first, cols1, cols1.padded) - 1 :
             m.blocks[y][x] = Turned(first, rows1, cols1, src, y, x)
        /\ cols1.blocks <= Written(first, cols1, cols1.padded) /\ Written(first, cols1, cols1.padded) \in Nat
    BY <1>3, OutcomeBlocks
  <2>4. SizesTurned(first, rows1, cols1, rows0, cols0)
    <3>1. c = image.components[ci] /\ m = mid.components[ci]
      OBVIOUS
    <3> HIDE DEF c, m
    <3>2. Parameters(image, first) = Parameters(image, first)
      OBVIOUS
    <3> QED
      BY <1>1, <1>3, <3>1, OutcomeComponent
  <2>5. /\ \A y \in 0 .. rows.padded - 1, x \in 0 .. Written(whole, cols, cols.padded) - 1 :
             o.blocks[y][x] = Turned(whole, rows, cols, src, y, x)
        /\ cols.blocks <= Written(whole, cols, cols.padded) /\ Written(whole, cols, cols.padded) \in Nat
    <3> HIDE DEF rows, cols
    <3> QED
      BY <1>3, <2>2, OutcomeBlocks
  <2>6. src \in Grids(rows0.padded, cols0.padded) /\ rows0 \in SizesOf /\ cols0 \in SizesOf
    <3>1. src \in Grids(rows0.padded, cols0.padded)
      BY DEF AnyImages
    <3>2. rows0 \in SizesOf /\ cols0 \in SizesOf
      BY <1>1, SizesFit
    <3> QED
      BY <3>1, <3>2
  <2>7. height_in_blocks(last, l) = rows.blocks /\ width_in_blocks(last, l) = cols.blocks
    BY DEF RowSizes, ColumnSizes
  <2> HIDE DEF c, m, l, o, rows0, cols0, rows1, cols1, rows, cols, src
  <2>8. HasBlocks(src, rows0, cols0)
    <3>1. rows0.blocks <= rows0.padded /\ cols0.blocks <= cols0.padded
          /\ rows0.blocks \in Nat /\ rows0.padded \in Nat /\ cols0.blocks \in Nat /\ cols0.padded \in Nat
      BY <2>6 DEF SizesOf
    <3> QED
      BY <2>6, <3>1 DEF Grids, HasBlocks
  <2> DEFINE mb == m.blocks
  <2>9. IsTurned(first, rows1, cols1, src, mb)
    <3>1. rows1.blocks <= rows1.padded /\ rows1.blocks \in Nat /\ rows1.padded \in Nat /\ cols1.blocks \in Nat
      BY <2>3 DEF SizesOf
    <3> QED
      BY <2>3, <3>1 DEF IsTurned
  <2> HIDE DEF mb
  <2>10. ASSUME NEW y \in 0 .. rows.blocks - 1, NEW x \in 0 .. cols.blocks - 1
         PROVE  l.blocks[y][x] = o.blocks[y][x]
    <3>1. Turned(second, rows, cols, mb, y, x) = Turned(whole, rows, cols, src, y, x)
      BY <2>1, <2>4, <2>8, <2>9, TurnedTwice
    <3>2. rows.blocks <= rows.padded /\ rows.blocks \in Nat /\ rows.padded \in Nat /\ cols.blocks \in Nat
      BY <2>1 DEF SizesOf
    <3>3. o.blocks[y][x] = Turned(whole, rows, cols, src, y, x)
      BY <2>5, <3>2
    <3> QED
      BY <2>1, <3>1, <3>3 DEF mb
  <2> QED
    BY <2>7, <2>10 DEF l, o
<1> QED
  BY <1>2, <1>5, <1>6 DEF ShowsSame

\* The transformation that undoes another.
BackFrom(transform) ==
  CASE transform = "JXFORM_ROT_90" -> "JXFORM_ROT_270"
    [] transform = "JXFORM_ROT_270" -> "JXFORM_ROT_90"
    [] OTHER -> transform

\* jpegtran turns an image and turns it back: every coefficient is again what it
\* was, in its place, partial iMCUs at the edges included ("exact reversibility",
\* usage.doc).  Not with -trim, which drops those.
THEOREM TransformsAreLossless ==
  ASSUME DCTSIZE \in Nat \ {0}, NEW image \in AnyImages, NEW transform \in Transforms
  PROVE  ShowsSame(jtransform(jtransform(image, Info(transform)), Info(BackFrom(transform))), image)
<1> DEFINE none == "JXFORM_NONE"
           back == BackFrom(transform)
<1>1. none \in Transforms /\ back \in Transforms /\ InOneStep(transform, back, none)
  BY DEF BackFrom, Transforms, InOneStep, Transposes, TrimsRight, TrimsBottom
<1>2. jtransform(image, Info(none)) = Outcome(image, none)
  <2>1. image \in Images
    BY DEF AnyImages
  <2> QED
    BY <2>1, OutcomeIs
<1>3. ShowsSame(jtransform(jtransform(image, Info(transform)), Info(back)), Outcome(image, none))
  <2> HIDE DEF none, back
  <2> QED
    BY <1>1, <1>2, TransformsCompose
<1>4. Outcome(image, none) = image
  <2>1. image \in Images
    BY DEF AnyImages
  <2>2. \A ci \in DOMAIN image.components :
          /\ Transformed(none, image, image.components[ci], image.components[ci].blocks) = image.components[ci].blocks
          /\ image.components[ci]
               = [h |-> image.components[ci].h, v |-> image.components[ci].v,
                  quant_tbl_no |-> image.components[ci].quant_tbl_no, blocks |-> image.components[ci].blocks]
    BY <2>1, ImageParts, ComponentParts DEF Transformed
  <2>3. image.components = [ci \in DOMAIN image.components |-> image.components[ci]]
    BY <2>1, ImageParts
  <2>4. Parameters(image, none) = image
    BY DEF Parameters, Transposes
  <2> DEFINE turned == [ci \in DOMAIN image.components |->
        [h |-> image.components[ci].h, v |-> image.components[ci].v,
         quant_tbl_no |-> image.components[ci].quant_tbl_no,
         blocks |-> Transformed(none, image, image.components[ci], image.components[ci].blocks)]]
  <2> HIDE DEF none
  <2>5. turned = image.components
    BY <2>2, <2>3
  <2>6. Outcome(image, none) = [width |-> image.width, height |-> image.height, color_space |-> image.color_space,
                                quant_tbls |-> image.quant_tbls, components |-> turned]
    BY <2>4 DEF Outcome
  <2> HIDE DEF turned
  <2> QED
    BY <2>1, <2>5, <2>6, ImageParts
<1> QED
  BY <1>3, <1>4

\* The routines that merge two steps do what the steps do, as their comments say.
THEOREM MergedSteps ==
  ASSUME DCTSIZE \in Nat \ {0}, NEW image \in AnyImages
  PROVE  LET Same(first, second, whole) ==
               ShowsSame(jtransform(jtransform(image, Info(first)), Info(second)), jtransform(image, Info(whole)))
         IN /\ Same("JXFORM_TRANSPOSE", "JXFORM_FLIP_H", "JXFORM_ROT_90")
            /\ Same("JXFORM_FLIP_H", "JXFORM_TRANSPOSE", "JXFORM_ROT_270")
            /\ Same("JXFORM_FLIP_V", "JXFORM_FLIP_H", "JXFORM_ROT_180")
            /\ Same("JXFORM_ROT_180", "JXFORM_TRANSPOSE", "JXFORM_TRANSVERSE")
            /\ Same("JXFORM_ROT_270", "JXFORM_FLIP_H", "JXFORM_TRANSVERSE")
<1>1. /\ InOneStep("JXFORM_TRANSPOSE", "JXFORM_FLIP_H", "JXFORM_ROT_90")
      /\ InOneStep("JXFORM_FLIP_H", "JXFORM_TRANSPOSE", "JXFORM_ROT_270")
      /\ InOneStep("JXFORM_FLIP_V", "JXFORM_FLIP_H", "JXFORM_ROT_180")
      /\ InOneStep("JXFORM_ROT_180", "JXFORM_TRANSPOSE", "JXFORM_TRANSVERSE")
      /\ InOneStep("JXFORM_ROT_270", "JXFORM_FLIP_H", "JXFORM_TRANSVERSE")
  BY DEF InOneStep, Transposes, TrimsRight, TrimsBottom
<1>2. {"JXFORM_TRANSPOSE", "JXFORM_FLIP_H", "JXFORM_FLIP_V", "JXFORM_ROT_90", "JXFORM_ROT_180", "JXFORM_ROT_270",
       "JXFORM_TRANSVERSE"} \subseteq Transforms
  BY DEF Transforms
<1> QED
  BY <1>1, <1>2, TransformsCompose

-----------------------------------------------------------------------------
(* Steps, one after the other, and folds over them.                        *)

\* Steps from state to state, one for each place, and what they make of the
\* first state, one after the other.
Steps(S, n) == [1 .. n -> [S -> S]]
RunOf(f, S, n, base, step) ==
  /\ f \in [0 .. n -> S]
  /\ f[0] = base
  /\ \A i \in 1 .. n : f[i] = step[i][f[i - 1]]

\* There is such a run of steps.
LEMMA Recursion ==
  ASSUME NEW S, NEW n \in Nat, NEW base \in S, NEW step \in Steps(S, n)
  PROVE  \E f : RunOf(f, S, n, base, step)
<1> USE DEF Steps, RunOf
<1> DEFINE Until(f, m) == f \in [0 .. m -> S] /\ f[0] = base /\ \A i \in 1 .. m : f[i] = step[i][f[i - 1]]
           Exists == {m \in Nat : m <= n => \E f : Until(f, m)}
<1>1. 0 \in Exists
  <2> DEFINE f == [i \in 0 .. 0 |-> base]
  <2>1. Until(f, 0)
    OBVIOUS
  <2> QED
    BY <2>1
<1>2. ASSUME NEW m \in Nat, m \in Exists PROVE m + 1 \in Exists
  <2> SUFFICES ASSUME m + 1 <= n PROVE \E f : Until(f, m + 1)
    OBVIOUS
  <2>1. PICK f : Until(f, m)
    BY <1>2
  <2> DEFINE g == [i \in 0 .. m + 1 |-> IF i = m + 1 THEN step[m + 1][f[m]] ELSE f[i]]
  <2>2. m + 1 \in 1 .. n /\ m \in 0 .. m /\ f[m] \in S
    BY <2>1
  <2>3. step[m + 1] \in [S -> S] /\ step[m + 1][f[m]] \in S
    BY <2>2
  <2>4. g \in [0 .. m + 1 -> S] /\ g[0] = base
    BY <2>1, <2>3
  <2>5. ASSUME NEW i \in 1 .. m + 1 PROVE g[i] = step[i][g[i - 1]]
    <3>1. CASE i = m + 1
      <4>1. i - 1 = m /\ m \in 0 .. m + 1 /\ m # m + 1 /\ i \in 0 .. m + 1
        BY <3>1
      <4> QED
        BY <3>1, <4>1
    <3>2. CASE i # m + 1
      <4>1. i \in 1 .. m /\ i - 1 \in 0 .. m /\ i - 1 # m + 1 /\ i \in 0 .. m + 1 /\ i - 1 \in 0 .. m + 1
        BY <3>2
      <4> QED
        BY <2>1, <3>2, <4>1
    <3> QED
      BY <3>1, <3>2
  <2>6. Until(g, m + 1)
    BY <2>4, <2>5
  <2> QED
    BY <2>6
<1>3. n \in Exists
  <2> HIDE DEF Exists
  <2> QED
    BY <1>1, <1>2, SetInduction
<1> QED
  BY <1>3

\* Powers of two, as far as codes and values need them.
Exponents == 0 .. 17

Power(k) == 2 ^ k

\* Powers of two, one after another.
LEMMA PowerStep ==
  /\ Power(0) = 1 /\ Power(1) = 2 /\ Power(8) = 256
  /\ \A k \in 0 .. 16 : Power(k + 1) = 2 * Power(k)
  /\ \A k \in Exponents : Power(k) \in Nat /\ Power(k) > k
<1>1. /\ Power(0) = 1 /\ Power(1) = 2 /\ Power(2) = 4 /\ Power(3) = 8 /\ Power(4) = 16 /\ Power(5) = 32
      /\ Power(6) = 64 /\ Power(7) = 128 /\ Power(8) = 256 /\ Power(9) = 512 /\ Power(10) = 1024
      /\ Power(11) = 2048 /\ Power(12) = 4096 /\ Power(13) = 8192 /\ Power(14) = 16384
      /\ Power(15) = 32768 /\ Power(16) = 65536 /\ Power(17) = 131072
  BY DEF Power
<1>2. \A k \in Exponents : k \in {0, 1, 2, 3, 4, 5, 6, 7, 8, 9, 10, 11, 12, 13, 14, 15, 16, 17}
  BY DEF Exponents
<1>3. \A k \in Exponents : Power(k) \in Nat /\ Power(k) > k
  BY <1>1, <1>2
<1>4. ASSUME NEW k \in 0 .. 16 PROVE Power(k + 1) = 2 * Power(k)
  <2>1. k \in {0, 1, 2, 3, 4, 5, 6, 7, 8, 9, 10, 11, 12, 13, 14, 15, 16}
    OBVIOUS
  <2> QED
    BY <1>1, <2>1
<1> QED
  BY <1>1, <1>3, <1>4

\* The power of a sum.
LEMMA PowerSum ==
  ASSUME NEW a \in Nat, NEW b \in Nat, a + b \in Exponents
  PROVE  Power(a + b) = Power(a) * Power(b)
<1> DEFINE Sums == {n \in Nat : a + n <= 17 => Power(a + n) = Power(a) * Power(n)}
<1>1. a \in Exponents /\ Power(a) \in Nat /\ a + b <= 17 /\ a + 0 = a
  BY PowerStep DEF Exponents
<1>2. 0 \in Sums
  <2>1. Power(a) * 1 = Power(a)
    BY <1>1
  <2> QED
    BY <1>1, <2>1, PowerStep
<1>3. ASSUME NEW n \in Nat, n \in Sums PROVE n + 1 \in Sums
  <2> SUFFICES ASSUME a + (n + 1) <= 17 PROVE Power(a + (n + 1)) = Power(a) * Power(n + 1)
    OBVIOUS
  <2>1. a + n \in 0 .. 16 /\ n \in 0 .. 16 /\ a + (n + 1) = (a + n) + 1 /\ n \in Exponents
    BY DEF Exponents
  <2>2. Power(a + (n + 1)) = 2 * Power(a + n) /\ Power(n + 1) = 2 * Power(n) /\ Power(n) \in Nat
    BY <2>1, PowerStep
  <2>3. Power(a + n) = Power(a) * Power(n)
    BY <1>3, <2>1
  <2>4. \A x, y \in Nat : 2 * (x * y) = x * (2 * y)
    OBVIOUS
  <2> QED
    BY <1>1, <2>2, <2>3, <2>4
<1>4. b \in Sums
  <2> HIDE DEF Sums
  <2> QED
    BY <1>2, <1>3, SetInduction
<1> QED
  BY <1>1, <1>4

\* Division: its result is the only one.
LEMMA Division ==
  ASSUME NEW x \in Int, NEW d \in Nat, d > 0
  PROVE  /\ x \div d \in Int /\ x % d \in 0 .. d - 1
         /\ x = d * (x \div d) + (x % d)
<1>1. x \div d \in Int
  OBVIOUS
<1>2. x % d \in 0 .. d - 1
  OBVIOUS
<1>3. x = d * (x \div d) + (x % d)
  OBVIOUS
<1> QED
  BY <1>1, <1>2, <1>3

\* What is left of a multiple and a remainder.
LEMMA DivisionIs ==
  ASSUME NEW d \in Nat, d > 0, NEW q \in Int, NEW r \in 0 .. d - 1
  PROVE  (d * q + r) \div d = q /\ (d * q + r) % d = r
<1>1. \A e \in Int : e >= 1 => d * e >= d
  OBVIOUS
<1>2. \A e \in Int : e <= -1 => d * e <= -d
  OBVIOUS
<1> DEFINE x == d * q + r
           p == x \div d
           s == x % d
<1>3. d * q \in Int /\ x \in Int
  OBVIOUS
<1>4. p \in Int /\ s \in 0 .. d - 1 /\ x = d * p + s
  BY <1>3, Division
<1>5. x = d * q + r
  OBVIOUS
<1> HIDE DEF x, p, s
<1>6. d * (p - q) = d * p - d * q /\ d * p \in Int
  BY <1>4
<1>7. d * (p - q) = r - s
  BY <1>3, <1>4, <1>5, <1>6
<1>8. ~(p - q >= 1) /\ ~(p - q <= -1)
  BY <1>1, <1>2, <1>4, <1>7
<1>9. p = q
  BY <1>4, <1>8
<1>10. r = s
  BY <1>3, <1>4, <1>5, <1>9
<1> QED
  BY <1>9, <1>10 DEF p, s, x

\* Half of a quotient.
LEMMA HalfOf ==
  ASSUME NEW x \in Int, NEW d \in Nat, d > 0
  PROVE  (x \div d) \div 2 = x \div (2 * d)
<1> DEFINE q == x \div d
           p == q \div 2
           r == x % d
           b == q % 2
<1>1. q \in Int /\ r \in 0 .. d - 1 /\ x = d * q + r
  BY Division
<1> HIDE DEF q, r
<1>2. p \in Int /\ b \in 0 .. 1 /\ q = 2 * p + b
  BY <1>1
<1> HIDE DEF p, b
<1>3. d * (2 * p + b) = (2 * d) * p + d * b
  BY <1>2
<1>4. d * b + r \in 0 .. 2 * d - 1
  <2>1. CASE b = 0
    BY <1>1, <2>1
  <2>2. CASE b = 1
    BY <1>1, <2>2
  <2> QED
    BY <1>2, <2>1, <2>2
<1>5. x = (2 * d) * p + (d * b + r)
  <2>1. (2 * d) * p \in Int /\ d * b \in Int
    BY <1>2
  <2> QED
    BY <1>1, <1>2, <1>3, <2>1
<1> DEFINE t == d * b + r
           e == 2 * d
<1>6. t \in 0 .. e - 1 /\ e \in Nat /\ e > 0 /\ x = e * p + t
  BY <1>4, <1>5
<1> HIDE DEF t, e
<1>7. x \div e = p
  BY <1>2, <1>6, DivisionIs
<1> QED
  BY <1>7 DEF e, p, q

-----------------------------------------------------------------------------
(* Folds.                                                                  *)

\* The largest of a prefix.
LEMMA LargestIs ==
  /\ \A n \in Nat \ {0} : Max(1 .. n) = n /\ (1 .. n) \ {n} = 1 .. n - 1
  /\ \A x \in Int : Max({x}) = x
<1>1. ASSUME NEW n \in Nat \ {0} PROVE Max(1 .. n) = n
  <2>1. n \in 1 .. n /\ \A y \in 1 .. n : n >= y
    OBVIOUS
  <2>2. \A x \in 1 .. n : (\A y \in 1 .. n : x >= y) => x = n
    BY <2>1
  <2> QED
    BY <2>1, <2>2 DEF Max
<1>2. ASSUME NEW x \in Int PROVE Max({x}) = x
  BY DEF Max
<1> QED
  BY <1>1, <1>2

\* A finite set of numbers that is not empty has a largest one.
LEMMA LargestIn ==
  ASSUME NEW n \in Nat, NEW s \in SUBSET (1 .. n), s # {}
  PROVE  Max(s) \in s /\ \A y \in s : y <= Max(s)
<1> DEFINE Bounded == {m \in Nat : \A t \in SUBSET (1 .. m) : t # {} => \E x \in t : \A y \in t : x >= y}
<1>1. 0 \in Bounded
  <2>1. 1 .. 0 = {}
    OBVIOUS
  <2> QED
    BY <2>1
<1>2. ASSUME NEW m \in Nat, m \in Bounded PROVE m + 1 \in Bounded
  <2> SUFFICES ASSUME NEW t \in SUBSET (1 .. m + 1), t # {} PROVE \E x \in t : \A y \in t : x >= y
    OBVIOUS
  <2>1. CASE m + 1 \in t
    <3>1. \A y \in t : m + 1 >= y
      OBVIOUS
    <3> QED
      BY <2>1, <3>1
  <2>2. CASE m + 1 \notin t
    <3>1. t \in SUBSET (1 .. m)
      BY <2>2
    <3> QED
      BY <1>2, <3>1
  <2> QED
    BY <2>1, <2>2
<1>3. n \in Bounded
  <2> HIDE DEF Bounded
  <2> QED
    BY <1>1, <1>2, SetInduction
<1>4. \E x \in s : \A y \in s : x >= y
  BY <1>3
<1>5. Max(s) \in s /\ \A y \in s : Max(s) >= y
  BY <1>4 DEF Max
<1> QED
  BY <1>5

\* A fold of the community modules, over the sets of places.
FoldOf(g, S, n, base, step) ==
  /\ g \in [SUBSET (1 .. n) -> S]
  /\ \A s \in SUBSET (1 .. n) : g[s] = IF s = {} THEN base ELSE step[Max(s)][g[s \ {Max(s)}]]

\* It takes the steps, one after the other.
Follows(g, S, n, base, step) ==
  /\ g[{}] = base
  /\ \A i \in 1 .. n : g[1 .. i - 1] \in S => g[1 .. i] = step[i][g[1 .. i - 1]]

\* It made of all places what the steps made.
Agree(g, f, n) == g[1 .. n] = f[n]

\* The function that a fold is the value of.
LEMMA FoldExists ==
  ASSUME NEW S, NEW n \in Nat, NEW base \in S, NEW step \in Steps(S, n)
  PROVE  \E g : FoldOf(g, S, n, base, step)
<1> USE DEF Steps, FoldOf
<1> DEFINE Until(g, m) == FoldOf(g, S, m, base, step)
           Exists == {m \in Nat : m <= n => \E g : Until(g, m)}
<1>1. 0 \in Exists
  <2> DEFINE g == [s \in SUBSET (1 .. 0) |-> base]
  <2>1. \A s \in SUBSET (1 .. 0) : s = {}
    OBVIOUS
  <2>2. Until(g, 0)
    BY <2>1
  <2> QED
    BY <2>2
<1>2. ASSUME NEW m \in Nat, m + 1 <= n, NEW g, Until(g, m) PROVE \E h : Until(h, m + 1)
  <2> DEFINE h == [s \in SUBSET (1 .. m + 1) |->
                     IF m + 1 \in s THEN step[m + 1][g[s \ {m + 1}]] ELSE g[s]]
  <2>2. ASSUME NEW s \in SUBSET (1 .. m + 1), m + 1 \in s
        PROVE  Max(s) = m + 1 /\ s # {} /\ s \ {m + 1} \in SUBSET (1 .. m) /\ s \ {m + 1} \in SUBSET (1 .. m + 1)
    <3>1. Max(s) \in s /\ \A y \in s : y <= Max(s)
      <4>1. m + 1 \in Nat /\ s # {}
        BY <2>2
      <4> QED
        BY <4>1, LargestIn
    <3>2. Max(s) \in 1 .. m + 1 /\ m + 1 <= Max(s)
      BY <2>2, <3>1
    <3>3. Max(s) = m + 1
      BY <3>2
    <3>4. \A i \in 1 .. m + 1 : i # m + 1 => i \in 1 .. m
      OBVIOUS
    <3> QED
      BY <2>2, <3>3, <3>4
  <2>3. ASSUME NEW s \in SUBSET (1 .. m + 1), m + 1 \notin s
        PROVE  /\ s \in SUBSET (1 .. m)
               /\ s # {} => Max(s) \in s /\ Max(s) # m + 1 /\ s \ {Max(s)} \in SUBSET (1 .. m)
                            /\ s \ {Max(s)} \in SUBSET (1 .. m + 1)
    <3>1. s \in SUBSET (1 .. m)
      BY <2>3
    <3>2. s # {} => Max(s) \in s
      BY <3>1, LargestIn
    <3> QED
      BY <2>3, <3>1, <3>2
  <2>4. m + 1 \in 1 .. n /\ step[m + 1] \in [S -> S]
    BY <1>2
  <2>5. ASSUME NEW s \in SUBSET (1 .. m + 1)
        PROVE  h[s] \in S /\ h[s] = IF s = {} THEN base ELSE step[Max(s)][h[s \ {Max(s)}]]
    <3>1. CASE m + 1 \in s
      <4>1. g[s \ {m + 1}] \in S
        BY <1>2, <2>2, <3>1
      <4>2. h[s \ {m + 1}] = g[s \ {m + 1}]
        <5>1. m + 1 \notin s \ {m + 1}
          OBVIOUS
        <5> QED
          BY <2>2, <3>1, <5>1
      <4>3. h[s] = step[m + 1][g[s \ {m + 1}]]
        BY <3>1
      <4> QED
        BY <2>2, <2>4, <3>1, <4>1, <4>2, <4>3
    <3>2. CASE m + 1 \notin s
      <4>1. h[s] = g[s] /\ g[s] \in S
        BY <1>2, <2>3, <3>2
      <4>2. s # {} => h[s \ {Max(s)}] = g[s \ {Max(s)}]
        BY <2>3, <3>2
      <4>3. g[s] = IF s = {} THEN base ELSE step[Max(s)][g[s \ {Max(s)}]]
        BY <1>2, <2>3, <3>2
      <4> QED
        BY <4>1, <4>2, <4>3
    <3> QED
      BY <3>1, <3>2
  <2>6. h \in [SUBSET (1 .. m + 1) -> S]
    <3>1. \A s \in SUBSET (1 .. m + 1) : h[s] \in S
      BY <2>5
    <3> QED
      BY <3>1
  <2>7. Until(h, m + 1)
    <3>1. \A s \in SUBSET (1 .. m + 1) : h[s] = IF s = {} THEN base ELSE step[Max(s)][h[s \ {Max(s)}]]
      BY <2>5
    <3> HIDE DEF h
    <3> QED
      BY <2>6, <3>1
  <2> QED
    BY <2>7
<1> HIDE DEF Until, FoldOf
<1>3. \A m \in Nat : m \in Exists => m + 1 \in Exists
  BY <1>2
<1>4. n \in Exists
  <2> HIDE DEF Exists
  <2> QED
    BY <1>1, <1>3, SetInduction
<1>5. \E g : Until(g, n)
  BY <1>4
<1> QED
  BY <1>5 DEF Until

\* What it makes of all places is what one step after the other makes.
LEMMA FoldIs ==
  ASSUME NEW S, NEW n \in Nat, NEW base \in S, NEW step \in Steps(S, n),
         NEW f, NEW g, RunOf(f, S, n, base, step), Follows(g, S, n, base, step)
  PROVE  Agree(g, f, n)
<1> USE DEF Steps, RunOf, Follows, Agree
<1> DEFINE Same == {i \in Nat : i <= n => g[1 .. i] = f[i]}
<1>1. 0 \in Same
  <2>1. 1 .. 0 = {}
    OBVIOUS
  <2> QED
    BY <2>1
<1>2. ASSUME NEW i \in Nat, i \in Same PROVE i + 1 \in Same
  <2> SUFFICES ASSUME i + 1 <= n PROVE g[1 .. i + 1] = f[i + 1]
    OBVIOUS
  <2>1. i + 1 \in 1 .. n /\ (i + 1) - 1 = i /\ i \in 0 .. n /\ f[i] \in S /\ g[1 .. i] = f[i]
    BY <1>2
  <2> QED
    BY <2>1
<1>3. n \in Same
  <2> HIDE DEF Same
  <2> QED
    BY <1>1, <1>2, SetInduction
<1> QED
  BY <1>3

-----------------------------------------------------------------------------
(* Numbers and their bits.                                                 *)

Bits == {0, 1}

\* The numbers that a string's beginnings are.
Reads(f, s, n) ==
  /\ f \in [0 .. n -> Nat]
  /\ f[0] = 0
  /\ \A i \in 1 .. n : f[i] = 2 * f[i - 1] + s[i]

\* The number that bits stand for, bit by bit.
LEMMA NumberIs ==
  ASSUME NEW n \in Nat, NEW s \in [1 .. n -> Bits], NEW f, Reads(f, s, n)
  PROVE  Number(s) = f[n]
<1> DEFINE step == [i \in 1 .. n |-> [x \in Nat |-> 2 * x + s[i]]]
           Fold(g) == g = [t \in SUBSET (DOMAIN s) |->
                             IF t = {} THEN 0
                             ELSE 2 * g[t \ {Max(t)}] + s[Max(t)]]
           folded == CHOOSE g : Fold(g)
<1>1. DOMAIN s = 1 .. n /\ (\A i \in 1 .. n : s[i] \in Nat)
  BY DEF Bits
<1>2. Number(s) = folded[DOMAIN s]
  BY DEF Number, FoldLeft, MapThenFoldSet
<1> HIDE DEF folded
<1>3. \A i \in 1 .. n : \A x \in Nat : step[i][x] = 2 * x + s[i] /\ step[i][x] \in Nat
  BY <1>1
<1>4. step \in Steps(Nat, n) /\ 0 \in Nat
  BY <1>1 DEF Steps
<1> HIDE DEF step
<1>5. \E g : Fold(g)
  <2>1. PICK g : FoldOf(g, Nat, n, 0, step)
    BY <1>4, FoldExists, Zenon
  <2>2. ASSUME NEW t \in SUBSET (1 .. n), t # {}
        PROVE  step[Max(t)][g[t \ {Max(t)}]] = 2 * g[t \ {Max(t)}] + s[Max(t)]
    <3>1. Max(t) \in 1 .. n
      BY <2>2, LargestIn
    <3>2. g[t \ {Max(t)}] \in Nat
      BY <2>1 DEF FoldOf
    <3> QED
      BY <1>3, <3>1, <3>2
  <2>3. \A t \in SUBSET (1 .. n) : g[t] = IF t = {} THEN 0 ELSE 2 * g[t \ {Max(t)}] + s[Max(t)]
    BY <2>1, <2>2 DEF FoldOf
  <2>4. Fold(g)
    <3>1. g = [t \in SUBSET (1 .. n) |-> g[t]]
      BY <2>1 DEF FoldOf
    <3> QED
      BY <1>1, <2>3, <3>1
  <2> QED
    BY <2>4
<1>6. Fold(folded)
  BY <1>5 DEF folded
<1>7. \A t \in SUBSET (1 .. n) : folded[t] = IF t = {} THEN 0 ELSE 2 * folded[t \ {Max(t)}] + s[Max(t)]
  BY <1>1, <1>6
<1> HIDE DEF Fold
<1>8. folded[{}] = 0
  BY <1>7
<1>9. ASSUME NEW i \in 1 .. n, folded[1 .. i - 1] \in Nat
      PROVE  folded[1 .. i] = step[i][folded[1 .. i - 1]]
  <2>1. 1 .. i \in SUBSET (1 .. n) /\ i \in 1 .. i /\ i \in Nat /\ i # 0
    OBVIOUS
  <2>2. Max(1 .. i) = i /\ (1 .. i) \ {i} = 1 .. i - 1
    BY <2>1, LargestIs
  <2>3. folded[1 .. i] = 2 * folded[1 .. i - 1] + s[i]
    BY <1>7, <2>1, <2>2
  <2> QED
    BY <1>3, <1>9, <2>3
<1>10. folded[1 .. n] = f[n]
  <2>1. ASSUME NEW i \in 1 .. n PROVE f[i] = step[i][f[i - 1]]
    <3>1. i - 1 \in 0 .. n
      OBVIOUS
    <3>2. f[i - 1] \in Nat /\ f[i] = 2 * f[i - 1] + s[i]
      BY <3>1 DEF Reads
    <3> QED
      BY <1>3, <3>2
  <2>2. RunOf(f, Nat, n, 0, step)
    BY <2>1 DEF RunOf, Reads
  <2>3. Follows(folded, Nat, n, 0, step)
    BY <1>8, <1>9 DEF Follows
  <2> QED
    <3>1. Agree(folded, f, n)
      BY <1>4, <2>2, <2>3, FoldIs, Zenon
    <3> QED
      BY <3>1 DEF Agree
<1> QED
  BY <1>1, <1>2, <1>10

\* The low bit and the others.
LEMMA LowBitOf ==
  ASSUME NEW x \in Int, NEW d \in Nat, d > 0
  PROVE  /\ x % (2 * d) = 2 * ((x \div 2) % d) + (x % 2)
         /\ x \div (2 * d) = (x \div 2) \div d
<1> DEFINE p == x \div 2
           b == x % 2
           q == p \div d
           r == p % d
<1>1. p \in Int /\ b \in 0 .. 1 /\ x = 2 * p + b
  OBVIOUS
<1> HIDE DEF p, b
<1>2. q \in Int /\ r \in 0 .. d - 1 /\ p = d * q + r
  BY <1>1, Division
<1> HIDE DEF q, r
<1>3. 2 * (d * q + r) = (2 * d) * q + 2 * r
  BY <1>2
<1> DEFINE t == 2 * r + b
           e == 2 * d
<1>4. t \in 0 .. e - 1 /\ e \in Nat /\ e > 0
  BY <1>1, <1>2
<1>5. x = e * q + t
  <2>1. (2 * d) * q \in Int
    BY <1>2
  <2> QED
    BY <1>1, <1>2, <1>3, <2>1
<1> HIDE DEF t, e
<1>6. x \div e = q /\ x % e = t
  BY <1>2, <1>4, <1>5, DivisionIs
<1> QED
  BY <1>6 DEF e, t, r, q, p, b

\* The powers of two, as far as codes and values go.
LEMMA PowersAre ==
  ASSUME NEW n \in Exponents
  PROVE  /\ 2 ^ n = Power(n) /\ Power(n) \in Nat /\ Power(n) > 0 /\ Power(n) > n
         /\ n # 0 => n - 1 \in Exponents /\ Power(n) = 2 * Power(n - 1)
<1>1. 2 ^ n = Power(n)
  BY DEF Power
<1>2. n # 0 => n - 1 \in 0 .. 16 /\ (n - 1) + 1 = n /\ n - 1 \in Exponents
  BY DEF Exponents
<1>3. n # 0 => Power(n) = 2 * Power(n - 1)
  BY <1>2, PowerStep
<1> QED
  BY <1>1, <1>2, <1>3, PowerStep DEF Exponents

\* Bits of a number, from the highest on, are its quotient.
LEMMA NumberOfBits ==
  ASSUME NEW n \in 0 .. 16, NEW w \in Int, NEW m \in 0 .. n, NEW s \in [1 .. m -> Bits],
         \A k \in 1 .. m : s[k] = (w \div Power(n - k)) % 2
  PROVE  Number(s) = (w \div Power(n - m)) % Power(m)
<1> DEFINE f == [k \in 0 .. m |-> (w \div Power(n - k)) % Power(k)]
<1>1. ASSUME NEW k \in 0 .. m
      PROVE  /\ k \in Exponents /\ n - k \in Exponents
             /\ w \div Power(n - k) \in Int
             /\ (w \div Power(n - k)) % Power(k) \in Nat
  <2>1. k \in Exponents /\ n - k \in Exponents
    BY DEF Exponents
  <2>2. Power(k) \in Nat /\ Power(k) > 0 /\ Power(n - k) \in Nat /\ Power(n - k) > 0
    BY <2>1, PowersAre
  <2>3. w \div Power(n - k) \in Int
    BY <2>2, Division
  <2>4. (w \div Power(n - k)) % Power(k) \in 0 .. Power(k) - 1
    BY <2>2, <2>3, Division
  <2> QED
    BY <2>1, <2>2, <2>3, <2>4
<1>2. f \in [0 .. m -> Nat]
  BY <1>1
<1>3. f[0] = 0
  <2>1. f[0] = (w \div Power(n - 0)) % Power(0) /\ 0 \in 0 .. m
    OBVIOUS
  <2>2. \A x \in Int : x % 1 = 0
    OBVIOUS
  <2> QED
    BY <1>1, <2>1, <2>2, PowerStep
<1>4. ASSUME NEW i \in 1 .. m PROVE f[i] = 2 * f[i - 1] + s[i]
  <2>1. i \in 0 .. m /\ i - 1 \in 0 .. m /\ n - (i - 1) # 0 /\ (n - (i - 1)) - 1 = n - i /\ i # 0
    OBVIOUS
  <2> DEFINE x == w \div Power(n - i)
             d == Power(i - 1)
  <2>2. x \in Int /\ d \in Nat /\ d > 0 /\ Power(n - i) \in Nat /\ Power(n - i) > 0
    BY <1>1, <2>1, PowersAre
  <2>3. Power(n - (i - 1)) = 2 * Power(n - i) /\ Power(i) = 2 * d
    BY <1>1, <2>1, PowersAre
  <2>4. w \div Power(n - (i - 1)) = x \div 2
    <3>1. (w \div Power(n - i)) \div 2 = w \div (2 * Power(n - i))
      BY <2>2, HalfOf
    <3> QED
      BY <2>3, <3>1
  <2>5. f[i] = x % Power(i) /\ f[i - 1] = (w \div Power(n - (i - 1))) % d
    BY <2>1
  <2>6. s[i] = x % 2
    OBVIOUS
  <2> HIDE DEF x, d, f
  <2>7. x % (2 * d) = 2 * ((x \div 2) % d) + (x % 2)
    BY <2>2, LowBitOf
  <2> QED
    BY <2>3, <2>4, <2>5, <2>6, <2>7
<1>5. Number(s) = f[m]
  <2> HIDE DEF f
  <2> QED
    <3>1. Reads(f, s, m) /\ m \in Nat
      BY <1>2, <1>3, <1>4 DEF Reads
    <3> QED
      BY <3>1, NumberIs
<1> QED
  BY <1>5

\* The low bits of a number stand for what is left of it.
LEMMA NumberOfLowBits ==
  ASSUME NEW n \in 0 .. 16, NEW w \in Int
  PROVE  /\ LowBits(w, n) \in [1 .. n -> Bits]
         /\ \A m \in 0 .. n : Number([k \in 1 .. m |-> LowBits(w, n)[k]]) = (w \div Power(n - m)) % Power(m)
<1>1. ASSUME NEW k \in 1 .. n
      PROVE  LowBits(w, n)[k] = (w \div Power(n - k)) % 2 /\ LowBits(w, n)[k] \in Bits
  <2>1. LowBits(w, n)[k] = (w \div Power(n - k)) % 2
    BY DEF LowBits, Power
  <2>2. n - k \in Exponents
    BY DEF Exponents
  <2>3. w \div Power(n - k) \in Int
    BY <2>2, PowersAre, Division
  <2>4. \A x \in Int : x % 2 \in Bits
    BY DEF Bits
  <2> QED
    BY <2>1, <2>3, <2>4
<1>2. LowBits(w, n) \in [1 .. n -> Bits]
  <2>1. LowBits(w, n) = [k \in 1 .. n |-> LowBits(w, n)[k]]
    BY DEF LowBits
  <2> QED
    BY <1>1, <2>1
<1>3. ASSUME NEW m \in 0 .. n
      PROVE  Number([k \in 1 .. m |-> LowBits(w, n)[k]]) = (w \div Power(n - m)) % Power(m)
  <2> DEFINE s == [k \in 1 .. m |-> LowBits(w, n)[k]]
  <2>1. \A k \in 1 .. m : k \in 1 .. n
    OBVIOUS
  <2>2. s \in [1 .. m -> Bits] /\ \A k \in 1 .. m : s[k] = (w \div Power(n - k)) % 2
    BY <1>1, <2>1
  <2> HIDE DEF s
  <2>3. Number(s) = (w \div Power(n - m)) % Power(m)
    BY <2>2, NumberOfBits
  <2> QED
    BY <2>3 DEF s
<1> QED
  BY <1>2, <1>3

\* What the first bits of a string say, and what all of them say.
LEMMA NumberOfPrefix ==
  ASSUME NEW n \in 0 .. 16, NEW s \in [1 .. n -> Bits]
  PROVE  /\ Number(s) \in 0 .. Power(n) - 1
         /\ \A m \in 0 .. n : Number([k \in 1 .. m |-> s[k]]) = Number(s) \div Power(n - m)
<1> DEFINE step == [i \in 1 .. n |-> [x \in Nat |-> 2 * x + s[i]]]
<1>1. \A i \in 1 .. n : s[i] \in Nat /\ s[i] <= 1
  BY DEF Bits
<1>2. step \in Steps(Nat, n) /\ 0 \in Nat /\ n \in Nat
  BY <1>1 DEF Steps
<1>3. \A i \in 1 .. n, x \in Nat : step[i][x] = 2 * x + s[i]
  OBVIOUS
<1> HIDE DEF step
<1>4. PICK f : RunOf(f, Nat, n, 0, step)
  BY <1>2, Recursion, Zenon
<1>5. f \in [0 .. n -> Nat] /\ f[0] = 0
  BY <1>4 DEF RunOf
<1>6. ASSUME NEW i \in 1 .. n PROVE f[i] = 2 * f[i - 1] + s[i]
  <2>1. i - 1 \in 0 .. n
    OBVIOUS
  <2> QED
    BY <1>3, <1>4, <1>5, <2>1 DEF RunOf
<1>7. ASSUME NEW m \in 0 .. n PROVE Number([k \in 1 .. m |-> s[k]]) = f[m]
  <2> DEFINE g == [k \in 0 .. m |-> f[k]]
             t == [k \in 1 .. m |-> s[k]]
  <2>1. \A k \in 0 .. m : k \in 0 .. n
    OBVIOUS
  <2>2. \A k \in 1 .. m : k \in 1 .. n /\ k \in 0 .. m /\ k - 1 \in 0 .. m
    OBVIOUS
  <2>3. t \in [1 .. m -> Bits] /\ g \in [0 .. m -> Nat] /\ g[0] = 0 /\ g[m] = f[m]
    BY <1>5, <2>1, <2>2
  <2>4. \A k \in 1 .. m : g[k] = 2 * g[k - 1] + t[k]
    BY <1>6, <2>2
  <2> HIDE DEF g, t
  <2>5. Number(t) = g[m]
    <3>1. Reads(g, t, m) /\ m \in Nat /\ t \in [1 .. m -> Bits]
      BY <2>3, <2>4 DEF Reads
    <3> QED
      BY <3>1, NumberIs
  <2> QED
    BY <2>3, <2>5 DEF t
<1>8. Number(s) = f[n]
  <2>1. s = [k \in 1 .. n |-> s[k]] /\ n \in 0 .. n
    OBVIOUS
  <2> QED
    BY <1>7, <2>1
<1>9. f[n] < Power(n)
  <2> DEFINE Small == {i \in Nat : i <= n => f[i] < Power(i)}
  <2>1. 0 \in Small
    BY <1>5, PowerStep
  <2>2. ASSUME NEW i \in Nat, i \in Small PROVE i + 1 \in Small
    <3> SUFFICES ASSUME i + 1 <= n PROVE f[i + 1] < Power(i + 1)
      OBVIOUS
    <3>1. i + 1 \in 1 .. n /\ i \in 0 .. n /\ i \in 0 .. 16 /\ i \in Exponents /\ (i + 1) - 1 = i
      BY DEF Exponents
    <3>2. f[i + 1] = 2 * f[i] + s[i + 1] /\ f[i] < Power(i) /\ f[i] \in Nat /\ Power(i) \in Nat
      BY <1>5, <1>6, <2>2, <3>1, PowersAre
    <3>3. Power(i + 1) = 2 * Power(i)
      BY <3>1, PowerStep
    <3>4. s[i + 1] \in Nat /\ s[i + 1] <= 1
      BY <1>1, <3>1
    <3> QED
      BY <3>2, <3>3, <3>4
  <2>3. n \in Small
    <3> HIDE DEF Small
    <3> QED
      BY <2>1, <2>2, SetInduction
  <2> QED
    BY <2>3
<1>10. ASSUME NEW m \in 0 .. n PROVE f[n] \div Power(n - m) = f[m]
  <2> DEFINE Halved == {c \in Nat : m + c <= n => f[m + c] \div Power(c) = f[m]}
  <2>1. 0 \in Halved
    <3>1. m + 0 = m /\ f[m] \in Nat
      BY <1>5
    <3>3. Power(0) = 1
      BY PowerStep
    <3>2. \A x \in Nat : x \div 1 = x
      OBVIOUS
    <3> QED
      BY <3>1, <3>2, <3>3
  <2>2. ASSUME NEW c \in Nat, c \in Halved PROVE c + 1 \in Halved
    <3> SUFFICES ASSUME m + (c + 1) <= n PROVE f[m + (c + 1)] \div Power(c + 1) = f[m]
      OBVIOUS
    <3>1. /\ m + (c + 1) \in 1 .. n /\ (m + (c + 1)) - 1 = m + c /\ m + c \in 0 .. n
          /\ m + (c + 1) \in 0 .. n /\ c \in 0 .. 16 /\ c \in Exponents
      BY DEF Exponents
    <3>2. /\ f[m + (c + 1)] = 2 * f[m + c] + s[m + (c + 1)] /\ s[m + (c + 1)] \in Nat
          /\ s[m + (c + 1)] <= 1 /\ f[m + c] \in Nat /\ f[m + (c + 1)] \in Nat
      BY <1>1, <1>5, <1>6, <3>1
    <3>3. f[m + (c + 1)] \div 2 = f[m + c]
      BY <3>2
    <3>4. Power(c + 1) = 2 * Power(c) /\ Power(c) \in Nat /\ Power(c) > 0
      BY <3>1, PowerStep, PowersAre
    <3>5. f[m + (c + 1)] \div (2 * Power(c)) = (f[m + (c + 1)] \div 2) \div Power(c)
      BY <3>2, <3>4, LowBitOf
    <3>6. f[m + c] \div Power(c) = f[m]
      BY <2>2, <3>1
    <3> QED
      BY <3>3, <3>4, <3>5, <3>6
  <2>3. n - m \in Halved
    <3>1. n - m \in Nat
      OBVIOUS
    <3> HIDE DEF Halved
    <3> QED
      BY <2>1, <2>2, <3>1, SetInduction
  <2>4. m + (n - m) = n
    OBVIOUS
  <2> QED
    BY <2>3, <2>4
<1>11. f[n] \in Nat /\ Power(n) \in Nat
  <2>1. n \in Exponents /\ n \in 0 .. n
    BY DEF Exponents
  <2> QED
    BY <1>5, <2>1, PowersAre
<1> QED
  BY <1>7, <1>8, <1>9, <1>10, <1>11

\* What is read of a string.
LEMMA BitsAreRead ==
  ASSUME NEW n \in Nat, NEW s \in [1 .. n -> Bits], NEW t \in Seq(Bits)
  PROVE  /\ s \in Seq(Bits) /\ Len(s) = n
         /\ \A l \in 0 .. n : GetBits(s \o t, l) = [k \in 1 .. l |-> s[k]]
         /\ DropBits(s \o t, n) = t
<1>1. s \in Seq(Bits) /\ Len(s) = n
  OBVIOUS
<1>2. ASSUME NEW l \in 0 .. n PROVE GetBits(s \o t, l) = [k \in 1 .. l |-> s[k]]
  <2>1. Zeros(l) \in Seq(Bits) /\ Len(Zeros(l)) = l
    BY DEF Zeros, Bits
  <2> DEFINE r == (s \o t) \o Zeros(l)
  <2>2. r \in Seq(Bits) /\ Len(r) >= l /\ \A k \in 1 .. l : r[k] = s[k]
    BY <1>1, <2>1
  <2> HIDE DEF r
  <2>3. SubSeq(r, 1, l) = [k \in 1 .. l |-> r[k]]
    BY <2>2
  <2> QED
    BY <2>2, <2>3 DEF GetBits, r
<1>3. DropBits(s \o t, n) = t
  BY <1>1 DEF DropBits
<1> QED
  BY <1>1, <1>2, <1>3

\* GetBits of what is there.
LEMMA BitsAreThere ==
  ASSUME NEW rest \in Seq(Bits), NEW n \in 0 .. Len(rest)
  PROVE  GetBits(rest, n) = [k \in 1 .. n |-> rest[k]] /\ GetBits(rest, n) \in [1 .. n -> Bits]
<1>1. Zeros(n) \in Seq(Bits) /\ Len(Zeros(n)) = n
  BY DEF Zeros, Bits
<1> DEFINE r == rest \o Zeros(n)
<1>2. r \in Seq(Bits) /\ Len(r) >= n /\ \A k \in 1 .. n : r[k] = rest[k] /\ rest[k] \in Bits
  BY <1>1
<1> HIDE DEF r
<1>3. SubSeq(r, 1, n) = [k \in 1 .. n |-> r[k]]
  BY <1>2
<1> QED
  BY <1>2, <1>3 DEF GetBits, r

-----------------------------------------------------------------------------
(* The lengths of the codes.                                               *)

\* Codes are at most as long as the format allows.
Widths == MAX_LENGTH \in 1 .. 16 /\ HUFF_LOOKAHEAD \in 1 .. 16
Counts == [1 .. MAX_LENGTH -> Nat]

\* How many codes there are of up to so many bits.
UpTo(count, bits) ==
  /\ count \in [0 .. MAX_LENGTH -> Nat]
  /\ count[0] = 0
  /\ \A l \in 1 .. MAX_LENGTH : count[l] = count[l - 1] + bits[l]

\* The first code of each length, one after another.
LEMMA FirstCodes ==
  ASSUME Widths, NEW bits \in Counts
  PROVE  /\ FirstCode(bits) \in [1 .. MAX_LENGTH + 1 -> Nat]
         /\ FirstCode(bits)[1] = 0
         /\ \A l \in 1 .. MAX_LENGTH : FirstCode(bits)[l + 1] = 2 * (FirstCode(bits)[l] + bits[l])
<1> PICK m \in 1 .. 16 : m = MAX_LENGTH
  BY DEF Widths
<1> DEFINE First(f) == f = [l \in 1 .. m + 1 |-> IF l = 1 THEN 0 ELSE 2 * (f[l - 1] + bits[l - 1])]
           first == CHOOSE f : First(f)
           step == [i \in 1 .. m |-> [x \in Nat |-> 2 * (x + bits[i])]]
<1>1. FirstCode(bits) = first
  BY DEF FirstCode
<1> HIDE DEF first
<1>2. bits \in [1 .. m -> Nat]
  BY DEF Counts
<1>3. step \in Steps(Nat, m) /\ 0 \in Nat /\ m \in Nat
  BY <1>2 DEF Steps
<1>4. \A i \in 1 .. m, x \in Nat : step[i][x] = 2 * (x + bits[i])
  BY <1>2
<1> HIDE DEF step
<1>5. PICK f : RunOf(f, Nat, m, 0, step)
  BY <1>3, Recursion, Zenon
<1>6. f \in [0 .. m -> Nat] /\ f[0] = 0
  BY <1>5 DEF RunOf
<1>7. ASSUME NEW i \in 1 .. m PROVE f[i] = 2 * (f[i - 1] + bits[i])
  <2>1. i - 1 \in 0 .. m
    OBVIOUS
  <2> QED
    BY <1>4, <1>5, <1>6, <2>1 DEF RunOf
<1> DEFINE g == [l \in 1 .. m + 1 |-> f[l - 1]]
<1>8. ASSUME NEW l \in 1 .. m + 1
      PROVE  g[l] = IF l = 1 THEN 0 ELSE 2 * (g[l - 1] + bits[l - 1])
  <2>1. CASE l = 1
    BY <1>6, <2>1
  <2>2. CASE l # 1
    <3>1. l - 1 \in 1 .. m /\ l - 1 \in 1 .. m + 1
      BY <2>2
    <3>2. f[l - 1] = 2 * (f[(l - 1) - 1] + bits[l - 1])
      BY <1>7, <3>1
    <3> QED
      BY <2>2, <3>1, <3>2
  <2> QED
    BY <2>1, <2>2
<1>9. g = [l \in 1 .. m + 1 |-> g[l]]
  OBVIOUS
<1> HIDE DEF g
<1>10. First(g)
  BY <1>8, <1>9
<1>11. First(first)
  BY <1>10 DEF first
<1>12. \A l \in 1 .. m + 1 : first[l] = IF l = 1 THEN 0 ELSE 2 * (first[l - 1] + bits[l - 1])
  BY <1>11
<1>13. DOMAIN first = 1 .. m + 1 /\ first = [l \in 1 .. m + 1 |-> first[l]]
  BY <1>11
<1> HIDE DEF First
<1>14. first[1] = 0
  BY <1>12
<1>15. ASSUME NEW l \in 1 .. m PROVE first[l + 1] = 2 * (first[l] + bits[l])
  <2>1. l + 1 \in 1 .. m + 1 /\ l + 1 # 1 /\ (l + 1) - 1 = l
    OBVIOUS
  <2> QED
    BY <1>12, <2>1
<1>16. \A l \in 1 .. m + 1 : first[l] \in Nat
  <2> DEFINE Numbers == {n \in Nat : n <= m => first[n + 1] \in Nat}
  <2>1. 0 \in Numbers
    BY <1>14
  <2>2. ASSUME NEW n \in Nat, n \in Numbers PROVE n + 1 \in Numbers
    <3> SUFFICES ASSUME n + 1 <= m PROVE first[(n + 1) + 1] \in Nat
      OBVIOUS
    <3>1. n + 1 \in 1 .. m /\ first[n + 1] \in Nat
      BY <2>2
    <3> QED
      BY <1>2, <1>15, <3>1
  <2>3. \A n \in Nat : n \in Numbers
    <3> HIDE DEF Numbers
    <3> QED
      BY <2>1, <2>2, SetInduction
  <2>4. ASSUME NEW l \in 1 .. m + 1 PROVE first[l] \in Nat
    <3>1. l - 1 \in Nat /\ l - 1 <= m /\ (l - 1) + 1 = l
      OBVIOUS
    <3> QED
      BY <2>3, <3>1
  <2> QED
    BY <2>4
<1> QED
  BY <1>1, <1>13, <1>14, <1>15, <1>16

\* A longer code is beyond all that begin with a shorter one.
LEMMA LongerIsBeyond ==
  ASSUME Widths, NEW bits \in Counts, NEW l \in 1 .. MAX_LENGTH, NEW c \in Nat, l + c <= MAX_LENGTH, c # 0
  PROVE  FirstCode(bits)[l + c] >= Power(c) * (FirstCode(bits)[l] + bits[l])
<1> PICK m \in 1 .. 16 : m = MAX_LENGTH
  BY DEF Widths
<1> DEFINE first == FirstCode(bits)
           y == first[l] + bits[l]
           Further == {n \in Nat : l + (n + 1) <= m => first[l + (n + 1)] >= Power(n + 1) * y}
<1>1. /\ first \in [1 .. m + 1 -> Nat] /\ bits \in [1 .. m -> Nat]
      /\ \A k \in 1 .. m : first[k + 1] = 2 * (first[k] + bits[k])
  BY FirstCodes DEF Counts
<1> HIDE DEF first
<1>2. l \in 1 .. m + 1 /\ y \in Nat /\ first[l + 1] = 2 * y
  <2>1. l \in 1 .. m /\ l \in 1 .. m + 1
    OBVIOUS
  <2>2. first[l] \in Nat /\ bits[l] \in Nat
    BY <1>1, <2>1
  <2>3. first[l + 1] = 2 * (first[l] + bits[l])
    BY <1>1, <2>1
  <2> QED
    BY <2>1, <2>2, <2>3
<1> HIDE DEF y
<1>3. 0 \in Further
  <2>1. Power(0 + 1) = 2 /\ 0 + 1 = 1
    BY PowerStep
  <2> QED
    BY <1>2, <2>1
<1>4. ASSUME NEW n \in Nat, n \in Further PROVE n + 1 \in Further
  <2> SUFFICES ASSUME l + ((n + 1) + 1) <= m PROVE first[l + ((n + 1) + 1)] >= Power((n + 1) + 1) * y
    OBVIOUS
  <2>1. /\ l + (n + 1) \in 1 .. m /\ l + (n + 1) \in 1 .. m + 1 /\ l + ((n + 1) + 1) = (l + (n + 1)) + 1
        /\ n + 1 \in 0 .. 16 /\ n + 1 \in Exponents
    BY DEF Exponents
  <2>2. first[l + ((n + 1) + 1)] = 2 * (first[l + (n + 1)] + bits[l + (n + 1)])
    BY <1>1, <2>1
  <2>3. first[l + (n + 1)] >= Power(n + 1) * y
    BY <1>4, <2>1
  <2>4. Power((n + 1) + 1) = 2 * Power(n + 1) /\ Power(n + 1) \in Nat
    BY <2>1, PowerStep
  <2>5. first[l + (n + 1)] \in Nat /\ bits[l + (n + 1)] \in Nat
    BY <1>1, <2>1
  <2>6. \A a, b \in Nat : (2 * a) * b = 2 * (a * b) /\ a * b \in Nat
    OBVIOUS
  <2>7. Power((n + 1) + 1) * y = 2 * (Power(n + 1) * y) /\ Power(n + 1) * y \in Nat
    BY <1>2, <2>4, <2>6
  <2> QED
    BY <2>2, <2>3, <2>5, <2>7
<1>5. c - 1 \in Further
  <2>1. c - 1 \in Nat
    OBVIOUS
  <2> HIDE DEF Further
  <2> QED
    BY <1>3, <1>4, <2>1, SetInduction
<1>6. (c - 1) + 1 = c
  OBVIOUS
<1> QED
  BY <1>5, <1>6 DEF first, y

\* A number's quotient.
LEMMA QuotientIsAtLeast ==
  ASSUME NEW d \in Nat, d > 0, NEW x \in Nat, NEW y \in Nat, x >= d * y
  PROVE  x \div d >= y
<1> DEFINE q == x \div d
           r == x % d
<1>1. q \in Int /\ r \in 0 .. d - 1 /\ x = d * q + r
  BY Division
<1> HIDE DEF q, r
<1>2. ASSUME q < y PROVE FALSE
  <2>1. y - q >= 1 /\ y - q \in Int
    BY <1>1, <1>2
  <2>2. \A e \in Int : e >= 1 => d * e >= d
    OBVIOUS
  <2>3. d * (y - q) >= d
    BY <2>1, <2>2
  <2>4. d * (y - q) = d * y - d * q /\ d * y \in Int /\ d * q \in Int
    BY <1>1
  <2> QED
    BY <1>1, <2>3, <2>4
<1> QED
  BY <1>1, <1>2 DEF q

\* There are such counts, and they grow.
LEMMA CountsUp ==
  ASSUME Widths, NEW bits \in Counts
  PROVE  /\ \E count : UpTo(count, bits)
         /\ \A count : UpTo(count, bits) =>
              \A k, l \in 0 .. MAX_LENGTH : k <= l => count[k] <= count[l]
<1> PICK m \in 1 .. 16 : m = MAX_LENGTH
  BY DEF Widths
<1> DEFINE step == [i \in 1 .. m |-> [x \in Nat |-> x + bits[i]]]
<1>1. bits \in [1 .. m -> Nat]
  BY DEF Counts
<1>2. step \in Steps(Nat, m) /\ 0 \in Nat /\ m \in Nat
  BY <1>1 DEF Steps
<1>3. \A i \in 1 .. m, x \in Nat : step[i][x] = x + bits[i]
  BY <1>1
<1> HIDE DEF step
<1>4. PICK f : RunOf(f, Nat, m, 0, step)
  BY <1>2, Recursion, Zenon
<1>5. f \in [0 .. m -> Nat] /\ f[0] = 0
  BY <1>4 DEF RunOf
<1>6. ASSUME NEW i \in 1 .. m PROVE f[i] = f[i - 1] + bits[i]
  <2>1. i - 1 \in 0 .. m
    OBVIOUS
  <2> QED
    BY <1>3, <1>4, <1>5, <2>1 DEF RunOf
<1>7. UpTo(f, bits)
  BY <1>5, <1>6 DEF UpTo
<1>8. ASSUME NEW count, UpTo(count, bits), NEW k \in 0 .. m, NEW l \in 0 .. m, k <= l
      PROVE  count[k] <= count[l]
  <2> DEFINE Grown == {n \in Nat : k + n <= m => count[k] <= count[k + n]}
  <2>1. count \in [0 .. m -> Nat] /\ \A i \in 1 .. m : count[i] = count[i - 1] + bits[i]
    BY <1>8 DEF UpTo
  <2>2. 0 \in Grown
    BY <2>1
  <2>3. ASSUME NEW n \in Nat, n \in Grown PROVE n + 1 \in Grown
    <3> SUFFICES ASSUME k + (n + 1) <= m PROVE count[k] <= count[k + (n + 1)]
      OBVIOUS
    <3>1. k + (n + 1) \in 1 .. m /\ (k + (n + 1)) - 1 = k + n /\ k + n \in 0 .. m
      OBVIOUS
    <3> QED
      BY <1>1, <2>1, <2>3, <3>1
  <2>4. l - k \in Grown
    <3>1. l - k \in Nat
      BY <1>8
    <3> HIDE DEF Grown
    <3> QED
      BY <2>2, <2>3, <3>1, SetInduction
  <2>5. k + (l - k) = l
    OBVIOUS
  <2> QED
    BY <2>4, <2>5
<1> QED
  BY <1>7, <1>8

-----------------------------------------------------------------------------
(* Sequences, one after the other.                                         *)

\* One sequence after another.
IsJoined(u, s, t) ==
  /\ Len(u) = Len(s) + Len(t)
  /\ \A p \in 1 .. Len(s) : u[p] = s[p]
  /\ \A p \in 1 .. Len(t) : u[Len(s) + p] = t[p]

\* What \o makes of two sequences.
LEMMA Joined ==
  ASSUME NEW S, NEW s \in Seq(S), NEW t \in Seq(S)
  PROVE  s \o t \in Seq(S) /\ IsJoined(s \o t, s, t)
BY DEF IsJoined

\* FlattenSeq puts one sequence after the other.
JoinsUp(f, S, n, seqs) ==
  /\ f \in [0 .. n -> Seq(S)] /\ f[0] = <<>>
  /\ \A i \in 1 .. n : f[i] = f[i - 1] \o seqs[i]
  /\ FlattenSeq(seqs) = f[n]

\* What FlattenSeq makes of several.
LEMMA Flattened ==
  ASSUME NEW S, NEW n \in Nat \ {0}, NEW seqs \in [1 .. n -> Seq(S)]
  PROVE  \E f : JoinsUp(f, S, n, seqs)
<1> DEFINE step == [i \in 1 .. n |-> [x \in Seq(S) |-> x \o seqs[i]]]
           Pile(f) == f = [i \in 1 .. Len(seqs) |-> IF i = 1 THEN seqs[i] ELSE f[i - 1] \o seqs[i]]
           rows == CHOOSE f : Pile(f)
<1>1. n \in Nat /\ n # 0 /\ Len(seqs) = n /\ Len(seqs) # 0
  OBVIOUS
<1>2. FlattenSeq(seqs) = rows[Len(seqs)]
  BY <1>1 DEF FlattenSeq
<1> HIDE DEF rows
<1>3. \A i \in 1 .. n, x \in Seq(S) : x \o seqs[i] \in Seq(S)
  OBVIOUS
<1>4. step \in Steps(Seq(S), n) /\ <<>> \in Seq(S)
  BY <1>3 DEF Steps
<1>5. \A i \in 1 .. n : \A x \in Seq(S) : step[i][x] = x \o seqs[i]
  OBVIOUS
<1> HIDE DEF step
<1>6. PICK f : RunOf(f, Seq(S), n, <<>>, step)
  BY <1>1, <1>4, Recursion, Zenon
<1>7. f \in [0 .. n -> Seq(S)] /\ f[0] = <<>>
  BY <1>6 DEF RunOf
<1>8. ASSUME NEW i \in 1 .. n PROVE f[i] = f[i - 1] \o seqs[i]
  <2>1. i - 1 \in 0 .. n
    OBVIOUS
  <2>2. f[i] = step[i][f[i - 1]] /\ f[i - 1] \in Seq(S)
    BY <1>6, <1>7, <2>1 DEF RunOf
  <2> QED
    BY <1>5, <2>2
<1> DEFINE g == [i \in 1 .. n |-> f[i]]
<1>9. ASSUME NEW i \in 1 .. n PROVE g[i] = IF i = 1 THEN seqs[i] ELSE g[i - 1] \o seqs[i]
  <2>1. CASE i = 1
    <3>1. f[1] = <<>> \o seqs[1]
      <4>1. 1 \in 1 .. n /\ 1 - 1 = 0
        BY <1>1
      <4>2. f[1] = f[1 - 1] \o seqs[1]
        BY <1>8, <4>1
      <4> QED
        BY <1>7, <4>1, <4>2
    <3>2. seqs[1] \in Seq(S)
      BY <2>1
    <3> QED
      BY <2>1, <3>1, <3>2
  <2>2. CASE i # 1
    <3>1. i - 1 \in 1 .. n
      BY <2>2
    <3> QED
      BY <1>8, <2>2, <3>1
  <2> QED
    BY <2>1, <2>2
<1>10. g = [i \in 1 .. n |-> g[i]]
  OBVIOUS
<1> HIDE DEF g
<1>11. Pile(g)
  BY <1>1, <1>9, <1>10
<1>12. Pile(rows)
  BY <1>11 DEF rows
<1>13. \A i \in 1 .. n : rows[i] = IF i = 1 THEN seqs[i] ELSE rows[i - 1] \o seqs[i]
  BY <1>1, <1>12
<1> HIDE DEF Pile
<1> DEFINE Same == {i \in Nat : i + 1 <= n => rows[i + 1] = f[i + 1]}
<1>14. 0 \in Same
  <2>1. 1 \in 1 .. n /\ seqs[1] \in Seq(S) /\ 0 + 1 = 1
    BY <1>1
  <2>2. f[1] = <<>> \o seqs[1]
    <3>1. 1 - 1 = 0
      OBVIOUS
    <3>2. f[1] = f[1 - 1] \o seqs[1]
      BY <1>8, <2>1
    <3> QED
      BY <1>7, <3>1, <3>2
  <2>3. rows[1] = seqs[1]
    BY <1>13, <2>1
  <2> QED
    BY <2>1, <2>2, <2>3
<1>15. ASSUME NEW i \in Nat, i \in Same PROVE i + 1 \in Same
  <2> SUFFICES ASSUME (i + 1) + 1 <= n PROVE rows[(i + 1) + 1] = f[(i + 1) + 1]
    OBVIOUS
  <2>1. (i + 1) + 1 \in 1 .. n /\ (i + 1) + 1 # 1 /\ ((i + 1) + 1) - 1 = i + 1 /\ i + 1 <= n
    BY <1>1
  <2>2. rows[(i + 1) + 1] = rows[i + 1] \o seqs[(i + 1) + 1]
    BY <1>13, <2>1
  <2>3. f[(i + 1) + 1] = f[i + 1] \o seqs[(i + 1) + 1]
    BY <1>8, <2>1
  <2> QED
    BY <1>15, <2>1, <2>2, <2>3
<1>16. n - 1 \in Same
  <2>1. n - 1 \in Nat
    BY <1>1
  <2> HIDE DEF Same
  <2> QED
    BY <1>14, <1>15, <2>1, SetInduction
<1>17. rows[n] = f[n]
  <2>1. (n - 1) + 1 = n /\ n <= n
    BY <1>1
  <2> QED
    BY <1>16, <2>1
<1> QED
  BY <1>1, <1>2, <1>7, <1>8, <1>17 DEF JoinsUp

\* The sizes of the codes: so many of each length.
LEMMA SizesAre ==
  ASSUME Widths, NEW bits \in Counts, NEW count, UpTo(count, bits)
  PROVE  /\ Sizes(bits) \in [1 .. count[MAX_LENGTH] -> 1 .. MAX_LENGTH]
         /\ \A l \in 1 .. MAX_LENGTH, p \in 1 .. count[MAX_LENGTH] :
              Sizes(bits)[p] = l <=> count[l - 1] < p /\ p <= count[l]
<1> PICK m \in 1 .. 16 : m = MAX_LENGTH
  BY DEF Widths
<1> DEFINE seqs == [l \in 1 .. m |-> [k \in 1 .. bits[l] |-> l]]
<1>1. /\ bits \in [1 .. m -> Nat] /\ count \in [0 .. m -> Nat] /\ count[0] = 0
      /\ \A l \in 1 .. m : count[l] = count[l - 1] + bits[l]
  BY DEF Counts, UpTo
<1>2. \A k, l \in 0 .. m : k <= l => count[k] <= count[l]
  BY CountsUp
<1>3. ASSUME NEW l \in 1 .. m
      PROVE  /\ seqs[l] \in Seq(1 .. m) /\ Len(seqs[l]) = bits[l] /\ bits[l] \in Nat
             /\ \A k \in 1 .. bits[l] : seqs[l][k] = l
  <2>1. bits[l] \in Nat
    BY <1>1
  <2>2. seqs[l] = [k \in 1 .. bits[l] |-> l]
    OBVIOUS
  <2> QED
    BY <2>1, <2>2
<1>4. seqs \in [1 .. m -> Seq(1 .. m)] /\ m \in Nat \ {0}
  BY <1>3
<1>5. Sizes(bits) = FlattenSeq(seqs)
  BY DEF Sizes
<1> HIDE DEF seqs
<1> PICK f : JoinsUp(f, 1 .. m, m, seqs)
  BY <1>4, Flattened, Zenon
<1>6. /\ f \in [0 .. m -> Seq(1 .. m)] /\ f[0] = <<>>
      /\ \A i \in 1 .. m : f[i] = f[i - 1] \o seqs[i]
      /\ FlattenSeq(seqs) = f[m]
  BY DEF JoinsUp
<1> DEFINE Placed(i) ==
             /\ Len(f[i]) = count[i]
             /\ \A l \in 1 .. m, p \in 1 .. count[i] : f[i][p] = l <=> count[l - 1] < p /\ p <= count[l]
           AllPlaced == {i \in Nat : i <= m => Placed(i)}
<1>7. 0 \in AllPlaced
  <2>1. Len(f[0]) = 0 /\ 1 .. count[0] = {}
    BY <1>1, <1>6
  <2> QED
    BY <1>1, <2>1
<1>8. ASSUME NEW i \in Nat, i \in AllPlaced PROVE i + 1 \in AllPlaced
  <2> SUFFICES ASSUME i + 1 <= m PROVE Placed(i + 1)
    OBVIOUS
  <2>1. i + 1 \in 1 .. m /\ (i + 1) - 1 = i /\ i \in 0 .. m /\ i + 1 \in 0 .. m
    OBVIOUS
  <2>2. f[i + 1] = f[i] \o seqs[i + 1] /\ f[i] \in Seq(1 .. m)
    BY <1>6, <2>1
  <2>3. Placed(i)
    BY <1>8, <2>1
  <2>4. /\ seqs[i + 1] \in Seq(1 .. m) /\ Len(seqs[i + 1]) = bits[i + 1] /\ bits[i + 1] \in Nat
        /\ \A k \in 1 .. bits[i + 1] : seqs[i + 1][k] = i + 1
    BY <1>3, <2>1
  <2>5. count[i + 1] = count[i] + bits[i + 1] /\ count[i] \in Nat /\ count[i + 1] \in Nat
    BY <1>1, <2>1
  <2> PICK s \in Seq(1 .. m), t \in Seq(1 .. m) : s = f[i] /\ t = seqs[i + 1]
    BY <2>2, <2>4
  <2>8. /\ f[i + 1] = s \o t /\ Len(s) = count[i] /\ Len(t) = bits[i + 1]
        /\ \A k \in 1 .. bits[i + 1] : t[k] = i + 1
    BY <2>2, <2>3, <2>4
  <2>9. /\ Len(f[i + 1]) = count[i] + bits[i + 1]
        /\ \A p \in 1 .. count[i] : f[i + 1][p] = f[i][p]
        /\ \A p \in 1 .. bits[i + 1] : f[i + 1][count[i] + p] = i + 1
    <3>1. IsJoined(s \o t, s, t)
      BY Joined, Zenon
    <3>2. /\ Len(f[i + 1]) = count[i] + bits[i + 1]
          /\ \A p \in 1 .. count[i] : f[i + 1][p] = s[p]
          /\ \A p \in 1 .. bits[i + 1] : f[i + 1][count[i] + p] = t[p]
      BY <2>8, <3>1 DEF IsJoined
    <3> QED
      BY <2>8, <3>2
  <2>6. Len(f[i + 1]) = count[i + 1]
    BY <2>5, <2>9
  <2>7. ASSUME NEW l \in 1 .. m, NEW p \in 1 .. count[i + 1]
        PROVE  f[i + 1][p] = l <=> count[l - 1] < p /\ p <= count[l]
    <3>1. l \in 0 .. m /\ l - 1 \in 0 .. m /\ count[l] \in Nat /\ count[l - 1] \in Nat
      BY <1>1
    <3>2. CASE p <= count[i]
      <4>1. p \in 1 .. count[i]
        BY <2>5, <3>2
      <4>2. f[i + 1][p] = f[i][p]
        BY <2>9, <4>1
      <4> QED
        BY <2>3, <4>1, <4>2
    <3>3. CASE p > count[i]
      <4>1. f[i + 1][p] = i + 1
        <5> PICK k \in Int : k = p - count[i]
          BY <2>5
        <5>1. p \in Int /\ p <= count[i + 1]
          BY <2>5
        <5>2. k \in 1 .. bits[i + 1] /\ p = count[i] + k
          BY <2>4, <2>5, <3>3, <5>1
        <5> QED
          BY <2>9, <5>2
      <4>2. CASE l = i + 1
        BY <2>1, <2>5, <3>3, <4>1, <4>2
      <4>3. CASE l <= i
        <5>1. count[l] <= count[i]
          BY <1>2, <2>1, <3>1, <4>3
        <5> QED
          BY <2>5, <3>1, <3>3, <4>1, <4>3, <5>1
      <4>4. CASE l > i + 1
        <5>1. count[i + 1] <= count[l - 1]
          BY <1>2, <2>1, <3>1, <4>4
        <5> QED
          BY <2>5, <3>1, <4>1, <4>4, <5>1
      <4> QED
        BY <4>2, <4>3, <4>4
    <3> QED
      BY <2>5, <3>2, <3>3
  <2> QED
    BY <2>6, <2>7
<1>9. Placed(m)
  <2>1. m \in AllPlaced
    <3>1. m \in Nat
      OBVIOUS
    <3> HIDE DEF AllPlaced
    <3> QED
      BY <1>7, <1>8, <3>1, SetInduction
  <2> QED
    BY <2>1
<1>10. f[m] \in [1 .. count[m] -> 1 .. m]
  <2>1. f[m] \in Seq(1 .. m) /\ Len(f[m]) = count[m]
    BY <1>6, <1>9
  <2> HIDE DEF Placed
  <2> QED
    BY <2>1
<1> QED
  BY <1>5, <1>6, <1>9, <1>10

\* The first place for a length is after all shorter ones.
LEMMA FirstPlaceIs ==
  ASSUME Widths, NEW bits \in Counts, NEW count, UpTo(count, bits), NEW l \in 1 .. MAX_LENGTH
  PROVE  FirstPlace(bits, l) = 1 + count[l - 1]
<1> PICK m \in 1 .. 16 : m = MAX_LENGTH
  BY DEF Widths
<1> DEFINE size == Sizes(bits)
<1>1. /\ size \in [1 .. count[m] -> 1 .. m]
      /\ \A k \in 1 .. m, p \in 1 .. count[m] : size[p] = k <=> count[k - 1] < p /\ p <= count[k]
  BY SizesAre
<1> HIDE DEF size
<1>2. count \in [0 .. m -> Nat] /\ \A j, k \in 0 .. m : j <= k => count[j] <= count[k]
  <2>1. count \in [0 .. m -> Nat]
    BY DEF UpTo
  <2> QED
    BY <2>1, CountsUp
<1>3. l - 1 \in 0 .. m /\ count[l - 1] \in Nat /\ count[l - 1] <= count[m] /\ count[m] \in Nat /\ m \in 0 .. m
  BY <1>2
<1>4. ASSUME NEW p \in 1 .. count[m] PROVE size[p] < l <=> p <= count[l - 1]
  <2> PICK k \in 1 .. m : k = size[p]
    BY <1>1
  <2>1. count[k - 1] < p /\ p <= count[k]
    BY <1>1
  <2>2. k - 1 \in 0 .. m /\ k \in 0 .. m /\ count[k - 1] \in Nat /\ count[k] \in Nat
    BY <1>2
  <2>3. k < l => count[k] <= count[l - 1]
    BY <1>2, <1>3, <2>2
  <2>4. k >= l => count[l - 1] <= count[k - 1]
    BY <1>2, <1>3, <2>2
  <2> QED
    BY <1>3, <2>1, <2>2, <2>3, <2>4
<1>5. {p \in DOMAIN size : size[p] < l} = 1 .. count[l - 1]
  <2>1. DOMAIN size = 1 .. count[m]
    BY <1>1
  <2>2. \A p : p \in {q \in 1 .. count[m] : size[q] < l} <=> p \in 1 .. count[l - 1]
    BY <1>3, <1>4
  <2> QED
    BY <2>1, <2>2
<1>6. Cardinality(1 .. count[l - 1]) = count[l - 1]
  <2> PICK n \in Nat : n = count[l - 1]
    BY <1>3
  <2>1. Cardinality(1 .. n) = n
    <3>1. 1 \in Int /\ n \in Int
      OBVIOUS
    <3>2. Cardinality(1 .. n) = IF 1 > n THEN 0 ELSE n - 1 + 1
      BY <3>1, FS_Interval
    <3> QED
      BY <3>2
  <2> QED
    BY <2>1
<1> QED
  BY <1>5, <1>6 DEF FirstPlace, size

\* A quotient, of less than a multiple.
LEMMA QuotientIsBelow ==
  ASSUME NEW d \in Nat, d > 0, NEW x \in Nat, NEW y \in Nat, x < d * y
  PROVE  x \div d \in Nat /\ x \div d < y
<1> DEFINE q == x \div d
           r == x % d
<1>1. q \in Int /\ r \in 0 .. d - 1 /\ x = d * q + r
  BY Division
<1> HIDE DEF q, r
<1>2. ASSUME q >= y PROVE FALSE
  <2>1. q - y >= 0 /\ q - y \in Int
    BY <1>1, <1>2
  <2>2. \A e \in Int : e >= 0 => d * e >= 0
    OBVIOUS
  <2>3. d * (q - y) >= 0
    BY <2>1, <2>2
  <2>4. d * (q - y) = d * q - d * y /\ d * y \in Int /\ d * q \in Int
    BY <1>1
  <2> QED
    BY <1>1, <2>3, <2>4
<1>3. ASSUME q <= -1 PROVE FALSE
  <2>1. \A e \in Int : e <= -1 => d * e <= -d
    OBVIOUS
  <2>2. d * q <= -d /\ d * q \in Int
    BY <1>1, <1>3, <2>1
  <2> QED
    BY <1>1, <2>2
<1> QED
  BY <1>1, <1>2, <1>3 DEF q

\* The derived tables, without their local definitions.
IsTable(table, bits, count) ==
  /\ table.size = Sizes(bits)
  /\ \A p \in 1 .. count[MAX_LENGTH] :
       table.code[p] = FirstCode(bits)[table.size[p]] + p - 1 - count[table.size[p] - 1]
  /\ \A l \in 1 .. MAX_LENGTH :
       /\ table.maxcode[l] = IF bits[l] > 0 THEN FirstCode(bits)[l] + bits[l] - 1 ELSE -1
       /\ table.valoffset[l] = 1 + count[l - 1] - FirstCode(bits)[l]
  /\ \A look \in 0 .. Power(HUFF_LOOKAHEAD) - 1 :
       table.lookahead[look] =
         {p \in 1 .. count[MAX_LENGTH] :
            /\ table.size[p] <= HUFF_LOOKAHEAD
            /\ look \div Power(HUFF_LOOKAHEAD - table.size[p]) = table.code[p]}

\* The derived tables, with the numbers of codes of each length.
LEMMA TableIs ==
  ASSUME Widths, NEW bits \in Counts, NEW count, UpTo(count, bits)
  PROVE  IsTable(DeriveTable(bits), bits, count)
<1> PICK m \in 1 .. 16 : m = MAX_LENGTH
  BY DEF Widths
<1> PICK ahead \in 1 .. 16 : ahead = HUFF_LOOKAHEAD
  BY DEF Widths
<1> DEFINE table == DeriveTable(bits)
           first == FirstCode(bits)
           size == Sizes(bits)
<1>1. /\ table.size = size
      /\ table.code = [p \in DOMAIN size |-> first[size[p]] + p - FirstPlace(bits, size[p])]
      /\ table.maxcode = [l \in 1 .. m |-> IF bits[l] > 0 THEN first[l] + bits[l] - 1 ELSE -1]
      /\ table.valoffset = [l \in 1 .. m |-> FirstPlace(bits, l) - first[l]]
      /\ table.lookahead = [look \in 0 .. Power(ahead) - 1 |->
           {p \in DOMAIN size : /\ size[p] <= ahead
                                /\ look \div Power(ahead - size[p])
                                     = [q \in DOMAIN size |-> first[size[q]] + q - FirstPlace(bits, size[q])][p]}]
  BY DEF DeriveTable, Power
<1>2. size \in [1 .. count[m] -> 1 .. m]
  BY SizesAre
<1>3. /\ count \in [0 .. m -> Nat]
      /\ first \in [1 .. m + 1 -> Nat]
  BY FirstCodes DEF UpTo
<1> HIDE DEF table, first, size
<1>4. DOMAIN size = 1 .. count[m]
  BY <1>2
<1>5. ASSUME NEW p \in 1 .. count[m]
      PROVE  table.code[p] = first[size[p]] + p - 1 - count[size[p] - 1]
  <2> PICK l \in 1 .. m : l = size[p]
    BY <1>2
  <2>1. FirstPlace(bits, l) = 1 + count[l - 1]
    BY FirstPlaceIs
  <2>2. count[l - 1] \in Nat /\ first[l] \in Nat
    <3>1. l - 1 \in 0 .. m /\ l \in 1 .. m + 1
      OBVIOUS
    <3> QED
      BY <1>3, <3>1
  <2>3. table.code[p] = first[l] + p - FirstPlace(bits, l)
    BY <1>1, <1>4
  <2>4. table.code[p] = first[l] + p - 1 - count[l - 1]
    BY <2>1, <2>2, <2>3
  <2> QED
    BY <2>4
<1>6. ASSUME NEW l \in 1 .. m
      PROVE  /\ table.maxcode[l] = IF bits[l] > 0 THEN first[l] + bits[l] - 1 ELSE -1
             /\ table.valoffset[l] = 1 + count[l - 1] - first[l]
  <2>1. FirstPlace(bits, l) = 1 + count[l - 1]
    BY FirstPlaceIs
  <2>2. first[l] \in Nat /\ count[l - 1] \in Nat
    <3>1. l - 1 \in 0 .. m /\ l \in 1 .. m + 1
      OBVIOUS
    <3> QED
      BY <1>3, <3>1
  <2>3. table.valoffset[l] = FirstPlace(bits, l) - first[l]
    BY <1>1
  <2>4. table.maxcode[l] = IF bits[l] > 0 THEN first[l] + bits[l] - 1 ELSE -1
    BY <1>1
  <2>5. table.valoffset[l] = 1 + count[l - 1] - first[l]
    BY <2>1, <2>2, <2>3
  <2> QED
    BY <2>4, <2>5
<1>7. ASSUME NEW look \in 0 .. Power(ahead) - 1
      PROVE  table.lookahead[look] =
               {p \in 1 .. count[m] : size[p] <= ahead /\ look \div Power(ahead - size[p]) = table.code[p]}
  <2>1. table.lookahead[look] =
          {p \in DOMAIN size : size[p] <= ahead /\ look \div Power(ahead - size[p]) = table.code[p]}
    BY <1>1
  <2> QED
    BY <1>4, <2>1
<1> QED
  <2>1. \A p \in 1 .. count[m] :
          table.code[p] = first[table.size[p]] + p - 1 - count[table.size[p] - 1]
    BY <1>1, <1>5
  <2>2. \A look \in 0 .. Power(ahead) - 1 :
          table.lookahead[look] =
            {p \in 1 .. count[m] :
               table.size[p] <= ahead /\ look \div Power(ahead - table.size[p]) = table.code[p]}
    BY <1>1, <1>7
  <2>3. table.size = Sizes(bits)
    BY <1>1 DEF size
  <2> QED
    BY <1>6, <2>1, <2>2, <2>3 DEF IsTable, table, first

\* A symbol's code: among those of its length, and beyond all shorter ones.
HasCode(table, p) ==
  LET n == table.size[p]
      code == table.code[p]
  IN /\ n \in 1 .. MAX_LENGTH
     /\ code \in Nat /\ code < Power(n)
     /\ \A l \in 1 .. MAX_LENGTH : table.maxcode[l] \in Int
     /\ code <= table.maxcode[n] /\ code + table.valoffset[n] = p
     /\ \A l \in 1 .. n - 1 : code \div Power(n - l) > table.maxcode[l]

\* A code has its length, is not too large for it, and stands in its table.
LEMMA CodeIs ==
  ASSUME Widths, NEW bits \in Counts, Legal(bits), NEW count, UpTo(count, bits),
         NEW p \in 1 .. count[MAX_LENGTH]
  PROVE  HasCode(DeriveTable(bits), p)
<1> PICK m \in 1 .. 16 : m = MAX_LENGTH
  BY DEF Widths
<1> DEFINE table == DeriveTable(bits)
           first == FirstCode(bits)
<1>1. /\ table.size \in [1 .. count[m] -> 1 .. m]
      /\ \A l \in 1 .. m, q \in 1 .. count[m] : table.size[q] = l <=> count[l - 1] < q /\ q <= count[l]
  <2>1. table.size = Sizes(bits)
    <3>1. IsTable(table, bits, count)
      BY TableIs
    <3> HIDE DEF table
    <3> QED
      BY <3>1 DEF IsTable
  <2> QED
    BY <2>1, SizesAre
<1>2. /\ \A q \in 1 .. count[m] :
           table.code[q] = first[table.size[q]] + q - 1 - count[table.size[q] - 1]
      /\ \A l \in 1 .. m :
           /\ table.maxcode[l] = IF bits[l] > 0 THEN first[l] + bits[l] - 1 ELSE -1
           /\ table.valoffset[l] = 1 + count[l - 1] - first[l]
  <2>1. IsTable(table, bits, count)
    BY TableIs
  <2> HIDE DEF table
  <2> QED
    BY <2>1 DEF IsTable
<1>3. /\ bits \in [1 .. m -> Nat] /\ count \in [0 .. m -> Nat] /\ first \in [1 .. m + 1 -> Nat]
      /\ \A l \in 1 .. m : count[l] = count[l - 1] + bits[l]
  BY FirstCodes DEF Counts, UpTo
<1>4. \A l \in 1 .. m : bits[l] > 0 => first[l] + bits[l] < Power(l)
  BY DEF Legal, Power
<1>5. \A l \in 1 .. m, c \in Nat : l + c <= m /\ c # 0 => first[l + c] >= Power(c) * (first[l] + bits[l])
  BY LongerIsBeyond
<1> PICK n \in 1 .. m : n = table.size[p]
  BY <1>1
<1> HIDE DEF table, first
<1> PICK code : code = table.code[p]
  OBVIOUS
<1>6. count[n - 1] < p /\ p <= count[n]
  BY <1>1
<1>7. /\ code = first[n] + p - 1 - count[n - 1]
      /\ count[n] = count[n - 1] + bits[n]
      /\ count[n] \in Nat /\ count[n - 1] \in Nat /\ bits[n] \in Nat /\ first[n] \in Nat
  <2>1. n \in 0 .. m /\ n - 1 \in 0 .. m /\ n \in 1 .. m + 1
    OBVIOUS
  <2> QED
    BY <1>2, <1>3, <2>1
<1>8. code \in Nat /\ first[n] <= code /\ code < first[n] + bits[n] /\ bits[n] > 0
  BY <1>6, <1>7
<1>9. Power(n) \in Nat /\ code < Power(n)
  <2>1. Power(n) \in Nat
    BY PowersAre DEF Exponents
  <2>2. first[n] + bits[n] < Power(n)
    BY <1>4, <1>8
  <2> QED
    BY <1>7, <1>8, <2>1, <2>2
<1>10. table.maxcode[n] = first[n] + bits[n] - 1 /\ table.valoffset[n] = 1 + count[n - 1] - first[n]
  BY <1>2, <1>8
<1>11. code <= table.maxcode[n] /\ code + table.valoffset[n] = p
  BY <1>7, <1>8, <1>10
<1>12. ASSUME NEW l \in 1 .. n - 1 PROVE code \div Power(n - l) > table.maxcode[l]
  <2> PICK c \in Nat : c = n - l
    OBVIOUS
  <2>1. l \in 1 .. m /\ l \in 1 .. m + 1 /\ l + c <= m /\ c # 0 /\ l + c = n /\ c \in Exponents
    BY DEF Exponents
  <2>2. first[l] \in Nat /\ bits[l] \in Nat /\ Power(c) \in Nat /\ Power(c) > 0
    BY <1>3, <2>1, PowersAre
  <2> PICK y \in Nat : y = first[l] + bits[l]
    BY <2>2
  <2>3. first[n] >= Power(c) * y
    BY <1>5, <2>1
  <2>4. Power(c) * y \in Nat
    BY <2>2
  <2>5. code >= Power(c) * y
    BY <1>7, <1>8, <2>3, <2>4
  <2>6. code \div Power(c) >= y /\ code \div Power(c) \in Int
    BY <1>8, <2>2, <2>5, QuotientIsAtLeast, Division
  <2>7. table.maxcode[l] < y /\ table.maxcode[l] \in Int
    <3>1. table.maxcode[l] = IF bits[l] > 0 THEN first[l] + bits[l] - 1 ELSE -1
      BY <1>2, <2>1
    <3> QED
      BY <2>2, <3>1
  <2> QED
    BY <2>6, <2>7
<1>13. ASSUME NEW l \in 1 .. m PROVE table.maxcode[l] \in Int
  <2>1. l \in 1 .. m + 1
    OBVIOUS
  <2>2. first[l] \in Nat /\ bits[l] \in Nat
    BY <1>3, <2>1
  <2>3. table.maxcode[l] = IF bits[l] > 0 THEN first[l] + bits[l] - 1 ELSE -1
    BY <1>2
  <2> QED
    BY <2>2, <2>3
<1> QED
  BY <1>8, <1>9, <1>11, <1>12, <1>13 DEF table, HasCode

-----------------------------------------------------------------------------
(* A code is found by looking ahead, or bit by bit.                        *)

\* A number below the divisor is its own remainder.
LEMMA SmallRemainder ==
  ASSUME NEW x \in Nat, NEW d \in Nat, x < d
  PROVE  x % d = x
<1>1. d > 0 /\ 0 \in Int /\ x \in 0 .. d - 1 /\ d * 0 + x = x
  OBVIOUS
<1>2. (d * 0 + x) % d = x
  BY <1>1, DivisionIs
<1> QED
  BY <1>1, <1>2

\* Division in two steps.
LEMMA QuotientOfQuotient ==
  ASSUME NEW x \in Nat, NEW d \in Nat, d > 0, NEW e \in Nat, e > 0
  PROVE  (x \div d) \div e = x \div (d * e)
<1> DEFINE q == x \div d
           r == x % d
           c == q \div e
           b == q % e
<1>1. q \in Int /\ r \in 0 .. d - 1 /\ x = d * q + r
  BY Division
<1> HIDE DEF q, r
<1>2. c \in Int /\ b \in 0 .. e - 1 /\ q = e * c + b
  BY <1>1, Division
<1> HIDE DEF c, b
<1>3. d * (e * c + b) = (d * e) * c + d * b
  BY <1>2
<1>4. d * b <= d * (e - 1) /\ d * b >= 0 /\ d * (e - 1) = d * e - d /\ d * e \in Nat /\ d * b \in Int
  BY <1>2
<1>5. d * e > 0
  OBVIOUS
<1> DEFINE f == d * e
           a == d * b + r
<1>6. a \in 0 .. f - 1 /\ f \in Nat /\ f > 0
  BY <1>1, <1>4, <1>5
<1>7. x = f * c + a
  <2>1. (d * e) * c \in Int
    BY <1>2
  <2> QED
    BY <1>1, <1>2, <1>3, <1>4, <2>1
<1> HIDE DEF f, a
<1>8. x \div f = c
  BY <1>2, <1>6, <1>7, DivisionIs
<1> QED
  BY <1>8 DEF f, c, q

\* The bits before the last ones.
LEMMA QuotientOfPrefix ==
  ASSUME NEW look \in Nat, NEW ahead \in 0 .. 16, NEW k \in 0 .. ahead, NEW n \in 0 .. k
  PROVE  (look \div Power(ahead - k)) \div Power(k - n) = look \div Power(ahead - n)
<1>1. /\ ahead - k \in Exponents /\ k - n \in Exponents /\ ahead - n \in Exponents
      /\ k - n \in Nat /\ ahead - k \in Nat /\ (ahead - k) + (k - n) = ahead - n
  BY DEF Exponents
<1> PICK d \in Nat : d = Power(ahead - k) /\ d > 0
  BY <1>1, PowersAre
<1> PICK e \in Nat : e = Power(k - n) /\ e > 0
  BY <1>1, PowersAre
<1>2. Power((ahead - k) + (k - n)) = Power(ahead - k) * Power(k - n)
  BY <1>1, PowerSum
<1>3. Power(ahead - n) = d * e
  BY <1>1, <1>2
<1>4. (look \div d) \div e = look \div (d * e)
  BY QuotientOfQuotient
<1> QED
  BY <1>3, <1>4

\* A symbol's code, and its beginnings, read again.
IsRead(table, p, rest, t) ==
  /\ rest \in Seq(Bits)
  /\ \A l \in 0 .. table.size[p] : Number(GetBits(rest, l)) = table.code[p] \div Power(table.size[p] - l)
  /\ DropBits(rest, table.size[p]) = t

\* The bits that were put in front are those that are read.
LEMMA LowBitsAreRead ==
  ASSUME NEW n \in 0 .. 16, NEW code \in Nat, code < Power(n), NEW t \in Seq(Bits)
  PROVE  /\ LowBits(code, n) \o t \in Seq(Bits)
         /\ \A l \in 0 .. n : Number(GetBits(LowBits(code, n) \o t, l)) = code \div Power(n - l)
         /\ DropBits(LowBits(code, n) \o t, n) = t
<1> DEFINE s == LowBits(code, n)
<1>3. /\ s \in [1 .. n -> Bits]
      /\ \A l \in 0 .. n : Number([k \in 1 .. l |-> s[k]]) = (code \div Power(n - l)) % Power(l)
  <2>1. code \in Int
    OBVIOUS
  <2> QED
    BY <2>1, NumberOfLowBits, Zenon
<1> HIDE DEF s
<1>4. n \in Nat
  OBVIOUS
<1>5. /\ s \in Seq(Bits)
      /\ \A l \in 0 .. n : GetBits(s \o t, l) = [k \in 1 .. l |-> s[k]]
      /\ DropBits(s \o t, n) = t
  BY <1>3, <1>4, BitsAreRead
<1>6. ASSUME NEW l \in 0 .. n PROVE (code \div Power(n - l)) % Power(l) = code \div Power(n - l)
  <2>1. n - l \in Exponents /\ l \in Exponents /\ n - l \in Nat /\ l \in Nat /\ (n - l) + l = n /\ n \in Exponents
    BY DEF Exponents
  <2> PICK d \in Nat : d = Power(n - l) /\ d > 0
    BY <2>1, PowersAre
  <2> PICK y \in Nat : y = Power(l) /\ y > 0
    BY <2>1, PowersAre
  <2>2. Power((n - l) + l) = Power(n - l) * Power(l)
    BY <2>1, PowerSum
  <2>3. code < d * y
    BY <2>1, <2>2
  <2>4. code \div d \in Nat /\ code \div d < y
    BY <2>3, QuotientIsBelow
  <2> QED
    BY <2>4, SmallRemainder
<1>7. \A l \in 0 .. n : Number(GetBits(s \o t, l)) = code \div Power(n - l)
  BY <1>3, <1>5, <1>6
<1>8. s \o t \in Seq(Bits)
  BY <1>5
<1> QED
  BY <1>5, <1>7, <1>8 DEF s

\* Of a code with anything behind it, what is read and what is left.
LEMMA CodeIsRead ==
  ASSUME Widths, NEW table, NEW p, HasCode(table, p), NEW t \in Seq(Bits)
  PROVE  IsRead(table, p, Code(table, p) \o t, t)
<1>1. table.size[p] \in 1 .. MAX_LENGTH /\ table.code[p] \in Nat /\ table.code[p] < Power(table.size[p])
  BY DEF HasCode
<1> DEFINE n == table.size[p]
           code == table.code[p]
<1>2. n \in 0 .. 16
  <2>1. \A i \in 1 .. MAX_LENGTH : i \in 0 .. 16
    BY DEF Widths
  <2> QED
    BY <1>1, <2>1
<1>3. code \in Nat /\ code < Power(n) /\ Code(table, p) = LowBits(code, n)
  BY <1>1 DEF Code
<1>4. IsRead(table, p, Code(table, p) \o t, t) =
        /\ Code(table, p) \o t \in Seq(Bits)
        /\ \A l \in 0 .. n : Number(GetBits(Code(table, p) \o t, l)) = code \div Power(n - l)
        /\ DropBits(Code(table, p) \o t, n) = t
  BY DEF IsRead
<1> HIDE DEF n, code
<1> QED
  BY <1>2, <1>3, <1>4, LowBitsAreRead

\* jpeg_huff_decode finds it, bit by bit.
LEMMA SlowDecode ==
  ASSUME Widths, NEW table, NEW p, HasCode(table, p), NEW t, NEW rest, IsRead(table, p, rest, t),
         NEW min_bits \in 1 .. table.size[p]
  PROVE  HuffDecodeSlow(table, rest, min_bits) = [place |-> p, rest |-> t]
<1> PICK m \in 1 .. 16 : m = MAX_LENGTH
  BY DEF Widths
<1> PICK n \in 1 .. m : n = table.size[p]
  BY DEF HasCode
<1> PICK code \in Nat : code = table.code[p]
  BY DEF HasCode
<1> DEFINE Fits(l) == Number(GetBits(rest, l)) <= table.maxcode[l]
           fitting == {l \in min_bits .. m : Fits(l)} \cup {m + 1}
<1>1. \A l \in 0 .. n : Number(GetBits(rest, l)) = code \div Power(n - l)
  BY DEF IsRead
<1>2. Number(GetBits(rest, n)) = code
  <2>1. n \in 0 .. n /\ n - n = 0
    OBVIOUS
  <2>2. \A x \in Nat : x \div 1 = x
    OBVIOUS
  <2>3. Power(0) = 1
    BY PowerStep
  <2> QED
    BY <1>1, <2>1, <2>2, <2>3
<1>3. Fits(n)
  BY <1>2 DEF HasCode
<1>4. ASSUME NEW l \in 1 .. n - 1 PROVE ~Fits(l)
  <2>1. l \in 0 .. n
    OBVIOUS
  <2>2. code \div Power(n - l) > table.maxcode[l]
    BY DEF HasCode
  <2>3. code \div Power(n - l) \in Int /\ table.maxcode[l] \in Int
    <3>1. n - l \in Exponents /\ l \in 1 .. m
      BY DEF Exponents
    <3>2. Power(n - l) \in Nat /\ Power(n - l) > 0
      BY <3>1, PowersAre
    <3> QED
      BY <3>1, <3>2, Division DEF HasCode
  <2>4. Number(GetBits(rest, l)) = code \div Power(n - l)
    BY <1>1, <2>1
  <2> QED
    BY <2>2, <2>3, <2>4
<1>5. n \in fitting /\ \A l \in fitting : n <= l
  <2>1. n \in min_bits .. m
    OBVIOUS
  <2>2. ASSUME NEW l \in min_bits .. m, Fits(l) PROVE n <= l
    <3>1. l \in 1 .. m /\ l \notin 1 .. n - 1
      BY <1>4, <2>2
    <3> QED
      BY <3>1
  <2> HIDE DEF Fits
  <2>3. \A l \in fitting : n <= l
    BY <2>2
  <2>4. n \in fitting
    BY <1>3, <2>1
  <2> QED
    BY <2>3, <2>4
<1>6. \A l \in fitting : (\A k \in fitting : l <= k) => l = n
  <2>1. fitting \subseteq Int
    OBVIOUS
  <2> HIDE DEF fitting
  <2> QED
    BY <1>5, <2>1
<1>7. Min(fitting) = n
  <2> HIDE DEF fitting
  <2> QED
    BY <1>5, <1>6 DEF Min
<1>8. HuffDecodeSlow(table, rest, min_bits)
        = [place |-> Number(GetBits(rest, n)) + table.valoffset[n], rest |-> DropBits(rest, n)]
  <2>1. {l \in min_bits .. MAX_LENGTH : Number(GetBits(rest, l)) <= table.maxcode[l]} \cup {MAX_LENGTH + 1}
          = fitting
    OBVIOUS
  <2>2. n \in Int /\ ~(n > MAX_LENGTH)
    OBVIOUS
  <2> HIDE DEF fitting
  <2> QED
    BY <1>7, <2>1, <2>2 DEF HuffDecodeSlow
<1>9. code + table.valoffset[n] = p /\ DropBits(rest, n) = t
  BY DEF HasCode, IsRead
<1> QED
  BY <1>2, <1>8, <1>9

\* The lookahead table holds nothing else for it.
LEMMA FoundAhead ==
  ASSUME Widths, NEW bits \in Counts, Legal(bits), NEW count, UpTo(count, bits),
         NEW p \in 1 .. count[MAX_LENGTH], NEW t \in Seq(Bits), NEW rest,
         IsRead(DeriveTable(bits), p, rest, t), Len(rest) >= HUFF_LOOKAHEAD
  PROVE  DeriveTable(bits).lookahead[Number(GetBits(rest, HUFF_LOOKAHEAD))]
           = IF DeriveTable(bits).size[p] <= HUFF_LOOKAHEAD THEN {p} ELSE {}
<1> PICK m \in 1 .. 16 : m = MAX_LENGTH
  BY DEF Widths
<1> PICK ahead \in 1 .. 16 : ahead = HUFF_LOOKAHEAD
  BY DEF Widths
<1> DEFINE table == DeriveTable(bits)
           Got(l) == Number(GetBits(rest, l))
           look == Got(ahead)
<1>1. \A q \in 1 .. count[m] : HasCode(table, q)
  BY CodeIs
<1>2. IsTable(table, bits, count)
  BY TableIs
<1>3. IsRead(table, p, rest, t)
  OBVIOUS
<1> HIDE DEF table
<1>4. \A q \in 1 .. count[m] :
        /\ table.size[q] \in 1 .. m /\ table.code[q] \in Nat /\ table.maxcode[table.size[q]] \in Int
        /\ \A l \in 1 .. m : table.maxcode[l] \in Int
        /\ table.code[q] <= table.maxcode[table.size[q]]
        /\ table.code[q] + table.valoffset[table.size[q]] = q
        /\ \A l \in 1 .. table.size[q] - 1 : table.code[q] \div Power(table.size[q] - l) > table.maxcode[l]
  BY <1>1 DEF HasCode
<1>5. look \in 0 .. Power(ahead) - 1
      /\ \A l \in 0 .. ahead : Got(l) = look \div Power(ahead - l)
  <2> PICK s : s = GetBits(rest, ahead)
    OBVIOUS
  <2>1. rest \in Seq(Bits) /\ ahead \in 0 .. Len(rest)
    BY <1>3 DEF IsRead
  <2>2. s \in [1 .. ahead -> Bits] /\ s = [k \in 1 .. ahead |-> rest[k]]
    BY <2>1, BitsAreThere
  <2>3. /\ Number(s) \in 0 .. Power(ahead) - 1
        /\ \A l \in 0 .. ahead : Number([k \in 1 .. l |-> s[k]]) = Number(s) \div Power(ahead - l)
    <3>1. ahead \in 0 .. 16
      OBVIOUS
    <3> QED
      BY <2>2, <3>1, NumberOfPrefix
  <2>4. ASSUME NEW l \in 0 .. ahead PROVE GetBits(rest, l) = [k \in 1 .. l |-> s[k]]
    <3>1. l \in 0 .. Len(rest)
      BY <2>1
    <3>2. GetBits(rest, l) = [k \in 1 .. l |-> rest[k]]
      BY <2>1, <3>1, BitsAreThere
    <3>3. \A k \in 1 .. l : s[k] = rest[k]
      BY <2>2
    <3> QED
      BY <3>2, <3>3
  <2> QED
    BY <2>3, <2>4
<1> HIDE DEF look
<1> PICK n \in 1 .. m : n = table.size[p]
  BY <1>4
<1> PICK code \in Nat : code = table.code[p]
  BY <1>4
<1>6. \A l \in 0 .. n : Got(l) = code \div Power(n - l)
  BY <1>3 DEF IsRead
<1> HIDE DEF Got
<1>7. Power(0) = 1 /\ \A x \in Nat : x \div 1 = x
  BY PowerStep
\* Who else would be found has this code.
<1>8. ASSUME NEW q \in 1 .. count[m], table.size[q] <= ahead,
             look \div Power(ahead - table.size[q]) = table.code[q]
      PROVE  q = p
  <2> PICK k \in 1 .. m : k = table.size[q]
    BY <1>4
  <2> PICK other \in Nat : other = table.code[q]
    BY <1>4
  <2>1. k <= ahead /\ Got(k) = other
    <3>1. k <= ahead /\ k \in 0 .. ahead
      BY <1>8
    <3> QED
      BY <1>5, <1>8, <3>1
  <2>2. CASE k < n
    <3>1. k \in 1 .. n - 1 /\ k \in 0 .. n
      BY <2>2
    <3>2. code \div Power(n - k) > table.maxcode[k] /\ other <= table.maxcode[k]
      BY <1>4, <3>1
    <3>3. Got(k) = code \div Power(n - k)
      BY <1>6, <3>1
    <3>4. table.maxcode[k] \in Int => FALSE
      BY <2>1, <3>2, <3>3
    <3> QED
      BY <1>4, <3>4
  <2>3. CASE k = n
    <3>1. n \in 0 .. n /\ n - n = 0
      OBVIOUS
    <3>2. Got(n) = code
      BY <1>6, <1>7, <3>1
    <3>3. other = code
      BY <2>1, <2>3, <3>2
    <3> QED
      BY <1>4, <2>3, <3>3
  <2>4. CASE k > n
    <3>1. n \in 1 .. k - 1 /\ n \in 0 .. ahead /\ n \in 0 .. n /\ n - n = 0 /\ k \in 0 .. ahead
      BY <2>1, <2>4
    <3>2. other \div Power(k - n) > table.maxcode[n] /\ code <= table.maxcode[n]
      BY <1>4, <3>1
    <3>3. Got(n) = code
      BY <1>6, <1>7, <3>1
    <3>4. Got(n) = other \div Power(k - n)
      <4>1. look \in Nat /\ ahead \in 0 .. 16 /\ k \in 0 .. ahead /\ n \in 0 .. k
        <5>1. \A x \in 0 .. Power(ahead) - 1 : x \in Nat
          BY PowersAre DEF Exponents
        <5>2. ahead \in 0 .. 16
          OBVIOUS
        <5>3. \A a \in 1 .. m : \A b \in 1 .. a - 1 : b \in 0 .. a
          OBVIOUS
        <5>4. n \in 0 .. k
          BY <3>1, <5>3, Zenon
        <5>5. look \in Nat
          BY <1>5, <5>1, Zenon
        <5> QED
          BY <3>1, <5>2, <5>4, <5>5
      <4>2. (look \div Power(ahead - k)) \div Power(k - n) = look \div Power(ahead - n)
        BY <4>1, QuotientOfPrefix
      <4>3. Got(n) = look \div Power(ahead - n)
        BY <1>5, <3>1
      <4>4. other = look \div Power(ahead - k)
        BY <1>8
      <4> QED
        BY <4>2, <4>3, <4>4
    <3> QED
      BY <1>4, <3>2, <3>3, <3>4
  <2> QED
    BY <2>2, <2>3, <2>4
\* It has this code, if it is not too long.
<1>9. ASSUME n <= ahead PROVE look \div Power(ahead - n) = code
  <2>1. n \in 0 .. ahead /\ n \in 0 .. n /\ n - n = 0
    BY <1>9
  <2> QED
    BY <1>5, <1>6, <1>7, <2>1
<1>10. ASSUME n > ahead, NEW q \in 1 .. count[m], table.size[q] <= ahead,
              look \div Power(ahead - table.size[q]) = table.code[q]
       PROVE  FALSE
  <2>1. q = p
    BY <1>8, <1>10
  <2> QED
    BY <1>10, <2>1, SMTT(30)
<1>11. table.lookahead[look] =
         {q \in 1 .. count[m] : table.size[q] <= ahead /\ look \div Power(ahead - table.size[q]) = table.code[q]}
  BY <1>2, <1>5 DEF IsTable
<1>12. table.lookahead[look] = IF n <= ahead THEN {p} ELSE {}
  <2>1. CASE n <= ahead
    <3>1. p \in 1 .. count[m] /\ table.size[p] <= ahead /\ look \div Power(ahead - table.size[p]) = table.code[p]
      BY <1>9, <2>1
    <3> QED
      BY <1>8, <1>11, <2>1, <3>1
  <2>2. CASE n > ahead
    <3>1. ~(n <= ahead)
      BY <2>2
    <3> QED
      BY <1>10, <1>11, <2>2, <3>1
  <2> QED
    BY <2>1, <2>2
<1> QED
  BY <1>12 DEF table, look, Got

(***************************************************************************)
(* Whatever codes a legal table assigns, no code begins with another one:  *)
(* jpeg_huff_decode reads back each symbol that was written, and goes on   *)
(* after it; so does the lookahead table in front of it, be there bits     *)
(* enough for it or not.                                                   *)
(***************************************************************************)
THEOREM CodesAreDecoded ==
  ASSUME Widths, NEW bits \in Counts, Legal(bits),
         NEW p \in DOMAIN Sizes(bits), NEW t \in Seq(Bits)
  PROVE  HuffDecode(DeriveTable(bits), Code(DeriveTable(bits), p) \o t) = [place |-> p, rest |-> t]
<1> PICK m \in 1 .. 16 : m = MAX_LENGTH
  BY DEF Widths
<1> PICK ahead \in 1 .. 16 : ahead = HUFF_LOOKAHEAD
  BY DEF Widths
<1> PICK count : UpTo(count, bits)
  BY CountsUp
<1>1. p \in 1 .. count[MAX_LENGTH]
  BY SizesAre
<1> DEFINE table == DeriveTable(bits)
           rest == Code(table, p) \o t
<1>2. HasCode(table, p)
  BY <1>1, CodeIs
<1>3. IsRead(table, p, rest, t)
  BY <1>2, CodeIsRead
<1> PICK n \in 1 .. m : n = table.size[p]
  BY <1>2 DEF HasCode
<1>4. \A min_bits \in 1 .. n : HuffDecodeSlow(table, rest, min_bits) = [place |-> p, rest |-> t]
  <2> HIDE DEF table, rest
  <2> QED
    BY <1>2, <1>3, SlowDecode
<1>5. Len(rest) >= ahead =>
        table.lookahead[Number(GetBits(rest, ahead))] = IF n <= ahead THEN {p} ELSE {}
  BY <1>1, <1>3, FoundAhead
<1>6. p \in Int /\ Max({p}) = p /\ DropBits(rest, n) = t
  BY <1>1, <1>3, LargestIs DEF IsRead
<1> HIDE DEF table, rest
<1>7. CASE Len(rest) < ahead
  <2>1. HuffDecode(table, rest) = HuffDecodeSlow(table, rest, 1)
    BY <1>7 DEF HuffDecode
  <2>2. 1 \in 1 .. n
    OBVIOUS
  <2> QED
    BY <1>4, <2>1, <2>2 DEF table, rest
<1>8. CASE ~(Len(rest) < ahead)
  <2> PICK found : found = table.lookahead[Number(GetBits(rest, ahead))]
    OBVIOUS
  <2>1. HuffDecode(table, rest) =
          IF found = {} THEN HuffDecodeSlow(table, rest, ahead + 1)
          ELSE [place |-> Max(found), rest |-> DropBits(rest, table.size[Max(found)])]
    BY <1>8 DEF HuffDecode
  <2>2. Len(rest) \in Nat
    BY <1>3 DEF IsRead
  <2>3. found = IF n <= ahead THEN {p} ELSE {}
    BY <1>5, <1>8, <2>2
  <2>4. CASE n <= ahead
    <3>1. found = {p} /\ found # {}
      BY <2>3, <2>4
    <3> QED
      BY <1>6, <2>1, <3>1 DEF table, rest
  <2>5. CASE ~(n <= ahead)
    <3>1. found = {} /\ ahead + 1 \in 1 .. n
      BY <2>3, <2>5
    <3> QED
      BY <1>4, <2>1, <3>1 DEF table, rest
  <2> QED
    BY <2>4, <2>5
<1> QED
  BY <1>7, <1>8 DEF table, rest

-----------------------------------------------------------------------------
(* Sendable, and their bits.                                                 *)

\* The values that a block may hold, and their changes.
Sendable == {v \in Int : Abs(v) < Power(16)}

\* How many bits a value takes.
IsMagnitude(n, v) ==
  /\ n \in 0 .. 16
  /\ Abs(v) < Power(n)
  /\ n # 0 => Power(n - 1) <= Abs(v)

\* A value has one magnitude, the number of its bits.
LEMMA MagnitudeIs ==
  ASSUME NEW v \in Sendable
  PROVE  IsMagnitude(Magnitude(v), v)
<1> PICK a \in Nat : a = Abs(v) /\ a < Power(16)
  BY DEF Sendable, Abs
<1> DEFINE Fewest(n) == a < Power(n) /\ \A k \in 0 .. n - 1 : Power(k) <= a
           Reached == {m \in Nat : m <= 16 /\ a < Power(m) => \E n \in 0 .. m : Fewest(n)}
<1>1. 0 \in Reached
  <2>1. 0 .. 0 - 1 = {} /\ 0 \in 0 .. 0
    OBVIOUS
  <2> QED
    BY <2>1
<1>2. ASSUME NEW m \in Nat, m \in Reached PROVE m + 1 \in Reached
  <2> SUFFICES ASSUME m + 1 <= 16, a < Power(m + 1) PROVE \E n \in 0 .. m + 1 : Fewest(n)
    OBVIOUS
  <2>1. \A n \in 0 .. m : n \in 0 .. m + 1
    OBVIOUS
  <2>2. CASE \E k \in 0 .. m : a < Power(k)
    <3> PICK k \in 0 .. m : a < Power(k)
      BY <2>2
    <3>1. a < Power(m)
      <4> DEFINE Above == {i \in Nat : k + i <= m => Power(k) <= Power(k + i)}
      <4>0. \A i \in 0 .. 16 : Power(i) \in Nat
        BY PowersAre DEF Exponents
      <4>1. 0 \in Above
        <5>1. k + 0 = k /\ k \in 0 .. 16
          OBVIOUS
        <5> QED
          BY <4>0, <5>1
      <4>2. ASSUME NEW i \in Nat, i \in Above PROVE i + 1 \in Above
        <5> SUFFICES ASSUME k + (i + 1) <= m PROVE Power(k) <= Power(k + (i + 1))
          OBVIOUS
        <5>1. k + i \in 0 .. 16 /\ k \in 0 .. 16 /\ k + (i + 1) = (k + i) + 1
          OBVIOUS
        <5>2. Power(k + (i + 1)) = 2 * Power(k + i) /\ Power(k + i) \in Nat /\ Power(k) \in Nat
          BY <4>0, <5>1, PowerStep
        <5> QED
          BY <4>2, <5>2
      <4>3. m - k \in Above
        <5>1. m - k \in Nat
          OBVIOUS
        <5> HIDE DEF Above
        <5> QED
          BY <4>1, <4>2, <5>1, SetInduction
      <4>4. Power(k) <= Power(m) /\ Power(k) \in Nat /\ Power(m) \in Nat
        <5>1. k + (m - k) = m /\ m - k \in Nat /\ k \in 0 .. 16 /\ m \in 0 .. 16
          OBVIOUS
        <5> QED
          BY <4>0, <4>3, <5>1
      <4> QED
        BY <4>4
    <3> QED
      BY <1>2, <2>1, <3>1
  <2>3. CASE ~\E k \in 0 .. m : a < Power(k)
    <3>1. (m + 1) - 1 = m /\ m + 1 \in 0 .. m + 1
      OBVIOUS
    <3>2. \A k \in 0 .. m : Power(k) \in Nat
      <4>1. \A k \in 0 .. m : k \in Exponents
        BY DEF Exponents
      <4> QED
        BY <4>1, PowersAre
    <3>3. \A k \in 0 .. m : Power(k) <= a
      BY <2>3, <3>2
    <3>4. Fewest(m + 1)
      BY <3>1, <3>3
    <3> HIDE DEF Fewest
    <3> QED
      BY <3>1, <3>4
  <2> QED
    BY <2>2, <2>3
<1>3. 16 \in Reached
  <2> HIDE DEF Reached
  <2> QED
    BY <1>1, <1>2, SetInduction
<1> PICK n \in 0 .. 16 : Fewest(n)
  BY <1>3
<1>4. n \in 0 .. a
  <2>1. CASE n = 0
    BY <2>1
  <2>2. CASE n # 0
    <3>1. n - 1 \in 0 .. n - 1 /\ n - 1 \in Exponents
      BY <2>2 DEF Exponents
    <3>2. Power(n - 1) > n - 1 /\ Power(n - 1) \in Nat
      BY <3>1, PowersAre
    <3> QED
      BY <3>1, <3>2
  <2> QED
    BY <2>1, <2>2
<1> DEFINE l == CHOOSE i \in 0 .. a : Fewest(i)
<1>5. Magnitude(v) = l
  BY DEF Magnitude, Power
<1>6. l \in 0 .. a /\ Fewest(l)
  BY <1>4
<1> HIDE DEF l
<1>7. l <= n
  <2>1. ASSUME l > n PROVE FALSE
    <3>1. n \in 0 .. l - 1
      BY <1>6, <2>1
    <3>2. n \in Exponents
      BY DEF Exponents
    <3>3. Power(n) <= a /\ a < Power(n) /\ Power(n) \in Nat
      BY <1>6, <3>1, <3>2, PowersAre
    <3> QED
      BY <3>3
  <2> QED
    BY <1>6, <2>1
<1>8. l \in 0 .. 16 /\ (l # 0 => l - 1 \in 0 .. l - 1)
  BY <1>6, <1>7
<1> QED
  BY <1>5, <1>6, <1>8 DEF IsMagnitude

\* The remainder of a negative value.
LEMMA RemainderBelowZero ==
  ASSUME NEW d \in Nat, d > 0, NEW x \in Int, x < 0, -d <= x
  PROVE  x % d = x + d
<1>1. x + d \in 0 .. d - 1 /\ d * (-1) + (x + d) = x
  <2>1. d * (-1) = -d
    OBVIOUS
  <2> QED
    BY <2>1
<1>2. -1 \in Int
  OBVIOUS
<1> PICK q \in Int : q = -1
  BY <1>2
<1> PICK r \in 0 .. d - 1 : r = x + d
  BY <1>1
<1>3. (d * q + r) % d = r
  BY DivisionIs
<1>4. d * q + r = x
  BY <1>1
<1> QED
  BY <1>3, <1>4

\* HUFF_EXTEND, of a value's low bits.
LEMMA LowBitsAreExtended ==
  ASSUME NEW n \in 1 .. 16, NEW v \in Int, Abs(v) < Power(n), Power(n - 1) <= Abs(v)
  PROVE  Extend((IF v < 0 THEN v - 1 ELSE v) % Power(n), n) = v
<1>1. n \in Exponents /\ n - 1 \in Exponents
  BY DEF Exponents
<1> PICK d \in Nat : d = Power(n) /\ d > 0
  BY <1>1, PowersAre
<1> PICK e \in Nat : e = Power(n - 1) /\ d = 2 * e
  BY <1>1, PowersAre
<1>2. \A x : Extend(x, n) = IF x < e THEN x - d + 1 ELSE x
  BY DEF Extend, Power
<1>3. CASE v < 0
  <2>1. -d <= v - 1 /\ v <= -e /\ v - 1 < 0 /\ v - 1 \in Int
    BY <1>3 DEF Abs
  <2> PICK x \in Int : x = v - 1
    BY <2>1
  <2>2. x % d = x + d
    BY <2>1, RemainderBelowZero
  <2>3. (v - 1) % d = (v - 1) + d
    BY <2>2
  <2>4. Extend((v - 1) % d, n) = ((v - 1) + d) - d + 1
    BY <1>2, <2>1, <2>3
  <2>5. (IF v < 0 THEN v - 1 ELSE v) = v - 1 /\ ((v - 1) + d) - d + 1 = v
    BY <1>3
  <2> QED
    BY <2>4, <2>5
<1>4. CASE ~(v < 0)
  <2>1. v \in Nat /\ v < d /\ ~(v < e)
    BY <1>4 DEF Abs
  <2>2. v % d = v
    BY <2>1, SmallRemainder
  <2> QED
    BY <1>2, <1>4, <2>1, <2>2
<1> QED
  BY <1>3, <1>4

\* A value comes back from its bits.
IsValueRead(v, rest, t) ==
  /\ rest \in Seq(Bits)
  /\ Value(rest, Magnitude(v)) = [value |-> v, rest |-> t]

\* HUFF_EXTEND makes of the bits of a value the value.
LEMMA ValueIsRead ==
  ASSUME NEW v \in Sendable, NEW t \in Seq(Bits)
  PROVE  IsValueRead(v, ValueBits(v) \o t, t)
<1> DEFINE w == IF v < 0 THEN v - 1 ELSE v
           s == ValueBits(v)
<1> PICK n \in 0 .. 16 : n = Magnitude(v)
  BY MagnitudeIs DEF IsMagnitude
<1>1. v \in Int /\ w \in Int /\ Abs(v) < Power(n) /\ (n # 0 => Power(n - 1) <= Abs(v))
  BY MagnitudeIs DEF IsMagnitude, Sendable
<1>2. s = LowBits(w, n)
  BY DEF ValueBits
<1> HIDE DEF w, s
<1>3. /\ s \in [1 .. n -> Bits]
      /\ \A m \in 0 .. n : Number([k \in 1 .. m |-> s[k]]) = (w \div Power(n - m)) % Power(m)
  <2>1. w \in Int
    BY <1>1
  <2>2. n \in 0 .. 16
    OBVIOUS
  <2>3. /\ LowBits(w, n) \in [1 .. n -> Bits]
        /\ \A m \in 0 .. n : Number([k \in 1 .. m |-> LowBits(w, n)[k]]) = (w \div Power(n - m)) % Power(m)
    BY <2>1, <2>2, NumberOfLowBits, Zenon
  <2> QED
    BY <1>2, <2>3
<1>4. /\ s \in Seq(Bits)
      /\ \A l \in 0 .. n : GetBits(s \o t, l) = [k \in 1 .. l |-> s[k]]
      /\ DropBits(s \o t, n) = t
  <2>1. n \in Nat
    OBVIOUS
  <2> QED
    BY <1>3, <2>1, BitsAreRead
<1>5. s \o t \in Seq(Bits)
  BY <1>4
<1>6. CASE n = 0
  <2>1. Power(0) = 1
    BY PowerStep
  <2>2. v = 0
    BY <1>1, <1>6, <2>1 DEF Abs
  <2> QED
    BY <1>4, <1>5, <1>6, <2>2 DEF IsValueRead, Value, s
<1>7. CASE n # 0
  <2>1. n \in 0 .. n /\ n \in 1 .. 16 /\ n - n = 0
    BY <1>7
  <2>2. \A x \in Int : x \div 1 = x
    OBVIOUS
  <2>3. Power(0) = 1
    BY PowerStep
  <2>4. Number(GetBits(s \o t, n)) = w % Power(n)
    <3>1. Number(GetBits(s \o t, n)) = (w \div Power(n - n)) % Power(n)
      BY <1>3, <1>4, <2>1
    <3>2. w \div Power(n - n) = w
      BY <1>1, <2>1, <2>2, <2>3
    <3> QED
      BY <3>1, <3>2
  <2>5. Extend(w % Power(n), n) = v
    BY <1>1, <1>7, <2>1, LowBitsAreExtended DEF w
  <2>6. Value(s \o t, n) = [value |-> v, rest |-> t]
    BY <1>4, <1>7, <2>4, <2>5 DEF Value
  <2> QED
    BY <1>5, <2>6 DEF IsValueRead, s
<1> QED
  BY <1>6, <1>7

-----------------------------------------------------------------------------
(* A coefficient.                                                          *)

\* A code that is read back.
IsSymbol(table, p) ==
  /\ Code(table, p) \in Seq(Bits)
  /\ \A t \in Seq(Bits) : HuffDecode(table, Code(table, p) \o t) = [place |-> p, rest |-> t]

\* Each symbol of a table is read back.
LEMMA SymbolIs ==
  ASSUME Widths, NEW bits \in Counts, Legal(bits), NEW p \in DOMAIN Sizes(bits)
  PROVE  IsSymbol(DeriveTable(bits), p)
<1> PICK m \in 1 .. 16 : m = MAX_LENGTH
  BY DEF Widths
<1> PICK count : UpTo(count, bits)
  BY CountsUp
<1> DEFINE table == DeriveTable(bits)
<1>1. p \in 1 .. count[MAX_LENGTH]
  BY SizesAre
<1>2. HasCode(table, p)
  BY <1>1, CodeIs
<1>3. \A t \in Seq(Bits) : HuffDecode(table, Code(table, p) \o t) = [place |-> p, rest |-> t]
  BY CodesAreDecoded
<1> HIDE DEF table
<1> PICK n \in 0 .. 16 : n = table.size[p]
  BY <1>2 DEF HasCode
<1> PICK code \in Int : code = table.code[p]
  BY <1>2 DEF HasCode
<1>4. LowBits(code, n) \in [1 .. n -> Bits]
  BY NumberOfLowBits, Zenon
<1>5. Code(table, p) = LowBits(code, n)
  BY DEF Code
<1>6. Code(table, p) \in Seq(Bits)
  BY <1>4, <1>5
<1> QED
  BY <1>3, <1>6 DEF IsSymbol, table

\* Codes for all runs, before values of up to m bits.
Runs == RUN > 1
IsCoder(table, m) == m \in 0 .. 16 /\ \A p \in 1 .. RUN * (m + 1) : IsSymbol(table, p)
Fitting(m) == {v \in Sendable : Magnitude(v) <= m}

\* A place holds a run and a size, and gives them back.
LEMMA PlaceOf ==
  ASSUME NEW d \in Nat, d > 0, NEW m \in Nat, NEW run \in 0 .. d - 1, NEW size \in 0 .. m
  PROVE  /\ run + size * d + 1 \in 1 .. d * (m + 1)
         /\ ((run + size * d + 1) - 1) % d = run
         /\ ((run + size * d + 1) - 1) \div d = size
<1>1. size * d <= m * d /\ size * d \in Nat /\ m * d \in Nat /\ d * (m + 1) = m * d + d
  <2>1. (m - size) * d >= 0 /\ (m - size) * d = m * d - size * d
    OBVIOUS
  <2> QED
    BY <2>1
<1>2. (run + size * d + 1) - 1 = d * size + run /\ size \in Int
  BY <1>1
<1>3. (d * size + run) \div d = size /\ (d * size + run) % d = run
  BY <1>2, DivisionIs
<1> QED
  BY <1>1, <1>2, <1>3

\* A symbol is told from its place.
IsRunAndSize(table, run, size) ==
  /\ IsSymbol(table, ACPlace(run, size))
  /\ (ACPlace(run, size) - 1) % RUN = run
  /\ (ACPlace(run, size) - 1) \div RUN = size

\* So does the place of a symbol.
LEMMA RunAndSizeAre ==
  ASSUME Runs, NEW table, NEW m, IsCoder(table, m), NEW run \in 0 .. RUN - 1, NEW size \in 0 .. m
  PROVE  IsRunAndSize(table, run, size)
<1> PICK d \in Nat : d = RUN /\ d > 1
  BY HuffmanAssumption DEF Runs
<1>1. m \in Nat /\ run \in 0 .. d - 1
  BY DEF IsCoder
<1>2. /\ run + size * d + 1 \in 1 .. d * (m + 1)
      /\ ((run + size * d + 1) - 1) % d = run
      /\ ((run + size * d + 1) - 1) \div d = size
  BY <1>1, PlaceOf
<1>3. IsSymbol(table, run + size * d + 1)
  BY <1>2 DEF IsCoder
<1> QED
  BY <1>2, <1>3 DEF IsRunAndSize, ACPlace

-----------------------------------------------------------------------------
(* A step of the decoder.                                                  *)

Act(state, symbol) ==
  Coefficients(state, symbol, (symbol.place - 1) % RUN, (symbol.place - 1) \div RUN)
StepOn(table, state) ==
  IF state.k > DCTSIZE2 THEN state ELSE Act(state, HuffDecode(table, state.rest))

StateAt(k, rest, block) == [k |-> k, rest |-> rest, block |-> block]

Moved(state, k, rest) == [state EXCEPT !.rest = rest, !.k = k]

\* The fields of a state of the decoder.
LEMMA FieldsOf ==
  ASSUME NEW k, NEW rest, NEW block
  PROVE  StateAt(k, rest, block).k = k /\ StateAt(k, rest, block).rest = rest /\ StateAt(k, rest, block).block = block
BY DEF StateAt

\* The state with another place and another rest.
LEMMA MovedIs ==
  ASSUME NEW k, NEW rest, NEW block, NEW x, NEW u
  PROVE  Moved(StateAt(k, rest, block), x, u) = StateAt(x, u, block)
<1> DEFINE s == StateAt(k, rest, block)
           t == [s EXCEPT !.rest = u, !.k = x]
<1>1. DOMAIN s = {"k", "rest", "block"} /\ DOMAIN t = {"k", "rest", "block"}
  BY DEF StateAt
<1>2. t = [f \in DOMAIN s |-> IF f = "k" THEN x ELSE IF f = "rest" THEN u ELSE s[f]]
  OBVIOUS
<1>3. t = StateAt(x, u, block)
  BY <1>1, <1>2 DEF StateAt
<1> QED
  BY <1>3 DEF Moved

\* What is left to read.
Strings == Seq(Bits)

\* It obeys the symbol that it reads.
Obeys(table, run, size, k, u, block) ==
  StepOn(table, StateAt(k, Code(table, ACPlace(run, size)) \o u, block))
    = Coefficients(StateAt(k, Code(table, ACPlace(run, size)) \o u, block),
                   [place |-> ACPlace(run, size), rest |-> u], run, size)

\* The decoder does what the next symbol says.
LEMMA StepOnBy ==
  ASSUME NEW table, NEW run, NEW size, IsRunAndSize(table, run, size), NEW u \in Strings,
         NEW k \in 1 .. DCTSIZE2, NEW block
  PROVE  Obeys(table, run, size, k, u, block)
<1> PICK p : p = ACPlace(run, size)
  OBVIOUS
<1> DEFINE state == StateAt(k, Code(table, p) \o u, block)
           symbol == [place |-> p, rest |-> u]
<1>1. state.k = k /\ state.rest = Code(table, p) \o u
  BY DEF StateAt
<1>2. ~(k > DCTSIZE2)
  BY HuffmanAssumption
<1>3. HuffDecode(table, state.rest) = symbol
  BY <1>1 DEF IsRunAndSize, IsSymbol, Strings
<1>4. (symbol.place - 1) % RUN = run /\ (symbol.place - 1) \div RUN = size
  BY DEF IsRunAndSize
<1> HIDE DEF state, symbol
<1>5. StepOn(table, state) = Coefficients(state, symbol, run, size)
  BY <1>1, <1>2, <1>3, <1>4 DEF StepOn, Act
<1> QED
  BY <1>5 DEF Obeys, state, symbol

\* A symbol of a whole run moves it on.
LEMMA StepOnByRun ==
  ASSUME Runs, NEW table, NEW m, IsCoder(table, m), NEW u \in Strings,
         NEW k \in 1 .. DCTSIZE2, NEW block
  PROVE  StepOn(table, StateAt(k, Code(table, ACPlace(RUN - 1, 0)) \o u, block)) = StateAt(k + RUN, u, block)
<1>1. IsRunAndSize(table, RUN - 1, 0)
  <2>1. RUN - 1 \in 0 .. RUN - 1 /\ 0 \in 0 .. m
    BY HuffmanAssumption DEF Runs, IsCoder
  <2> QED
    BY <2>1, RunAndSizeAre
<1> PICK c : c = Code(table, ACPlace(RUN - 1, 0)) \o u
  OBVIOUS
<1> PICK p : p = ACPlace(RUN - 1, 0)
  OBVIOUS
<1>2. Coefficients(StateAt(k, c, block), [place |-> p, rest |-> u], RUN - 1, 0)
        = Moved(StateAt(k, c, block), StateAt(k, c, block).k + RUN, u)
  BY DEF Coefficients, Moved
<1>3. Moved(StateAt(k, c, block), StateAt(k, c, block).k + RUN, u) = StateAt(k + RUN, u, block)
  BY FieldsOf, MovedIs
<1> QED
  BY <1>1, <1>2, <1>3, StepOnBy DEF Obeys

\* A symbol of the end of a block ends it.
LEMMA StepOnToEnd ==
  ASSUME Runs, NEW table, NEW m, IsCoder(table, m), NEW u \in Strings,
         NEW k \in 1 .. DCTSIZE2, NEW block
  PROVE  StepOn(table, StateAt(k, Code(table, ACPlace(0, 0)) \o u, block)) = StateAt(DCTSIZE2 + 1, u, block)
<1>1. IsRunAndSize(table, 0, 0)
  <2>1. 0 \in 0 .. RUN - 1 /\ 0 \in 0 .. m
    BY HuffmanAssumption DEF Runs, IsCoder
  <2> QED
    BY <2>1, RunAndSizeAre
<1> PICK c : c = Code(table, ACPlace(0, 0)) \o u
  OBVIOUS
<1>2. 0 # RUN - 1
  BY HuffmanAssumption DEF Runs
<1> PICK p : p = ACPlace(0, 0)
  OBVIOUS
<1>3. Coefficients(StateAt(k, c, block), [place |-> p, rest |-> u], 0, 0) = Moved(StateAt(k, c, block), DCTSIZE2 + 1, u)
  BY <1>2 DEF Coefficients, Moved
<1>4. Moved(StateAt(k, c, block), DCTSIZE2 + 1, u) = StateAt(DCTSIZE2 + 1, u, block)
  BY MovedIs
<1> QED
  BY <1>1, <1>3, <1>4, StepOnBy DEF Obeys

Put(block, j, v) == [x \in 1 .. DCTSIZE2 |-> IF x = j THEN v ELSE block[x]]

\* A symbol of a run and a size, and a value, put the value behind the run.
LEMMA StepOnByValue ==
  ASSUME Runs, NEW table, NEW m, IsCoder(table, m), NEW u \in Strings,
         NEW k \in 1 .. DCTSIZE2, NEW block, NEW run \in 0 .. RUN - 1, NEW v \in Fitting(m), v # 0
  PROVE  StepOn(table, StateAt(k, Code(table, ACPlace(run, Magnitude(v))) \o (ValueBits(v) \o u), block))
           = StateAt(k + run + 1, u, Put(block, k + run, v))
<1> PICK size \in 0 .. m : size = Magnitude(v) /\ size > 0
  <2>1. v \in Sendable /\ IsMagnitude(Magnitude(v), v) /\ Magnitude(v) <= m
    BY MagnitudeIs DEF Fitting
  <2>2. Magnitude(v) # 0
    <3>1. Power(0) = 1
      BY PowerStep
    <3>2. Magnitude(v) = 0 => Abs(v) < 1
      BY <2>1, <3>1 DEF IsMagnitude
    <3> QED
      BY <2>1, <3>2 DEF Abs, Sendable
  <2> QED
    BY <2>1, <2>2 DEF IsMagnitude, IsCoder
<1>1. IsRunAndSize(table, run, size)
  BY RunAndSizeAre
<1>2. v \in Sendable
  BY DEF Fitting
<1> PICK w : w = ValueBits(v) \o u
  OBVIOUS
<1>3. w \in Strings /\ Value(w, size) = [value |-> v, rest |-> u]
  BY <1>2, ValueIsRead DEF IsValueRead, Strings
<1>4. StepOn(table, StateAt(k, Code(table, ACPlace(run, size)) \o w, block))
        = Coefficients(StateAt(k, Code(table, ACPlace(run, size)) \o w, block),
                       [place |-> ACPlace(run, size), rest |-> w], run, size)
  <2>1. w \in Strings
    BY <1>3
  <2>2. Obeys(table, run, size, k, w, block)
    BY <1>1, <2>1, StepOnBy, Zenon
  <2> QED
    BY <2>2 DEF Obeys
<1> PICK c : c = Code(table, ACPlace(run, size)) \o w
  OBVIOUS
<1> PICK p : p = ACPlace(run, size)
  OBVIOUS
<1>5. Coefficients(StateAt(k, c, block), [place |-> p, rest |-> w], run, size)
        = PutValue(StateAt(k, c, block), run, Value(w, size))
  BY DEF Coefficients
<1>6. PutValue(StateAt(k, c, block), run, [value |-> v, rest |-> u]) = StateAt(k + run + 1, u, Put(block, k + run, v))
  BY DEF PutValue, StateAt, Put
<1> QED
  BY <1>3, <1>4, <1>5, <1>6

\* Strings of bits are put together in any order.
LEMMA StringsJoin ==
  /\ <<>> \in Strings
  /\ \A a \in Strings : <<>> \o a = a /\ a \o <<>> = a
  /\ \A a, b \in Strings : a \o b \in Strings
  /\ \A a, b, c \in Strings : (a \o b) \o c = a \o (b \o c)
<1>1. <<>> \in Seq(Bits) /\ \A a, b \in Seq(Bits) : a \o b \in Seq(Bits)
  OBVIOUS
<1>2. \A a \in Seq(Bits) : <<>> \o a = a /\ a \o <<>> = a
  OBVIOUS
<1>3. \A a, b, c \in Seq(Bits) : (a \o b) \o c = a \o (b \o c)
  OBVIOUS
<1> QED
  BY <1>1, <1>2, <1>3 DEF Strings

\* The same code, several times.
Repeats(f, c, n) ==
  /\ f \in [0 .. n -> Strings] /\ f[0] = <<>>
  /\ \A i \in 1 .. n : f[i] = c \o f[i - 1]
  /\ FlattenSeq([k \in 1 .. n |-> c]) = f[n]

\* A string, repeated.
LEMMA RepeatsUp ==
  ASSUME NEW c \in Strings, NEW n \in Nat
  PROVE  \E f : Repeats(f, c, n)
<1>1. CASE n = 0
  <2> DEFINE f == [i \in 0 .. 0 |-> <<>>]
  <2>1. FlattenSeq([k \in 1 .. 0 |-> c]) = <<>>
    <3>1. [k \in 1 .. 0 |-> c] = <<>>
      OBVIOUS
    <3> QED
      BY <3>1 DEF FlattenSeq
  <2>2. Repeats(f, c, 0)
    BY <2>1, StringsJoin DEF Repeats
  <2> QED
    BY <1>1, <2>2
<1>2. CASE n # 0
  <2> DEFINE seqs == [k \in 1 .. n |-> c]
  <2>1. n \in Nat \ {0} /\ seqs \in [1 .. n -> Seq(Bits)]
    BY <1>2 DEF Strings
  <2>2. \A k \in 1 .. n : seqs[k] = c
    OBVIOUS
  <2> HIDE DEF seqs
  <2> PICK f : JoinsUp(f, Bits, n, seqs)
    BY <2>1, Flattened
  <2>3. /\ f \in [0 .. n -> Strings] /\ f[0] = <<>> /\ FlattenSeq(seqs) = f[n]
        /\ \A i \in 1 .. n : f[i] = f[i - 1] \o c
    BY <2>2 DEF JoinsUp, Strings
  <2> DEFINE Same == {i \in Nat : i + 1 <= n => f[i + 1] = c \o f[i]}
  <2>4. 0 \in Same
    <3>1. 0 + 1 \in 1 .. n /\ (0 + 1) - 1 = 0
      BY <2>1
    <3>2. f[0 + 1] = f[0] \o c
      BY <2>3, <3>1
    <3>3. f[0] \o c = c \o f[0]
      BY <2>3, StringsJoin
    <3> QED
      BY <3>2, <3>3
  <2>5. ASSUME NEW i \in Nat, i \in Same PROVE i + 1 \in Same
    <3> SUFFICES ASSUME (i + 1) + 1 <= n PROVE f[(i + 1) + 1] = c \o f[i + 1]
      OBVIOUS
    <3>1. i + 1 \in 1 .. n /\ (i + 1) + 1 \in 1 .. n /\ ((i + 1) + 1) - 1 = i + 1 /\ (i + 1) - 1 = i /\ i \in 0 .. n
      OBVIOUS
    <3>2. f[(i + 1) + 1] = f[i + 1] \o c /\ f[i + 1] = f[i] \o c /\ f[i] \in Strings
      <4>1. \A k \in 0 .. n : f[k] \in Strings
        BY <2>3
      <4>2. \A k \in 1 .. n : f[k] = f[k - 1] \o c
        BY <2>3
      <4>3. f[(i + 1) + 1] = f[((i + 1) + 1) - 1] \o c /\ f[i + 1] = f[(i + 1) - 1] \o c
        BY <3>1, <4>2
      <4> QED
        BY <3>1, <4>1, <4>3
    <3>4. f[i + 1] = c \o f[i]
      BY <2>5, <3>1
    <3>3. (c \o f[i]) \o c = c \o (f[i] \o c)
      BY <3>2, StringsJoin
    <3> QED
      BY <3>2, <3>3, <3>4
  <2>6. \A i \in Nat : i \in Same
    <3> HIDE DEF Same
    <3> QED
      BY <2>4, <2>5, SetInduction
  <2>7. ASSUME NEW i \in 1 .. n PROVE f[i] = c \o f[i - 1]
    <3>1. i - 1 \in Nat /\ (i - 1) + 1 = i /\ i <= n
      OBVIOUS
    <3> QED
      BY <2>6, <3>1
  <2>8. Repeats(f, c, n)
    BY <2>3, <2>7 DEF Repeats, seqs
  <2> QED
    BY <2>8
<1> QED
  BY <1>1, <1>2

-----------------------------------------------------------------------------
(* From state to state of the decoder.                                     *)

Path(d, table, i, s, t) ==
  /\ d = [j \in 0 .. i |-> d[j]]
  /\ d[0] = s /\ d[i] = t
  /\ \A j \in 1 .. i : d[j] = StepOn(table, d[j - 1])
Leads(table, i, s, t) == \E d : Path(d, table, i, s, t)

\* No step leads nowhere.
LEMMA LeadsNowhere ==
  ASSUME NEW table, NEW s
  PROVE  Leads(table, 0, s, s)
<1> DEFINE d == [j \in 0 .. 0 |-> s]
<1>1. Path(d, table, 0, s, s)
  BY DEF Path
<1> QED
  BY <1>1 DEF Leads

\* One step more.
LEMMA LeadsOn ==
  ASSUME NEW table, NEW i \in Nat, NEW s, NEW t, Leads(table, i, s, t)
  PROVE  Leads(table, i + 1, s, StepOn(table, t))
<1> PICK d : Path(d, table, i, s, t)
  BY DEF Leads
<1> DEFINE e == [j \in 0 .. i + 1 |-> IF j = i + 1 THEN StepOn(table, t) ELSE d[j]]
<1>1. e[0] = s /\ e[i + 1] = StepOn(table, t) /\ e = [j \in 0 .. i + 1 |-> e[j]]
  BY DEF Path
<1>2. ASSUME NEW j \in 1 .. i + 1 PROVE e[j] = StepOn(table, e[j - 1])
  <2>1. j - 1 \in 0 .. i + 1 /\ j - 1 # i + 1 /\ j \in 0 .. i + 1
    OBVIOUS
  <2>2. e[j - 1] = d[j - 1]
    BY <2>1
  <2>3. CASE j = i + 1
    <3>1. j - 1 = i /\ e[j] = StepOn(table, t) /\ d[i] = t
      BY <2>1, <2>3 DEF Path
    <3> QED
      BY <2>2, <3>1
  <2>4. CASE j # i + 1
    <3>1. j \in 1 .. i /\ e[j] = d[j]
      BY <2>1, <2>4
    <3> QED
      BY <2>2, <3>1 DEF Path
  <2> QED
    BY <2>3, <2>4
<1> HIDE DEF e
<1>3. Path(e, table, i + 1, s, StepOn(table, t))
  BY <1>1, <1>2 DEF Path
<1> QED
  BY <1>3 DEF Leads

\* Where the decoder begins, after the difference.
Begun(last_dc_val, diff) == StateAt(2, diff.rest, [Zeros(DCTSIZE2) EXCEPT ![1] = last_dc_val + diff.value])
Differ(dc) == Value(dc.rest, dc.place - 1)

\* It stops where the path stops.
LEMMA DecodesTo ==
  ASSUME NEW table, NEW data, NEW last_dc_val, NEW t,
         Leads(table, DCTSIZE2 - 1, Begun(last_dc_val, Differ(HuffDecode(table, data))), t),
         StepOn(table, t) = t
  PROVE  DecodeBlock(table, data, last_dc_val) = t
<1> PICK n \in Nat : n = DCTSIZE2 - 1
  BY HuffmanAssumption
<1> DEFINE begin == Begun(last_dc_val, Differ(HuffDecode(table, data)))
           seq == [k \in 1 .. n |-> k]
           Fold(g) == g = [x \in SUBSET (DOMAIN seq) |->
                             IF x = {} THEN begin ELSE StepOn(table, g[x \ {Max(x)}])]
           folded == CHOOSE g : Fold(g)
<1>1. DecodeBlock(table, data, last_dc_val) = folded[DOMAIN seq]
  BY DEF DecodeBlock, FoldLeft, MapThenFoldSet, StepOn, Act, Begun, Differ, StateAt
<1>2. DOMAIN seq = 1 .. n
  OBVIOUS
<1> HIDE DEF folded, seq, begin
<1> PICK d : Path(d, table, n, begin, t)
  BY DEF Leads, begin
<1> DEFINE S == {d[j] : j \in 0 .. n}
           step == [i \in 1 .. n |-> [s \in S |-> StepOn(table, s)]]
<1>3. d \in [0 .. n -> S] /\ begin \in S /\ d[0] = begin /\ d[n] = t
  BY DEF Path
<1>4. ASSUME NEW s \in S PROVE StepOn(table, s) \in S
  <2> PICK j \in 0 .. n : s = d[j]
    OBVIOUS
  <2>1. CASE j = n
    BY <1>3, <2>1
  <2>2. CASE j # n
    <3>1. j + 1 \in 1 .. n /\ (j + 1) - 1 = j /\ j + 1 \in 0 .. n
      BY <2>2
    <3>2. d[j + 1] = StepOn(table, d[j])
      BY <3>1 DEF Path
    <3> QED
      BY <3>1, <3>2
  <2> QED
    BY <2>1, <2>2
<1> HIDE DEF S
<1>5. step \in Steps(S, n)
  BY <1>4 DEF Steps
<1>6. \A i \in 1 .. n : \A s \in S : step[i][s] = StepOn(table, s)
  OBVIOUS
<1> HIDE DEF step
<1>7. \E g : Fold(g)
  <2> PICK g : FoldOf(g, S, n, begin, step)
    BY <1>3, <1>5, FoldExists, Zenon
  <2>1. ASSUME NEW x \in SUBSET (1 .. n), x # {}
        PROVE  step[Max(x)][g[x \ {Max(x)}]] = StepOn(table, g[x \ {Max(x)}])
    <3>1. Max(x) \in 1 .. n
      BY <2>1, LargestIn
    <3>2. g[x \ {Max(x)}] \in S
      BY DEF FoldOf
    <3> QED
      BY <1>6, <3>1, <3>2
  <2>2. \A x \in SUBSET (1 .. n) : g[x] = IF x = {} THEN begin ELSE StepOn(table, g[x \ {Max(x)}])
    BY <2>1 DEF FoldOf
  <2>3. g = [x \in SUBSET (1 .. n) |-> g[x]]
    BY DEF FoldOf
  <2>4. Fold(g)
    BY <1>2, <2>2, <2>3
  <2> QED
    BY <2>4
<1>8. Fold(folded)
  BY <1>7 DEF folded
<1>9. \A x \in SUBSET (1 .. n) : folded[x] = IF x = {} THEN begin ELSE StepOn(table, folded[x \ {Max(x)}])
  BY <1>2, <1>8
<1> HIDE DEF Fold
<1>10. folded[{}] = begin
  BY <1>9
<1>11. ASSUME NEW i \in 1 .. n, folded[1 .. i - 1] \in S
       PROVE  folded[1 .. i] = step[i][folded[1 .. i - 1]]
  <2>1. 1 .. i \in SUBSET (1 .. n) /\ 1 .. i # {} /\ i \in Nat \ {0}
    OBVIOUS
  <2>2. Max(1 .. i) = i /\ (1 .. i) \ {i} = 1 .. i - 1
    BY <2>1, LargestIs
  <2>3. folded[1 .. i] = StepOn(table, folded[1 .. i - 1])
    BY <1>9, <2>1, <2>2
  <2> QED
    BY <1>6, <1>11, <2>3
<1>12. Follows(folded, S, n, begin, step)
  BY <1>10, <1>11 DEF Follows
<1>13. RunOf(d, S, n, begin, step)
  <2>1. ASSUME NEW i \in 1 .. n PROVE d[i] = step[i][d[i - 1]]
    <3>1. i - 1 \in 0 .. n
      OBVIOUS
    <3>2. d[i - 1] \in S /\ d[i] = StepOn(table, d[i - 1])
      BY <1>3, <3>1 DEF Path
    <3> QED
      BY <1>6, <3>2
  <2> QED
    BY <1>3, <2>1 DEF RunOf
<1>14. Agree(folded, d, n)
  BY <1>3, <1>5, <1>12, <1>13, FoldIs, Zenon
<1> QED
  BY <1>1, <1>2, <1>3, <1>14 DEF Agree

-----------------------------------------------------------------------------
(* What is sent, and how far it is decoded.                                *)

\* What encode_one_block writes for a coefficient with a run of zeros before it.
Sent(run, out) == [run |-> run, out |-> out]
Encoded(table, state, v) ==
  IF v = 0 THEN [state EXCEPT !.run = @ + 1]
  ELSE [run |-> 0,
        out |-> state.out
          \o FlattenSeq([k \in 1 .. state.run \div RUN |-> Code(table, ACPlace(RUN - 1, 0))])
          \o Code(table, ACPlace(state.run % RUN, Magnitude(v)))
          \o ValueBits(v)]

\* The first coefficients of a block.
Upto(block, k) == [x \in 1 .. DCTSIZE2 |-> IF x < k THEN block[x] ELSE 0]

\* One coefficient more, zero or not.
LEMMA UptoIs ==
  ASSUME NEW block, NEW k \in Nat, NEW j \in Nat, k <= j, \A x \in k .. j - 1 : block[x] = 0
  PROVE  /\ Upto(block, k) = Upto(block, j)
         /\ Put(Upto(block, k), j, block[j]) = Upto(block, j + 1)
<1> PICK d \in Nat : d = DCTSIZE2
  BY HuffmanAssumption
<1>1. Upto(block, k) = Upto(block, j)
  <2>1. \A x \in 1 .. d : (IF x < k THEN block[x] ELSE 0) = IF x < j THEN block[x] ELSE 0
    OBVIOUS
  <2> QED
    BY <2>1 DEF Upto
<1>2. Put(Upto(block, k), j, block[j]) = Upto(block, j + 1)
  <2>1. \A x \in 1 .. d : Upto(block, k)[x] = IF x < k THEN block[x] ELSE 0
    BY DEF Upto
  <2>2. \A x \in 1 .. d : (IF x = j THEN block[j] ELSE Upto(block, k)[x]) = IF x < j + 1 THEN block[x] ELSE 0
    <3> SUFFICES ASSUME NEW x \in 1 .. d
                 PROVE  (IF x = j THEN block[j] ELSE Upto(block, k)[x]) = IF x < j + 1 THEN block[x] ELSE 0
      OBVIOUS
    <3>1. x = j \/ x < k \/ x \in k .. j - 1 \/ x > j
      OBVIOUS
    <3> QED
      BY <2>1, <3>1
  <2> QED
    BY <2>2 DEF Upto, Put
<1> QED
  BY <1>1, <1>2

\* All coefficients.
LEMMA UptoLast ==
  ASSUME NEW block \in [1 .. DCTSIZE2 -> Int]
  PROVE  Upto(block, DCTSIZE2 + 1) = block
<1>1. \A d \in Nat : \A x \in 1 .. d : x < d + 1
  OBVIOUS
<1> QED
  BY <1>1, HuffmanAssumption DEF Upto

\* However they are put together.
Associate(a, b, c) == (a \o b) \o c = a \o (b \o c)
AllAssociate(o, g, e, x, u) == (((o \o g) \o e) \o x) \o u = o \o (g \o (e \o (x \o u)))

\* Five strings, however they are put together.
LEMMA FiveJoined ==
  ASSUME NEW o \in Strings, NEW g \in Strings, NEW e \in Strings, NEW x \in Strings, NEW u \in Strings
  PROVE  AllAssociate(o, g, e, x, u)
<1>1. \A a, b, c \in Strings : Associate(a, b, c)
  BY StringsJoin DEF Associate
<1>2. \A a, b \in Strings : a \o b \in Strings
  BY StringsJoin
<1>3. o \o g \in Strings /\ x \o u \in Strings
  BY <1>2
<1>4. (o \o g) \o e \in Strings /\ e \o (x \o u) \in Strings
  BY <1>2, <1>3
<1>5. Associate((o \o g) \o e, x, u)
  BY <1>1, <1>4
<1>6. Associate(o \o g, e, x \o u)
  BY <1>1, <1>3
<1>7. Associate(o, g, e \o (x \o u))
  BY <1>1, <1>4
<1> QED
  BY <1>5, <1>6, <1>7 DEF Associate, AllAssociate

\* The bits of a value are bits.
LEMMA ValueBitsAre ==
  ASSUME NEW v \in Sendable
  PROVE  ValueBits(v) \in Strings
<1>1. \A n \in 0 .. 16, w \in Int : LowBits(w, n) \in Seq(Bits)
  <2> SUFFICES ASSUME NEW n \in 0 .. 16, NEW w \in Int PROVE LowBits(w, n) \in Seq(Bits)
    OBVIOUS
  <2>1. LowBits(w, n) \in [1 .. n -> Bits]
    BY NumberOfLowBits, Zenon
  <2> QED
    BY <2>1
<1>2. (IF v < 0 THEN v - 1 ELSE v) \in Int /\ Magnitude(v) \in 0 .. 16
  BY MagnitudeIs DEF IsMagnitude, Sendable
<1> QED
  BY <1>1, <1>2 DEF ValueBits, Strings

\* The decoder has the coefficients up to the last one that was not zero,
\* whatever follows.
Arrives(table, block, i, o, k, u) ==
  Leads(table, i, StateAt(2, o \o u, Upto(block, 2)), StateAt(k, u, Upto(block, k)))
Done(table, block, j, run, o) ==
  /\ run \in 0 .. j /\ o \in Strings
  /\ \A x \in 2 + j - run .. j + 1 : block[x] = 0
  /\ \A u \in Strings : \E i \in 0 .. j - run : Arrives(table, block, i, o, 2 + j - run, u)

\* Before the first of the other coefficients nothing is written, nothing done.
LEMMA DoneAtFirst ==
  ASSUME NEW table, NEW block
  PROVE  Done(table, block, 0, 0, <<>>)
<1>1. ASSUME NEW u \in Strings PROVE Arrives(table, block, 0, <<>>, 2, u)
  <2>1. <<>> \o u = u
    BY StringsJoin
  <2> QED
    BY <2>1, LeadsNowhere DEF Arrives
<1>2. 0 \in 0 .. 0 /\ 2 + 0 - 0 = 2 /\ 2 .. 0 + 1 = {} /\ 0 - 0 = 0
  OBVIOUS
<1> QED
  BY <1>1, <1>2, StringsJoin DEF Done

\* A zero is written with what comes after it.
LEMMA DoneWithZero ==
  ASSUME NEW table, NEW block, NEW j \in Nat, NEW run, NEW o, Done(table, block, j, run, o),
         block[j + 2] = 0
  PROVE  Done(table, block, j + 1, run + 1, o)
<1>1. run \in 0 .. j /\ run + 1 \in 0 .. j + 1
  BY DEF Done
<1>2. 2 + (j + 1) - (run + 1) = 2 + j - run /\ (j + 1) - (run + 1) = j - run
  BY <1>1
<1>3. ASSUME NEW x \in 2 + j - run .. (j + 1) + 1 PROVE block[x] = 0
  <2>1. x \in 2 + j - run .. j + 1 \/ x = j + 2
    BY <1>1
  <2> QED
    BY <2>1 DEF Done
<1> QED
  BY <1>1, <1>2, <1>3 DEF Done

\* A run of zeros before a value.
LEMMA RunsAreDecoded ==
  ASSUME Runs, NEW table, NEW m, IsCoder(table, m), NEW block, NEW q \in Nat, NEW f,
         Repeats(f, Code(table, ACPlace(RUN - 1, 0)), q), NEW w \in Strings,
         NEW k \in Nat, k > 0, k + q * RUN <= DCTSIZE2, NEW i \in Nat, NEW s,
         Leads(table, i, s, StateAt(k, f[q] \o w, block))
  PROVE  Leads(table, i + q, s, StateAt(k + q * RUN, w, block))
<1> PICK r \in Nat : r = RUN /\ r > 1
  BY HuffmanAssumption DEF Runs
<1> PICK d \in Nat : d = DCTSIZE2
  BY HuffmanAssumption
<1> PICK c : c = Code(table, ACPlace(RUN - 1, 0))
  OBVIOUS
<1>0. c \in Strings
  <2>1. RUN - 1 \in 0 .. RUN - 1 /\ 0 \in 0 .. m
    BY DEF IsCoder
  <2> QED
    BY <2>1, RunAndSizeAre DEF IsRunAndSize, IsSymbol, Strings
<1>1. /\ \A z \in 0 .. q : f[z] \in Strings
      /\ f[0] = <<>>
      /\ \A z \in 1 .. q : f[z] = c \o f[z - 1]
  BY DEF Repeats
<1> DEFINE Led == {z \in Nat : z <= q => Leads(table, i + z, s, StateAt(k + z * r, f[q - z] \o w, block))}
<1>2. 0 \in Led
  <2>1. i + 0 = i /\ k + 0 * r = k /\ q - 0 = q
    OBVIOUS
  <2> QED
    BY <2>1
<1>3. ASSUME NEW z \in Nat, z \in Led PROVE z + 1 \in Led
  <2> SUFFICES ASSUME z + 1 <= q
               PROVE  Leads(table, i + (z + 1), s, StateAt(k + (z + 1) * r, f[q - (z + 1)] \o w, block))
    OBVIOUS
  <2> PICK y \in 0 .. q : y = q - (z + 1)
    OBVIOUS
  <2>1. q - z \in 1 .. q /\ (q - z) - 1 = y /\ i + (z + 1) = (i + z) + 1 /\ i + z \in Nat
    OBVIOUS
  <2>2. f[q - z] = c \o f[y] /\ f[y] \in Strings
    <3>1. f[q - z] = c \o f[(q - z) - 1]
      BY <1>1, <2>1, Zenon
    <3>2. f[y] \in Strings
      BY <1>1
    <3> QED
      BY <2>1, <3>1, <3>2
  <2>3. f[q - z] \o w = c \o (f[y] \o w) /\ f[y] \o w \in Strings
    <3> PICK g \in Strings : g = f[y]
      BY <2>2
    <3>1. (c \o g) \o w = c \o (g \o w) /\ g \o w \in Strings
      BY <1>0, StringsJoin
    <3>2. f[q - z] = c \o g
      BY <2>2
    <3> QED
      BY <3>1, <3>2
  <2>4. k + z * r \in 1 .. d /\ (k + z * r) + r = k + (z + 1) * r
    <3>1. z * r \in Nat /\ (z + 1) * r = z * r + r /\ (z + 1) * r <= q * r
      <4>1. (q - (z + 1)) * r >= 0
        OBVIOUS
      <4>2. (q - (z + 1)) * r = q * r - (z + 1) * r /\ (z + 1) * r = z * r + r /\ z * r \in Nat
        OBVIOUS
      <4> QED
        BY <4>1, <4>2
    <3>2. q * r \in Nat /\ k + q * r <= d
      OBVIOUS
    <3> QED
      BY <3>1, <3>2
  <2>5. Leads(table, i + z, s, StateAt(k + z * r, c \o (f[y] \o w), block))
    <3>1. z <= q
      OBVIOUS
    <3>2. Leads(table, i + z, s, StateAt(k + z * r, f[q - z] \o w, block))
      BY <1>3, <3>1
    <3> QED
      BY <2>3, <3>2
  <2>6. StepOn(table, StateAt(k + z * r, c \o (f[y] \o w), block)) = StateAt((k + z * r) + r, f[y] \o w, block)
    BY <2>3, <2>4, StepOnByRun
  <2>7. Leads(table, (i + z) + 1, s, StateAt((k + z * r) + r, f[y] \o w, block))
    BY <2>1, <2>5, <2>6, LeadsOn
  <2> QED
    BY <2>1, <2>4, <2>7
<1>4. q \in Led
  <2> HIDE DEF Led
  <2> QED
    BY <1>2, <1>3, SetInduction
<1>5. Leads(table, i + q, s, StateAt(k + q * r, f[q - q] \o w, block))
  <2>1. q <= q
    OBVIOUS
  <2> QED
    BY <1>4, <2>1
<1>6. f[q - q] \o w = w
  <2>1. f[q - q] = <<>>
    <3>1. q - q = 0
      OBVIOUS
    <3> QED
      BY <1>1, <3>1
  <2> QED
    BY <2>1, StringsJoin
<1> QED
  BY <1>5, <1>6

\* A value, with a run of zeros before it.
Follow(table, run, v, o) ==
  o \o FlattenSeq([k \in 1 .. run \div RUN |-> Code(table, ACPlace(RUN - 1, 0))])
    \o Code(table, ACPlace(run % RUN, Magnitude(v)))
    \o ValueBits(v)

\* The zeros before a value, in full runs and the rest, and the value.
LEMMA DoneWithValue ==
  ASSUME Runs, NEW table, NEW m, IsCoder(table, m), NEW block \in [1 .. DCTSIZE2 -> Int],
         NEW j \in 0 .. DCTSIZE2 - 2, NEW run, NEW o, Done(table, block, j, run, o),
         block[j + 2] \in Fitting(m), block[j + 2] # 0
  PROVE  Done(table, block, j + 1, 0, Follow(table, run, block[j + 2], o))
<1> PICK d \in Nat : d = DCTSIZE2
  BY HuffmanAssumption
<1> PICK r \in Nat : r = RUN /\ r > 1
  BY HuffmanAssumption DEF Runs
<1> PICK v : v = block[j + 2]
  OBVIOUS
<1> DEFINE q == run \div r
           p == run % r
<1>1. run \in 0 .. j /\ o \in Strings
  BY DEF Done
<1>2. q \in Nat /\ p \in 0 .. r - 1 /\ run = r * q + p /\ q * r = r * q /\ q * r \in Nat /\ q <= run
  <2>1. q \in Int /\ p \in 0 .. r - 1 /\ run = r * q + p
    BY <1>1, Division
  <2> HIDE DEF q, p
  <2>2. q >= 0
    <3>1. ASSUME q < 0 PROVE FALSE
      <4>1. r * q <= -r
        BY <2>1, <3>1
      <4> QED
        BY <1>1, <2>1, <4>1
    <3> QED
      BY <2>1, <3>1
  <2>3. r * q >= q /\ r * q = q * r /\ r * q \in Nat
    BY <2>1, <2>2
  <2> QED
    BY <1>1, <2>1, <2>2, <2>3
<1> HIDE DEF q, p
<1> PICK c : c = Code(table, ACPlace(RUN - 1, 0))
  OBVIOUS
<1> PICK e : e = Code(table, ACPlace(p, Magnitude(v)))
  OBVIOUS
<1>3. v \in Sendable /\ IsMagnitude(Magnitude(v), v) /\ Magnitude(v) \in 0 .. m
  BY MagnitudeIs DEF Fitting, IsMagnitude
<1>4. c \in Strings /\ e \in Strings
  <2>1. RUN - 1 \in 0 .. RUN - 1 /\ 0 \in 0 .. m /\ p \in 0 .. RUN - 1
    BY <1>2 DEF IsCoder
  <2>2. IsRunAndSize(table, RUN - 1, 0) /\ IsRunAndSize(table, p, Magnitude(v))
    BY <1>3, <2>1, RunAndSizeAre
  <2> QED
    BY <2>2 DEF IsRunAndSize, IsSymbol, Strings
<1> PICK x \in Strings : x = ValueBits(v)
  BY <1>3, ValueBitsAre
<1> PICK f : Repeats(f, c, q)
  BY <1>2, <1>4, RepeatsUp
<1> PICK g \in Strings : g = f[q] /\ FlattenSeq([i \in 1 .. q |-> c]) = g
  BY <1>2 DEF Repeats
<1> PICK new : new = Follow(table, run, v, o)
  OBVIOUS
<1>5. new = ((o \o g) \o e) \o x
  BY DEF Follow, q, p
<1>6. new \in Strings
  BY <1>1, <1>4, <1>5, StringsJoin
<1>7. ASSUME NEW u \in Strings
      PROVE  \E i \in 0 .. j + 1 : Arrives(table, block, i, new, 2 + (j + 1), u)
  <2> PICK w \in Strings : w = e \o (x \o u)
    BY <1>4, StringsJoin
  <2> PICK s : s = StateAt(2, new \o u, Upto(block, 2))
    OBVIOUS
  <2> PICK k \in 2 .. j + 2 : k = 2 + j - run
    BY <1>1
  <2>1. new \o u = o \o (g \o w) /\ g \o w \in Strings
    <3> PICK o2 \in Strings : o2 = o
      BY <1>1
    <3> PICK e2 \in Strings : e2 = e
      BY <1>4
    <3>1. (((o2 \o g) \o e2) \o x) \o u = o2 \o (g \o (e2 \o (x \o u)))
      <4>1. AllAssociate(o2, g, e2, x, u)
        BY FiveJoined
      <4> QED
        BY <4>1 DEF AllAssociate
    <3>2. g \o w \in Strings
      BY StringsJoin
    <3> QED
      BY <1>5, <3>1, <3>2
  <2> PICK i \in 0 .. j - run : Leads(table, i, s, StateAt(k, g \o w, Upto(block, k)))
    <3>1. \E i \in 0 .. j - run : Arrives(table, block, i, o, 2 + j - run, g \o w)
      BY <2>1 DEF Done
    <3> QED
      BY <2>1, <3>1 DEF Arrives
  <2>2. k + q * r <= j + 2 /\ i \in Nat /\ k \in Nat /\ k > 0
    BY <1>1, <1>2
  <2>3. k + q * RUN <= DCTSIZE2
    BY <1>2, <2>2
  <2>4. Leads(table, i + q, s, StateAt(k + q * r, w, Upto(block, k)))
    <3>1. Leads(table, i, s, StateAt(k, f[q] \o w, Upto(block, k)))
      OBVIOUS
    <3> QED
      BY <1>2, <2>2, <2>3, <3>1, RunsAreDecoded
  <2> PICK l \in 1 .. d : l = k + q * r
    <3>1. k + q * r \in Nat /\ k + q * r >= 1
      <4>1. \A y \in Nat : k + y \in Nat /\ k + y >= 1
        OBVIOUS
      <4> QED
        BY <1>2, <4>1
    <3>2. j + 2 <= d
      OBVIOUS
    <3>3. k + q * r <= d
      BY <2>2, <3>1, <3>2
    <3> QED
      BY <3>1, <3>3
  <2>5. l + p = j + 2 /\ (l + p) + 1 = 2 + (j + 1) /\ l + p + 1 = (l + p) + 1
    BY <1>1, <1>2
  <2>6. StepOn(table, StateAt(l, e \o (x \o u), Upto(block, k))) = StateAt(l + p + 1, u, Put(Upto(block, k), l + p, v))
    <3>1. p \in 0 .. RUN - 1
      BY <1>2
    <3> QED
      BY <3>1, StepOnByValue
  <2>7. Put(Upto(block, k), l + p, v) = Upto(block, j + 3)
    <3>1. \A y \in k .. (j + 2) - 1 : block[y] = 0
      <4>1. \A y \in 2 + j - run .. j + 1 : block[y] = 0
        BY DEF Done
      <4> QED
        BY <4>1
    <3>2. j + 2 \in Nat /\ k \in Nat /\ k <= j + 2
      OBVIOUS
    <3>3. Put(Upto(block, k), j + 2, block[j + 2]) = Upto(block, (j + 2) + 1)
      BY <3>1, <3>2, UptoIs
    <3> QED
      BY <2>5, <3>3
  <2>8. Leads(table, (i + q) + 1, s, StateAt(2 + (j + 1), u, Upto(block, 2 + (j + 1))))
    <3>1. i + q \in Nat /\ 2 + (j + 1) = j + 3
      BY <1>2
    <3>2. Leads(table, (i + q) + 1, s, StepOn(table, StateAt(l, w, Upto(block, k))))
      BY <2>4, <3>1, LeadsOn
    <3> QED
      BY <2>5, <2>6, <2>7, <3>1, <3>2
  <2>9. (i + q) + 1 \in 0 .. j + 1
    BY <1>1, <1>2
  <2> QED
    BY <2>8, <2>9 DEF Arrives
<1>8. 0 \in 0 .. j + 1 /\ 2 + (j + 1) - 0 = 2 + (j + 1) /\ (j + 1) - 0 = j + 1 /\ 2 + (j + 1) .. (j + 1) + 1 = {}
  OBVIOUS
<1> QED
  BY <1>6, <1>7, <1>8 DEF Done

\* What is written for a coefficient is a string.
LEMMA FollowIs ==
  ASSUME Runs, NEW table, NEW m, IsCoder(table, m), NEW run \in Nat, NEW o \in Strings,
         NEW v \in Fitting(m)
  PROVE  Follow(table, run, v, o) \in Strings
<1> PICK r \in Nat : r = RUN /\ r > 1
  BY HuffmanAssumption DEF Runs
<1> PICK q : q = run \div r
  OBVIOUS
<1> PICK p : p = run % r
  OBVIOUS
<1>1. q \in Nat /\ p \in 0 .. r - 1
  <2>1. run \div r \in Int /\ run % r \in 0 .. r - 1 /\ run = r * (run \div r) + (run % r)
    BY Division
  <2>2. run \div r \in Nat
    <3> DEFINE x == run \div r
               y == run % r
    <3>1. x \in Int /\ y \in 0 .. r - 1 /\ run = r * x + y
      BY <2>1
    <3> HIDE DEF x, y
    <3>2. ASSUME x < 0 PROVE FALSE
      <4>1. r * x <= -r
        BY <3>1, <3>2
      <4> QED
        BY <3>1, <4>1
    <3>3. x \in Nat
      BY <3>1, <3>2
    <3> QED
      BY <3>3 DEF x
  <2> QED
    BY <2>1, <2>2
<1> PICK c : c = Code(table, ACPlace(RUN - 1, 0))
  OBVIOUS
<1> PICK e : e = Code(table, ACPlace(p, Magnitude(v)))
  OBVIOUS
<1>2. v \in Sendable /\ Magnitude(v) \in 0 .. m
  BY MagnitudeIs DEF Fitting, IsMagnitude
<1>3. c \in Strings /\ e \in Strings
  <2>1. RUN - 1 \in 0 .. RUN - 1 /\ 0 \in 0 .. m /\ p \in 0 .. RUN - 1
    BY <1>1 DEF IsCoder
  <2>2. IsRunAndSize(table, RUN - 1, 0) /\ IsRunAndSize(table, p, Magnitude(v))
    BY <1>2, <2>1, RunAndSizeAre
  <2> QED
    BY <2>2 DEF IsRunAndSize, IsSymbol, Strings
<1> PICK x \in Strings : x = ValueBits(v)
  BY <1>2, ValueBitsAre
<1> PICK f : Repeats(f, c, q)
  BY <1>1, <1>3, RepeatsUp
<1> PICK g \in Strings : g = f[q] /\ FlattenSeq([i \in 1 .. q |-> c]) = g
  BY <1>1 DEF Repeats
<1>4. Follow(table, run, v, o) = ((o \o g) \o e) \o x
  BY DEF Follow
<1>5. o \o g \in Strings
  BY StringsJoin
<1>6. (o \o g) \o e \in Strings
  BY <1>3, <1>5, StringsJoin
<1>7. ((o \o g) \o e) \o x \in Strings
  BY <1>6, StringsJoin
<1> QED
  BY <1>4, <1>7

SentStates == [run : Nat, out : Strings]

\* What the encoder makes of a coefficient.
LEMMA EncodedIs ==
  ASSUME Runs, NEW table, NEW m, IsCoder(table, m), NEW s \in SentStates, NEW v \in Fitting(m)
  PROVE  /\ Encoded(table, s, v) \in SentStates
         /\ v = 0 => Encoded(table, s, v).run = s.run + 1 /\ Encoded(table, s, v).out = s.out
         /\ v # 0 => /\ Encoded(table, s, v).run = 0
                     /\ Encoded(table, s, v).out = Follow(table, s.run, v, s.out)
<1>1. s.run \in Nat /\ s.out \in Strings
  BY DEF SentStates
<1>2. CASE v = 0
  <2> DEFINE e == [s EXCEPT !.run = @ + 1]
  <2>1. Encoded(table, s, v) = e
    BY <1>2 DEF Encoded
  <2>2. e \in SentStates /\ e.run = s.run + 1 /\ e.out = s.out
    BY <1>1 DEF SentStates
  <2> QED
    BY <1>2, <2>1, <2>2
<1>3. CASE v # 0
  <2>1. Encoded(table, s, v) = Sent(0, Follow(table, s.run, v, s.out))
    BY <1>3 DEF Encoded, Sent, Follow
  <2>2. Follow(table, s.run, v, s.out) \in Strings
    BY <1>1, FollowIs
  <2>3. \A f \in Strings : Sent(0, f) \in SentStates /\ Sent(0, f).run = 0 /\ Sent(0, f).out = f
    BY DEF Sent, SentStates
  <2> QED
    BY <1>3, <2>1, <2>2, <2>3
<1> QED
  BY <1>2, <1>3

\* What is sent of the coefficients after the first.
RestOfBlock(table, block, run, out) ==
  \E end \in SentStates :
    /\ end.run = run /\ end.out = out
    /\ \A last_dc_val :
         EncodeBlock(table, block, last_dc_val) =
           Code(table, DCPlace(Magnitude(block[1] - last_dc_val))) \o ValueBits(block[1] - last_dc_val)
             \o out \o IF run > 0 THEN Code(table, ACPlace(0, 0)) ELSE <<>>

\* The decoder follows the encoder over all coefficients, one by one.
LEMMA RestIsDone ==
  ASSUME Runs, NEW table, NEW m, IsCoder(table, m), NEW block \in [1 .. DCTSIZE2 -> Int],
         \A x \in 2 .. DCTSIZE2 : block[x] \in Fitting(m)
  PROVE  \E run, out : RestOfBlock(table, block, run, out) /\ Done(table, block, DCTSIZE2 - 1, run, out)
<1> PICK n \in Nat : DCTSIZE2 = n + 1
  <2>1. DCTSIZE2 - 1 \in Nat /\ DCTSIZE2 = (DCTSIZE2 - 1) + 1
    BY HuffmanAssumption
  <2> QED
    BY <2>1
<1> DEFINE tail == Tail(block)
           base == Sent(0, <<>>)
           Fold(g) == g = [x \in SUBSET (DOMAIN tail) |->
                             IF x = {} THEN base ELSE Encoded(table, g[x \ {Max(x)}], tail[Max(x)])]
           folded == CHOOSE g : Fold(g)
           end == folded[DOMAIN tail]
           step == [i \in 1 .. n |-> [s \in SentStates |-> Encoded(table, s, block[i + 1])]]
<1>1. \A last_dc_val :
        EncodeBlock(table, block, last_dc_val) =
           Code(table, DCPlace(Magnitude(block[1] - last_dc_val))) \o ValueBits(block[1] - last_dc_val)
             \o end.out \o IF end.run > 0 THEN Code(table, ACPlace(0, 0)) ELSE <<>>
  BY DEF EncodeBlock, FoldLeft, MapThenFoldSet, Encoded, Sent
<1>2. DOMAIN tail = 1 .. n /\ \A i \in 1 .. n : tail[i] = block[i + 1]
  <2> PICK d \in Nat : d = DCTSIZE2 /\ d > 0
    BY HuffmanAssumption
  <2>1. block \in Seq(Int) /\ Len(block) = d /\ block # <<>>
    OBVIOUS
  <2> QED
    BY <2>1
<1>3. base \in SentStates /\ base.run = 0 /\ base.out = <<>>
  BY StringsJoin DEF SentStates, Sent
<1> HIDE DEF folded, tail, base
<1>4. \A i \in 1 .. n : block[i + 1] \in Fitting(m)
  <2>1. \A i \in 1 .. n : i + 1 \in 2 .. n + 1
    OBVIOUS
  <2> QED
    BY <2>1
<1>5. step \in Steps(SentStates, n)
  BY <1>4, EncodedIs DEF Steps
<1>6. \A i \in 1 .. n : \A s \in SentStates : step[i][s] = Encoded(table, s, block[i + 1])
  OBVIOUS
<1> HIDE DEF step
<1>7. \E g : Fold(g)
  <2> PICK g : FoldOf(g, SentStates, n, base, step)
    BY <1>3, <1>5, FoldExists, Zenon
  <2>1. ASSUME NEW x \in SUBSET (1 .. n), x # {}
        PROVE  step[Max(x)][g[x \ {Max(x)}]] = Encoded(table, g[x \ {Max(x)}], tail[Max(x)])
    <3>1. Max(x) \in 1 .. n
      BY <2>1, LargestIn
    <3>2. g[x \ {Max(x)}] \in SentStates
      BY DEF FoldOf
    <3> QED
      BY <1>2, <1>6, <3>1, <3>2
  <2>2. \A x \in SUBSET (1 .. n) : g[x] = IF x = {} THEN base ELSE Encoded(table, g[x \ {Max(x)}], tail[Max(x)])
    BY <2>1 DEF FoldOf
  <2>3. g = [x \in SUBSET (1 .. n) |-> g[x]]
    BY DEF FoldOf
  <2>4. Fold(g)
    BY <1>2, <2>2, <2>3
  <2> QED
    BY <2>4
<1>8. Fold(folded)
  BY <1>7 DEF folded
<1>9. \A x \in SUBSET (1 .. n) :
        folded[x] = IF x = {} THEN base ELSE Encoded(table, folded[x \ {Max(x)}], tail[Max(x)])
  BY <1>2, <1>8
<1> HIDE DEF Fold
<1>10. folded[{}] = base
  BY <1>9
<1>11. ASSUME NEW i \in 1 .. n, folded[1 .. i - 1] \in SentStates
       PROVE  folded[1 .. i] = step[i][folded[1 .. i - 1]]
  <2>1. 1 .. i \in SUBSET (1 .. n) /\ 1 .. i # {} /\ i \in Nat \ {0}
    OBVIOUS
  <2>2. Max(1 .. i) = i /\ (1 .. i) \ {i} = 1 .. i - 1
    BY <2>1, LargestIs
  <2>3. folded[1 .. i] = Encoded(table, folded[1 .. i - 1], tail[i])
    BY <1>9, <2>1, <2>2
  <2> QED
    BY <1>2, <1>6, <1>11, <2>3
<1>12. Follows(folded, SentStates, n, base, step)
  BY <1>10, <1>11 DEF Follows
<1> PICK e : RunOf(e, SentStates, n, base, step)
  BY <1>3, <1>5, Recursion, Zenon
<1>13. Agree(folded, e, n)
  BY <1>3, <1>5, <1>12, FoldIs, Zenon
<1>14. end = e[n]
  BY <1>2, <1>13 DEF Agree
<1>15. e[0] = base /\ \A i \in 0 .. n : e[i] \in SentStates
  BY DEF RunOf
<1>16. ASSUME NEW i \in 1 .. n PROVE e[i] = Encoded(table, e[i - 1], block[i + 1])
  <2>1. i - 1 \in 0 .. n
    OBVIOUS
  <2> QED
    BY <1>6, <1>15, <2>1 DEF RunOf
<1> DEFINE All == {j \in Nat : j <= n => Done(table, block, j, e[j].run, e[j].out)}
<1>17. 0 \in All
  BY <1>3, <1>15, DoneAtFirst
<1>18. ASSUME NEW j \in Nat, j \in All PROVE j + 1 \in All
  <2> SUFFICES ASSUME j + 1 <= n PROVE Done(table, block, j + 1, e[j + 1].run, e[j + 1].out)
    OBVIOUS
  <2>1. j + 1 \in 1 .. n /\ (j + 1) - 1 = j /\ j \in 0 .. n /\ (j + 1) + 1 = j + 2 /\ j \in 0 .. DCTSIZE2 - 2
    OBVIOUS
  <2>2. e[j + 1] = Encoded(table, e[j], block[j + 2]) /\ block[j + 2] \in Fitting(m) /\ e[j] \in SentStates
    BY <1>4, <1>15, <1>16, <2>1
  <2>3. Done(table, block, j, e[j].run, e[j].out)
    BY <1>18, <2>1
  <2>4. CASE block[j + 2] = 0
    <3>1. e[j + 1].run = e[j].run + 1 /\ e[j + 1].out = e[j].out
      BY <2>2, <2>4, EncodedIs
    <3> QED
      BY <2>3, <2>4, <3>1, DoneWithZero
  <2>5. CASE block[j + 2] # 0
    <3>1. e[j + 1].run = 0 /\ e[j + 1].out = Follow(table, e[j].run, block[j + 2], e[j].out)
      BY <2>2, <2>5, EncodedIs
    <3> QED
      BY <2>1, <2>2, <2>3, <2>5, <3>1, DoneWithValue
  <2> QED
    BY <2>4, <2>5
<1>19. n \in All
  <2> HIDE DEF All
  <2> QED
    BY <1>17, <1>18, SetInduction
<1>20. Done(table, block, DCTSIZE2 - 1, end.run, end.out)
  <2>1. DCTSIZE2 - 1 = n /\ n <= n
    OBVIOUS
  <2> QED
    BY <1>14, <1>19, <2>1
<1>21. RestOfBlock(table, block, end.run, end.out)
  <2>1. end \in SentStates
    BY <1>14, <1>15
  <2> HIDE DEF end
  <2> QED
    BY <1>1, <2>1 DEF RestOfBlock
<1> QED
  BY <1>20, <1>21

\* What a full block leads to, it leads to with more steps.
LEMMA LeadsFurther ==
  ASSUME NEW table, NEW i \in Nat, NEW n \in Nat, i <= n, NEW s, NEW t, Leads(table, i, s, t),
         StepOn(table, t) = t
  PROVE  Leads(table, n, s, t)
<1> DEFINE All == {j \in Nat : Leads(table, i + j, s, t)}
<1>1. 0 \in All
  <2>1. i + 0 = i
    OBVIOUS
  <2> QED
    BY <2>1
<1>2. ASSUME NEW j \in Nat, j \in All PROVE j + 1 \in All
  <2>1. i + j \in Nat /\ (i + j) + 1 = i + (j + 1)
    OBVIOUS
  <2>2. Leads(table, (i + j) + 1, s, t)
    BY <1>2, <2>1, LeadsOn
  <2> QED
    BY <2>1, <2>2
<1>3. n - i \in All
  <2>1. n - i \in Nat
    OBVIOUS
  <2> HIDE DEF All
  <2> QED
    BY <1>1, <1>2, <2>1, SetInduction
<1>4. i + (n - i) = n
  OBVIOUS
<1> QED
  BY <1>3, <1>4

\* To the end of the block.
LEMMA DoneAtLast ==
  ASSUME Runs, NEW table, NEW m, IsCoder(table, m), NEW block \in [1 .. DCTSIZE2 -> Int],
         NEW run, NEW out, Done(table, block, DCTSIZE2 - 1, run, out), NEW t \in Strings
  PROVE  Leads(table, DCTSIZE2 - 1,
               StateAt(2, out \o ((IF run > 0 THEN Code(table, ACPlace(0, 0)) ELSE <<>>) \o t), Upto(block, 2)),
               StateAt(DCTSIZE2 + 1, t, block))
<1> PICK n \in Nat : DCTSIZE2 = n + 1
  <2>1. DCTSIZE2 - 1 \in Nat /\ DCTSIZE2 = (DCTSIZE2 - 1) + 1
    BY HuffmanAssumption
  <2> QED
    BY <2>1
<1> PICK c : c = Code(table, ACPlace(0, 0))
  OBVIOUS
<1>1. c \in Strings
  <2>1. 0 \in 0 .. RUN - 1 /\ 0 \in 0 .. m
    BY HuffmanAssumption DEF Runs, IsCoder
  <2> QED
    BY <2>1, RunAndSizeAre DEF IsRunAndSize, IsSymbol, Strings
<1>2. DCTSIZE2 - 1 = n /\ 2 + n = DCTSIZE2 + 1
  OBVIOUS
<1>3. /\ run \in 0 .. n
      /\ \A x \in 2 + n - run .. n + 1 : block[x] = 0
      /\ \A u \in Strings : \E i \in 0 .. n - run : Arrives(table, block, i, out, 2 + n - run, u)
  BY <1>2 DEF Done
<1>4. StepOn(table, StateAt(DCTSIZE2 + 1, t, block)) = StateAt(DCTSIZE2 + 1, t, block)
  <2>1. StateAt(DCTSIZE2 + 1, t, block).k = DCTSIZE2 + 1
    BY FieldsOf
  <2>2. DCTSIZE2 + 1 > DCTSIZE2
    OBVIOUS
  <2> QED
    BY <2>1, <2>2 DEF StepOn
<1>5. Upto(block, DCTSIZE2 + 1) = block
  BY UptoLast
<1> PICK s : s = StateAt(2, out \o ((IF run > 0 THEN c ELSE <<>>) \o t), Upto(block, 2))
  OBVIOUS
<1>6. \E i \in 0 .. n : Leads(table, i, s, StateAt(DCTSIZE2 + 1, t, block))
  <2>1. CASE run = 0
    <3>1. (IF run > 0 THEN c ELSE <<>>) \o t = t
      BY <2>1, StringsJoin
    <3>2. 2 + n - run = DCTSIZE2 + 1 /\ n - run = n
      BY <1>2, <2>1
    <3>3. \E i \in 0 .. n : Arrives(table, block, i, out, DCTSIZE2 + 1, t)
      BY <1>3, <3>2
    <3> QED
      BY <1>5, <3>1, <3>3 DEF Arrives
  <2>2. CASE run # 0
    <3>1. (IF run > 0 THEN c ELSE <<>>) \o t = c \o t /\ c \o t \in Strings
      <4>1. run > 0
        BY <1>3, <2>2
      <4>2. c \o t \in Strings
        BY <1>1, StringsJoin
      <4> QED
        BY <4>1, <4>2
    <3> PICK k \in 1 .. DCTSIZE2 : k = 2 + n - run
      BY <1>3, <2>2
    <3> PICK i \in 0 .. n - run : Arrives(table, block, i, out, k, c \o t)
      BY <1>3, <3>1
    <3>2. Leads(table, i, s, StateAt(k, c \o t, Upto(block, k)))
      BY <3>1 DEF Arrives
    <3>3. StepOn(table, StateAt(k, c \o t, Upto(block, k))) = StateAt(DCTSIZE2 + 1, t, Upto(block, k))
      BY StepOnToEnd
    <3>4. Upto(block, k) = block
      <4>1. k \in Nat /\ n + 2 \in Nat /\ k <= n + 2 /\ (n + 2) - 1 = n + 1 /\ n + 2 = DCTSIZE2 + 1
        BY <1>3
      <4>2. \A x \in k .. (n + 2) - 1 : block[x] = 0
        BY <1>3, <4>1
      <4>3. Upto(block, k) = Upto(block, n + 2)
        BY <4>1, <4>2, UptoIs
      <4> QED
        BY <1>5, <4>1, <4>3
    <3>5. Leads(table, i + 1, s, StateAt(DCTSIZE2 + 1, t, block))
      <4>1. i \in Nat
        BY <1>3
      <4> QED
        BY <3>2, <3>3, <3>4, <4>1, LeadsOn
    <3>6. i + 1 \in 0 .. n
      BY <1>3, <2>2
    <3> QED
      BY <3>5, <3>6
  <2> QED
    BY <2>1, <2>2
<1>7. Leads(table, n, s, StateAt(DCTSIZE2 + 1, t, block))
  <2> PICK i \in 0 .. n : Leads(table, i, s, StateAt(DCTSIZE2 + 1, t, block))
    BY <1>6
  <2>1. i \in Nat /\ i <= n
    OBVIOUS
  <2> QED
    BY <1>4, <2>1, LeadsFurther
<1> QED
  BY <1>2, <1>7

-----------------------------------------------------------------------------
(* Blocks.                                                                 *)

\* Where the decoder begins.
LEMMA BeginsAt ==
  ASSUME Runs, NEW block \in [1 .. DCTSIZE2 -> Int], NEW last_dc_val \in Int, NEW u
  PROVE  Begun(last_dc_val, [value |-> block[1] - last_dc_val, rest |-> u]) = StateAt(2, u, Upto(block, 2))
<1> PICK d \in Nat : d = DCTSIZE2 /\ d > 0
  BY HuffmanAssumption
<1> PICK v \in Int : v = block[1]
  <2>1. 1 \in 1 .. d
    OBVIOUS
  <2> QED
    BY <2>1
<1>1. last_dc_val + (v - last_dc_val) = v
  OBVIOUS
<1>2. [Zeros(DCTSIZE2) EXCEPT ![1] = v] = Upto(block, 2)
  <2>1. \A x \in 1 .. d : x < 2 <=> x = 1
    OBVIOUS
  <2> QED
    BY <2>1 DEF Zeros, Upto
<1> QED
  BY <1>1, <1>2 DEF Begun

\* The symbol before the first coefficient, and the one that ends a block.
LEMMA DifferenceIsSymbol ==
  ASSUME Runs, NEW table, NEW m, IsCoder(table, m), NEW n \in 0 .. m
  PROVE  IsSymbol(table, DCPlace(n))
<1> PICK r \in Nat : r = RUN /\ r > 1
  BY HuffmanAssumption DEF Runs
<1>1. n + 1 \in 1 .. r * (m + 1)
  <2>1. m \in Nat
    BY DEF IsCoder
  <2>2. r * (m + 1) >= m + 1 /\ r * (m + 1) \in Nat
    <3>1. \A x, y \in Nat : x > 1 => x * y >= y /\ x * y \in Nat
      OBVIOUS
    <3>2. m + 1 \in Nat
      BY <2>1
    <3> QED
      BY <3>1, <3>2
  <2> QED
    BY <2>1, <2>2
<1> QED
  BY <1>1 DEF IsCoder, DCPlace

LEMMA EndIsString ==
  ASSUME Runs, NEW table, NEW m, IsCoder(table, m)
  PROVE  Code(table, ACPlace(0, 0)) \in Strings
<1>1. 0 \in 0 .. RUN - 1 /\ 0 \in 0 .. m
  BY HuffmanAssumption DEF Runs, IsCoder
<1> QED
  BY <1>1, RunAndSizeAre DEF IsRunAndSize, IsSymbol, Strings

\* Blocks that a coder has codes for.
Codable(block, last_dc_val, m) ==
  /\ block \in [1 .. DCTSIZE2 -> Int] /\ last_dc_val \in Int
  /\ block[1] - last_dc_val \in Fitting(m)
  /\ \A x \in 2 .. DCTSIZE2 : block[x] \in Fitting(m)

BlockComesBack(table, block, last_dc_val, t) ==
  DecodeBlock(table, EncodeBlock(table, block, last_dc_val) \o t, last_dc_val)
    = [k |-> DCTSIZE2 + 1, rest |-> t, block |-> block]

\* A block comes back.
LEMMA BlockIsDecoded ==
  ASSUME Widths, Runs, NEW bits \in Counts, Legal(bits),
         NEW m \in 0 .. 16, 1 .. RUN * (m + 1) \subseteq DOMAIN Sizes(bits),
         NEW block, NEW last_dc_val, Codable(block, last_dc_val, m), NEW t \in Strings
  PROVE  BlockComesBack(DeriveTable(bits), block, last_dc_val, t)
<1>0. /\ block \in [1 .. DCTSIZE2 -> Int] /\ last_dc_val \in Int
      /\ block[1] - last_dc_val \in Fitting(m)
      /\ \A x \in 2 .. DCTSIZE2 : block[x] \in Fitting(m)
  BY DEF Codable
<1> PICK table : table = DeriveTable(bits)
  OBVIOUS
<1>1. IsCoder(table, m)
  BY SymbolIs DEF IsCoder
<1> PICK run, out : RestOfBlock(table, block, run, out) /\ Done(table, block, DCTSIZE2 - 1, run, out)
  BY <1>0, <1>1, RestIsDone
<1> PICK diff : diff = block[1] - last_dc_val
  OBVIOUS
<1> PICK end : end = IF run > 0 THEN Code(table, ACPlace(0, 0)) ELSE <<>>
  OBVIOUS
<1> PICK a : a = Code(table, DCPlace(Magnitude(diff)))
  OBVIOUS
<1>2. EncodeBlock(table, block, last_dc_val) = ((a \o ValueBits(diff)) \o out) \o end
  BY DEF RestOfBlock
<1>3. diff \in Sendable /\ Magnitude(diff) \in 0 .. m
  BY <1>0, MagnitudeIs DEF Fitting, IsMagnitude
<1>4. IsSymbol(table, DCPlace(Magnitude(diff)))
  BY <1>1, <1>3, DifferenceIsSymbol
<1>5. a \in Strings /\ ValueBits(diff) \in Strings /\ out \in Strings /\ t \in Strings
  BY <1>3, <1>4, ValueBitsAre DEF IsSymbol, Done, Strings
<1>6. end \in Strings
  BY <1>1, EndIsString, StringsJoin
<1> PICK u \in Strings : u = out \o (end \o t)
  <2>1. end \o t \in Strings
    BY <1>5, <1>6, StringsJoin
  <2>2. out \o (end \o t) \in Strings
    BY <1>5, <2>1, StringsJoin
  <2> QED
    BY <2>2
<1>7. EncodeBlock(table, block, last_dc_val) \o t = a \o (ValueBits(diff) \o u)
  <2>1. AllAssociate(a, ValueBits(diff), out, end, t)
    BY <1>5, <1>6, FiveJoined
  <2> QED
    BY <1>2, <2>1 DEF AllAssociate
<1>8. HuffDecode(table, a \o (ValueBits(diff) \o u)) = [place |-> DCPlace(Magnitude(diff)), rest |-> ValueBits(diff) \o u]
  <2>1. ValueBits(diff) \o u \in Seq(Bits)
    BY <1>5, StringsJoin DEF Strings
  <2> QED
    BY <1>4, <2>1 DEF IsSymbol
<1>9. Value(ValueBits(diff) \o u, Magnitude(diff)) = [value |-> diff, rest |-> u]
  BY <1>3, ValueIsRead DEF IsValueRead, Strings
<1>10. Differ([place |-> DCPlace(Magnitude(diff)), rest |-> ValueBits(diff) \o u]) = [value |-> diff, rest |-> u]
  <2>1. (Magnitude(diff) + 1) - 1 = Magnitude(diff)
    BY <1>3
  <2> QED
    BY <1>9, <2>1 DEF Differ, DCPlace
<1>11. Begun(last_dc_val, [value |-> diff, rest |-> u]) = StateAt(2, u, Upto(block, 2))
  BY <1>0, BeginsAt
<1> PICK s : s = StateAt(DCTSIZE2 + 1, t, block)
  OBVIOUS
<1>12. Leads(table, DCTSIZE2 - 1, StateAt(2, u, Upto(block, 2)), s)
  BY <1>0, <1>1, <1>5, DoneAtLast
<1>13. StepOn(table, s) = s
  <2>1. s.k = DCTSIZE2 + 1 /\ DCTSIZE2 + 1 > DCTSIZE2
    BY FieldsOf, HuffmanAssumption
  <2> QED
    BY <2>1 DEF StepOn
<1>14. DecodeBlock(table, a \o (ValueBits(diff) \o u), last_dc_val) = s
  <2> PICK data : data = a \o (ValueBits(diff) \o u)
    OBVIOUS
  <2>1. Leads(table, DCTSIZE2 - 1, Begun(last_dc_val, Differ(HuffDecode(table, data))), s)
    BY <1>8, <1>10, <1>11, <1>12
  <2> QED
    BY <1>13, <2>1, DecodesTo
<1> QED
  BY <1>7, <1>14 DEF StateAt, BlockComesBack

(***************************************************************************)
(* A block of coefficients, of any values, comes through encode_one_block  *)
(* and decode_mcu as it was, and what follows it is left: for every table  *)
(* that has codes for all runs before values of up to m bits, and a block  *)
(* of such values.                                                         *)
(***************************************************************************)
THEOREM BlocksAreDecoded ==
  ASSUME Widths, Runs, NEW bits \in Counts, Legal(bits),
         NEW m \in 0 .. 16, 1 .. RUN * (m + 1) \subseteq DOMAIN Sizes(bits),
         NEW block, NEW last_dc_val, Codable(block, last_dc_val, m), NEW t \in Strings
  PROVE  DecodeBlock(DeriveTable(bits), EncodeBlock(DeriveTable(bits), block, last_dc_val) \o t, last_dc_val)
           = [k |-> DCTSIZE2 + 1, rest |-> t, block |-> block]
BY BlockIsDecoded DEF BlockComesBack

-----------------------------------------------------------------------------
(* Bytes.                                                                  *)

ByteOf(u, k) == SubSeq(u, (k - 1) * BYTE + 1, k * BYTE)

\* A part of a string.
PartOf(u, a, n) == [x \in 1 .. n |-> u[a + x]]

IsPart(u, a, n) ==
  /\ SubSeq(u, a + 1, a + n) = PartOf(u, a, n)
  /\ PartOf(u, a, n) \in Strings /\ Len(PartOf(u, a, n)) = n

\* SubSeq takes a part.
LEMMA PartIs ==
  ASSUME NEW u \in Strings, NEW a \in Nat, NEW n \in Nat, a + n <= Len(u)
  PROVE  IsPart(u, a, n)
<1>1. u \in Seq(Bits) /\ Len(u) \in Nat
  BY DEF Strings
<1>2. SubSeq(u, a + 1, a + n) = PartOf(u, a, n)
  BY <1>1 DEF PartOf
<1>3. \A x \in 1 .. n : u[a + x] \in Bits
  <2>1. \A x \in 1 .. n : a + x \in 1 .. Len(u)
    BY <1>1
  <2> QED
    BY <1>1, <2>1
<1>4. PartOf(u, a, n) \in Seq(Bits) /\ Len(PartOf(u, a, n)) = n
  BY <1>3 DEF PartOf
<1> QED
  BY <1>2, <1>4 DEF IsPart, Strings

\* A byte is a part.
LEMMA ByteIs ==
  ASSUME NEW u \in Strings, NEW k \in Nat, (k + 1) * BYTE <= Len(u)
  PROVE  /\ ByteOf(u, k + 1) = PartOf(u, k * BYTE, BYTE)
         /\ ByteOf(u, k + 1) \in Strings /\ Len(ByteOf(u, k + 1)) = BYTE
<1> PICK b \in Nat : b = BYTE
  BY HuffmanAssumption
<1> PICK a \in Nat : a = k * b
  OBVIOUS
<1>1. (k + 1) * b = a + b /\ (k + 1) - 1 = k
  OBVIOUS
<1>2. ByteOf(u, k + 1) = SubSeq(u, a + 1, a + b)
  BY <1>1 DEF ByteOf
<1>3. a + b <= Len(u)
  BY <1>1
<1>4. IsPart(u, a, b)
  BY <1>3, PartIs
<1> QED
  BY <1>2, <1>4 DEF IsPart

-----------------------------------------------------------------------------
(* What the decoder makes of them.                                         *)

Take(state, byte) ==
  CASE state.marker -> state
    [] ~state.marker /\ state.ones /\ byte = Zeros(BYTE) ->
         [state EXCEPT !.ones = FALSE, !.data = @ \o Ones(BYTE)]
    [] ~state.marker /\ byte = Ones(BYTE) -> [state EXCEPT !.ones = TRUE]
    [] ~state.marker /\ state.ones /\ byte \notin {Zeros(BYTE), Ones(BYTE)} ->
         [state EXCEPT !.marker = TRUE]
    [] OTHER -> [state EXCEPT !.data = @ \o byte]

Filling == [marker : BOOLEAN, ones : BOOLEAN, data : Strings]
Fill(ones, data) == [marker |-> FALSE, ones |-> ones, data |-> data]

\* The bytes that mark markers.
LEMMA OnesAndZeros ==
  /\ Ones(BYTE) \in Strings /\ Zeros(BYTE) \in Strings /\ Ones(BYTE) # Zeros(BYTE)
  /\ Len(Ones(BYTE)) = BYTE /\ Len(Zeros(BYTE)) = BYTE
<1> PICK b \in Nat : b = BYTE /\ b > 0
  BY HuffmanAssumption
<1>1. Ones(b) \in Seq(Bits) /\ Zeros(b) \in Seq(Bits) /\ Len(Ones(b)) = b /\ Len(Zeros(b)) = b
  BY DEF Ones, Zeros, Bits
<1>2. Ones(b)[1] = 1 /\ Zeros(b)[1] = 0
  BY DEF Ones, Zeros
<1>3. Ones(b) # Zeros(b)
  BY <1>2
<1> QED
  BY <1>1, <1>3 DEF Strings

\* The fields keep their types.
LEMMA TakeIsFilling ==
  ASSUME NEW s \in Filling, NEW byte \in Strings
  PROVE  Take(s, byte) \in Filling
<1>1. s.data \o Ones(BYTE) \in Strings /\ s.data \o byte \in Strings
  BY OnesAndZeros, StringsJoin DEF Filling
<1>2. \A d \in Strings : [s EXCEPT !.ones = FALSE, !.data = d] \in Filling /\ [s EXCEPT !.data = d] \in Filling
  BY DEF Filling
<1>3. [s EXCEPT !.ones = TRUE] \in Filling /\ [s EXCEPT !.marker = TRUE] \in Filling
  BY DEF Filling
<1> QED
  BY <1>1, <1>2, <1>3 DEF Take

\* A byte that marks nothing is data.
LEMMA TakesByte ==
  ASSUME NEW d, NEW byte, byte # Ones(BYTE)
  PROVE  Take(Fill(FALSE, d), byte) = Fill(FALSE, d \o byte)
BY DEF Take, Fill

\* The fields, whatever they hold.
Fields(marker, ones, data) == [marker |-> marker, ones |-> ones, data |-> data]
Changed(state, ones, data) == [state EXCEPT !.ones = ones, !.data = data]

\* Two of the fields, changed.
LEMMA FieldsAre ==
  ASSUME NEW m, NEW o, NEW d, NEW o2, NEW d2
  PROVE  Changed(Fields(m, o, d), o2, d2) = Fields(m, o2, d2)
<1> DEFINE s == Fields(m, o, d)
           t == [s EXCEPT !.ones = o2, !.data = d2]
<1>1. DOMAIN s = {"marker", "ones", "data"} /\ DOMAIN t = {"marker", "ones", "data"}
  BY DEF Fields
<1>2. t = [f \in DOMAIN s |-> IF f = "ones" THEN o2 ELSE IF f = "data" THEN d2 ELSE s[f]]
  OBVIOUS
<1>3. t = Fields(m, o2, d2)
  BY <1>1, <1>2 DEF Fields
<1> QED
  BY <1>3 DEF Changed

\* A byte of ones and one of zeros are a byte of ones.
LEMMA TakesOnes ==
  ASSUME NEW d
  PROVE  Take(Take(Fill(FALSE, d), Ones(BYTE)), Zeros(BYTE)) = Fill(FALSE, d \o Ones(BYTE))
<1>1. Take(Fill(FALSE, d), Ones(BYTE)) = Fill(TRUE, d)
  BY OnesAndZeros DEF Take, Fill
<1> PICK zeros : zeros = Zeros(BYTE) /\ zeros # Ones(BYTE)
  BY OnesAndZeros
<1>2. Take(Fill(TRUE, d), zeros) = Fill(FALSE, d \o Ones(BYTE))
  <2> DEFINE s == Fill(TRUE, d)
           x == d \o Ones(BYTE)
           t == Changed(s, FALSE, x)
  <2>1. s.data = d /\ s.marker = FALSE /\ s.ones = TRUE
    BY DEF Fill
  <2>4. t = Fill(FALSE, x)
    <3>1. Changed(Fields(FALSE, TRUE, d), FALSE, x) = Fields(FALSE, FALSE, x)
      <4>1. \A m, o, o2 \in BOOLEAN : Changed(Fields(m, o, d), o2, x) = Fields(m, o2, x)
        BY FieldsAre
      <4> QED
        BY <4>1
    <3>2. Fields(FALSE, TRUE, d) = s /\ Fields(FALSE, FALSE, x) = Fill(FALSE, x)
      BY Zenon DEF Fields, Fill
    <3> QED
      BY <3>1, <3>2, Zenon
  <2>5. Take(s, zeros) = t
    BY <2>1 DEF Take, Changed
  <2> QED
    BY <2>4, <2>5
<1> QED
  BY <1>1, <1>2

Fills(e, bytes, n) ==
  /\ e \in [0 .. n -> Filling]
  /\ e[0] = Fill(FALSE, <<>>)
  /\ \A i \in 1 .. n : e[i] = Take(e[i - 1], ByteOf(bytes, i))
  /\ FillBitBuffer(bytes) = e[n].data

\* jpeg_fill_bit_buffer takes byte after byte.
LEMMA FillIs ==
  ASSUME NEW bytes \in Strings, NEW n \in Nat, n = Len(bytes) \div BYTE
  PROVE  \E e : Fills(e, bytes, n)
<1> PICK b \in Nat : b = BYTE /\ b > 0
  BY HuffmanAssumption
<1> PICK l \in Nat : l = Len(bytes)
  BY DEF Strings
<1>0. ASSUME NEW i \in 1 .. n PROVE ByteOf(bytes, i) \in Strings
  <2> PICK m \in Nat : m = n
    OBVIOUS
  <2>1. m = l \div b
    OBVIOUS
  <2>2. i * b <= l
    <3>1. l = b * (l \div b) + (l % b) /\ l % b \in 0 .. b - 1
      BY Division
    <3>2. (m - i) * b >= 0 /\ (m - i) * b = b * m - i * b /\ i * b \in Int /\ b * m \in Int
      OBVIOUS
    <3>3. \A x \in Int : x = l \div b => b * x <= l
      BY <3>1
    <3>4. b * m <= l
      BY <2>1, <3>3
    <3> QED
      BY <3>2, <3>4
  <2> PICK k \in Nat : i = k + 1
    <3>1. i - 1 \in Nat /\ i = (i - 1) + 1
      OBVIOUS
    <3> QED
      BY <3>1
  <2> QED
    BY <2>2, ByteIs
<1> DEFINE base == Fill(FALSE, <<>>)
           seq == [k \in 1 .. Len(bytes) \div BYTE |-> SubSeq(bytes, (k - 1) * BYTE + 1, k * BYTE)]
           Fold(g) == g = [x \in SUBSET (DOMAIN seq) |->
                             IF x = {} THEN base ELSE Take(g[x \ {Max(x)}], seq[Max(x)])]
           folded == CHOOSE g : Fold(g)
           step == [i \in 1 .. n |-> [s \in Filling |-> Take(s, ByteOf(bytes, i))]]
<1>1. FillBitBuffer(bytes) = folded[DOMAIN seq].data
  BY DEF FillBitBuffer, FoldLeft, MapThenFoldSet, Take, Fill
<1>2. DOMAIN seq = 1 .. n /\ \A i \in 1 .. n : seq[i] = ByteOf(bytes, i)
  BY DEF ByteOf
<1>3. base \in Filling
  BY StringsJoin DEF Filling, Fill
<1> HIDE DEF folded, seq, base
<1>5. step \in Steps(Filling, n)
  BY <1>0, TakeIsFilling DEF Steps
<1>6. \A i \in 1 .. n : \A s \in Filling : step[i][s] = Take(s, ByteOf(bytes, i))
  OBVIOUS
<1> HIDE DEF step
<1>7. \E g : Fold(g)
  <2> PICK g : FoldOf(g, Filling, n, base, step)
    BY <1>3, <1>5, FoldExists, Zenon
  <2>1. ASSUME NEW x \in SUBSET (1 .. n), x # {}
        PROVE  step[Max(x)][g[x \ {Max(x)}]] = Take(g[x \ {Max(x)}], seq[Max(x)])
    <3>1. Max(x) \in 1 .. n
      BY <2>1, LargestIn
    <3>2. g[x \ {Max(x)}] \in Filling
      BY DEF FoldOf
    <3> QED
      BY <1>2, <1>6, <3>1, <3>2
  <2>2. \A x \in SUBSET (1 .. n) : g[x] = IF x = {} THEN base ELSE Take(g[x \ {Max(x)}], seq[Max(x)])
    BY <2>1 DEF FoldOf
  <2>3. g = [x \in SUBSET (1 .. n) |-> g[x]]
    BY DEF FoldOf
  <2>4. Fold(g)
    BY <1>2, <2>2, <2>3
  <2> QED
    BY <2>4
<1>8. Fold(folded)
  BY <1>7 DEF folded
<1>9. \A x \in SUBSET (1 .. n) :
        folded[x] = IF x = {} THEN base ELSE Take(folded[x \ {Max(x)}], seq[Max(x)])
  BY <1>2, <1>8
<1> HIDE DEF Fold
<1>10. folded[{}] = base
  BY <1>9
<1>11. ASSUME NEW i \in 1 .. n, folded[1 .. i - 1] \in Filling
       PROVE  folded[1 .. i] = step[i][folded[1 .. i - 1]]
  <2>1. 1 .. i \in SUBSET (1 .. n) /\ 1 .. i # {} /\ i \in Nat \ {0}
    OBVIOUS
  <2>2. Max(1 .. i) = i /\ (1 .. i) \ {i} = 1 .. i - 1
    BY <2>1, LargestIs
  <2>3. folded[1 .. i] = Take(folded[1 .. i - 1], seq[i])
    BY <1>9, <2>1, <2>2
  <2> QED
    BY <1>2, <1>6, <1>11, <2>3
<1>12. Follows(folded, Filling, n, base, step)
  BY <1>10, <1>11 DEF Follows
<1> PICK e : RunOf(e, Filling, n, base, step)
  BY <1>3, <1>5, Recursion, Zenon
<1>13. Agree(folded, e, n)
  BY <1>3, <1>5, <1>12, FoldIs, Zenon
<1>14. FillBitBuffer(bytes) = e[n].data
  BY <1>1, <1>2, <1>13 DEF Agree
<1>15. e \in [0 .. n -> Filling] /\ e[0] = base
  BY DEF RunOf
<1>16. ASSUME NEW i \in 1 .. n PROVE e[i] = Take(e[i - 1], ByteOf(bytes, i))
  <2>1. i - 1 \in 0 .. n
    OBVIOUS
  <2>2. e[i - 1] \in Filling /\ e[i] = step[i][e[i - 1]]
    BY <1>15, <2>1 DEF RunOf
  <2> QED
    BY <1>6, <2>2
<1>17. Fills(e, bytes, n)
  BY <1>14, <1>15, <1>16 DEF Fills, base
<1> QED
  BY <1>17

-----------------------------------------------------------------------------
(* Bytes come back from among the bytes that were put in.                  *)

\* What was put together begins with what was put together first.
BeginsWith(u, s) ==
  /\ Len(s) <= Len(u)
  /\ \A p \in 1 .. Len(s) : u[p] = s[p]

\* With more behind it.
LEMMA BeginsLonger ==
  ASSUME NEW u \in Strings, NEW v \in Strings, NEW s \in Strings, BeginsWith(u, v)
  PROVE  BeginsWith(u \o s, v)
<1> PICK w : w = u \o s
  OBVIOUS
<1>1. IsJoined(w, u, s)
  BY Joined DEF Strings
<1>2. Len(u) \in Nat /\ Len(v) \in Nat /\ Len(s) \in Nat
  BY DEF Strings
<1>3. Len(w) = Len(u) + Len(s) /\ \A p \in 1 .. Len(u) : w[p] = u[p]
  BY <1>1 DEF IsJoined
<1>4. Len(v) <= Len(u) /\ \A p \in 1 .. Len(v) : u[p] = v[p]
  BY DEF BeginsWith
<1>5. \A p \in 1 .. Len(v) : p \in 1 .. Len(u)
  BY <1>2, <1>4
<1>6. BeginsWith(w, v)
  BY <1>2, <1>3, <1>4, <1>5 DEF BeginsWith
<1> QED
  BY <1>6

\* With less of the beginning.
LEMMA BeginsLess ==
  ASSUME NEW u \in Strings, NEW s \in Strings, NEW t \in Strings, BeginsWith(u, s \o t)
  PROVE  BeginsWith(u, s)
<1> PICK w : w = s \o t
  OBVIOUS
<1>1. IsJoined(w, s, t)
  BY Joined DEF Strings
<1>2. Len(u) \in Nat /\ Len(s) \in Nat /\ Len(t) \in Nat
  BY DEF Strings
<1>3. Len(w) = Len(s) + Len(t) /\ \A p \in 1 .. Len(s) : w[p] = s[p]
  BY <1>1 DEF IsJoined
<1>4. Len(w) <= Len(u) /\ \A p \in 1 .. Len(w) : u[p] = w[p]
  BY DEF BeginsWith
<1>5. \A p \in 1 .. Len(s) : p \in 1 .. Len(w)
  BY <1>2, <1>3
<1> QED
  BY <1>2, <1>3, <1>4, <1>5 DEF BeginsWith

\* What is put together begins with each of its beginnings.
LEMMA JoinsBegin ==
  ASSUME NEW n \in Nat, NEW seqs \in [1 .. n -> Strings], NEW f, JoinsUp(f, Bits, n, seqs),
         NEW i \in 0 .. n
  PROVE  BeginsWith(f[n], f[i])
<1>1. \A k \in 0 .. n : f[k] \in Strings
  BY DEF JoinsUp, Strings
<1>2. \A k \in 1 .. n : f[k] = f[k - 1] \o seqs[k] /\ seqs[k] \in Strings
  <2>1. \A k \in 1 .. n : f[k] = f[k - 1] \o seqs[k]
    BY DEF JoinsUp
  <2>2. \A k \in 1 .. n : seqs[k] \in Strings
    OBVIOUS
  <2> QED
    BY <2>1, <2>2
<1> DEFINE All == {k \in Nat : i + k <= n => BeginsWith(f[i + k], f[i])}
<1>3. 0 \in All
  <2>1. i + 0 = i /\ i \in 0 .. n
    OBVIOUS
  <2>2. Len(f[i]) \in Nat
    BY <1>1, <2>1 DEF Strings
  <2>3. BeginsWith(f[i], f[i])
    BY <2>2 DEF BeginsWith
  <2> QED
    BY <2>1, <2>3
<1>4. ASSUME NEW k \in Nat, k \in All PROVE k + 1 \in All
  <2> SUFFICES ASSUME i + (k + 1) <= n PROVE BeginsWith(f[i + (k + 1)], f[i])
    OBVIOUS
  <2> PICK a \in 1 .. n : a = i + (k + 1)
    OBVIOUS
  <2>1. a - 1 = i + k /\ a - 1 \in 0 .. n /\ i + k <= n
    OBVIOUS
  <2>2. BeginsWith(f[a - 1], f[i]) /\ f[a - 1] \in Strings /\ seqs[a] \in Strings /\ f[i] \in Strings
    BY <1>1, <1>2, <1>4, <2>1
  <2>3. BeginsWith(f[a - 1] \o seqs[a], f[i])
    BY <2>2, BeginsLonger
  <2>4. f[a] = f[a - 1] \o seqs[a]
    BY <1>2
  <2> QED
    BY <2>3, <2>4
<1>5. n - i \in All
  <2>1. n - i \in Nat
    OBVIOUS
  <2> HIDE DEF All
  <2> QED
    BY <1>3, <1>4, <2>1, SetInduction
<1>6. i + (n - i) = n /\ n <= n
  OBVIOUS
<1> QED
  BY <1>5, <1>6

\* A string of k bytes, and the byte after them.
IsBytes(s, k) == Len(s) = k * BYTE
ByteIsAt(u, k, t) == ByteOf(u, k + 1) = t /\ (k + 1) * BYTE <= Len(u)

\* One byte more.
LEMMA OneByteMore ==
  ASSUME NEW s \in Strings, NEW t \in Strings, NEW k \in Nat, IsBytes(s, k), Len(t) = BYTE
  PROVE  IsBytes(s \o t, k + 1)
<1> PICK w : w = s \o t
  OBVIOUS
<1>1. IsJoined(w, s, t)
  BY Joined DEF Strings
<1>2. (k + 1) * BYTE = k * BYTE + BYTE
  BY HuffmanAssumption
<1>3. Len(w) = k * BYTE + BYTE
  BY <1>1 DEF IsJoined, IsBytes
<1>4. IsBytes(w, k + 1)
  BY <1>2, <1>3 DEF IsBytes
<1> QED
  BY <1>4

\* The byte behind a beginning is found there.
LEMMA ByteStays ==
  ASSUME NEW u \in Strings, NEW s \in Strings, NEW t \in Strings, BeginsWith(u, s \o t),
         NEW k \in Nat, IsBytes(s, k), Len(t) = BYTE
  PROVE  ByteIsAt(u, k, t)
<1> PICK b \in Nat : b = BYTE
  BY HuffmanAssumption
<1> PICK a \in Nat : a = k * b
  OBVIOUS
<1>1. (k + 1) * b = a + b
  OBVIOUS
<1> PICK w : w = s \o t
  OBVIOUS
<1>2. t \in Seq(Bits) /\ IsJoined(w, s, t)
  BY Joined DEF Strings
<1>3. Len(w) = a + b /\ \A x \in 1 .. b : w[a + x] = t[x]
  BY <1>2 DEF IsJoined, IsBytes
<1>4. a + b <= Len(u) /\ \A x \in 1 .. b : u[a + x] = t[x]
  <2>1. \A x \in 1 .. b : a + x \in 1 .. a + b
    <3>1. \A c \in Nat : \A x \in 1 .. b : c + x \in 1 .. c + b
      OBVIOUS
    <3> QED
      BY <3>1, Zenon
  <2> QED
    BY <1>3, <2>1 DEF BeginsWith
<1>5. ByteOf(u, k + 1) = PartOf(u, k * BYTE, BYTE)
  BY <1>1, <1>4, ByteIs
<1>6. PartOf(u, a, b) = [x \in 1 .. b |-> t[x]]
  BY <1>4 DEF PartOf
<1>7. [x \in 1 .. b |-> t[x]] = t
  BY <1>2
<1> QED
  BY <1>1, <1>4, <1>5, <1>6, <1>7 DEF ByteIsAt

\* Part after part.
PartsAreOne(u, a, b) == PartOf(u, 0, a) \o PartOf(u, a, b) = PartOf(u, 0, a + b)

\* A sequence is the part of another that it agrees with.
LEMMA SequenceIs ==
  ASSUME NEW s \in Strings, NEW n \in Nat, NEW u, Len(s) = n, \A x \in 1 .. n : s[x] = u[0 + x]
  PROVE  s = PartOf(u, 0, n)
<1>1. s = [x \in 1 .. n |-> s[x]]
  BY DEF Strings
<1> QED
  BY <1>1 DEF PartOf

\* Two parts are one.
LEMMA PartsJoin ==
  ASSUME NEW u \in Strings, NEW a \in Nat, NEW b \in Nat, a + b <= Len(u)
  PROVE  PartsAreOne(u, a, b)
<1> PICK s : s = PartOf(u, 0, a)
  OBVIOUS
<1> PICK t : t = PartOf(u, a, b)
  OBVIOUS
<1> PICK w : w = s \o t
  OBVIOUS
<1>1. IsPart(u, 0, a) /\ IsPart(u, a, b)
  <2>1. Len(u) \in Nat /\ 0 + a <= Len(u) /\ 0 \in Nat
    BY DEF Strings
  <2> QED
    BY <2>1, PartIs
<1>2. s \in Seq(Bits) /\ t \in Seq(Bits) /\ Len(s) = a /\ Len(t) = b
  BY <1>1 DEF IsPart, Strings
<1>3. w \in Strings /\ IsJoined(w, s, t)
  BY <1>2, Joined DEF Strings
<1>4. Len(w) = a + b
  BY <1>2, <1>3 DEF IsJoined
<1>5. ASSUME NEW x \in 1 .. a + b PROVE w[x] = u[0 + x]
  <2>1. CASE x <= a
    <3>1. x \in 1 .. a
      BY <2>1
    <3> QED
      BY <1>2, <1>3, <3>1 DEF IsJoined, PartOf
  <2>2. CASE ~(x <= a)
    <3> PICK y \in 1 .. b : x = a + y
      <4>1. x - a \in 1 .. b /\ x = a + (x - a)
        BY <2>2
      <4> QED
        BY <4>1
    <3> QED
      BY <1>2, <1>3 DEF IsJoined, PartOf
  <2> QED
    BY <2>1, <2>2
<1>6. w = PartOf(u, 0, a + b)
  <2> PICK n \in Nat : n = a + b
    OBVIOUS
  <2> QED
    BY <1>3, <1>4, <1>5, SequenceIs
<1> QED
  BY <1>6 DEF PartsAreOne

\* The decoder has read m bytes, and holds d.
ReadsBytes(e, bytes) == Fills(e, bytes, Len(bytes) \div BYTE)
HasRead(e, s, d) == \E m \in Nat : IsBytes(s, m) /\ e[m] = Fill(FALSE, d)

Taken(e, l, t) == e[l + 1] = Take(e[l], t)

\* The decoder takes the byte that is there.
LEMMA TakesAt ==
  ASSUME NEW bytes \in Strings, NEW e, ReadsBytes(e, bytes),
         NEW l \in Nat, NEW t, ByteIsAt(bytes, l, t)
  PROVE  Taken(e, l, t)
<1> PICK b \in Nat : b = BYTE /\ b > 0
  BY HuffmanAssumption
<1> PICK x \in Nat : x = Len(bytes)
  BY DEF Strings
<1>1. x \div b >= l + 1
  <2>1. (l + 1) * b = b * (l + 1) /\ l + 1 \in Nat
    OBVIOUS
  <2>2. x >= b * (l + 1)
    BY <2>1 DEF ByteIsAt
  <2> QED
    BY <2>1, <2>2, QuotientIsAtLeast
<1>2. l + 1 \in 1 .. x \div b /\ (l + 1) - 1 = l
  BY <1>1, Division
<1>3. \A i \in 1 .. x \div b : e[i] = Take(e[i - 1], ByteOf(bytes, i))
  BY DEF ReadsBytes, Fills
<1> QED
  BY <1>2, <1>3 DEF ByteIsAt, Taken

\* A byte, stuffed or not, is read as what it was.
LEMMA ReadsByte ==
  ASSUME NEW bytes \in Strings, NEW e, ReadsBytes(e, bytes),
         NEW s \in Strings, NEW byte \in Strings, Len(byte) = BYTE,
         BeginsWith(bytes, s \o Stuffed(byte)), NEW d, HasRead(e, s, d)
  PROVE  HasRead(e, s \o Stuffed(byte), d \o byte)
<1> PICK l \in Nat : IsBytes(s, l) /\ e[l] = Fill(FALSE, d)
  BY DEF HasRead
<1>1. l + 1 \in Nat /\ (l + 1) + 1 \in Nat
  OBVIOUS
<1>2. CASE byte # Ones(BYTE)
  <2>1. Stuffed(byte) = byte
    BY <1>2 DEF Stuffed
  <2>2. ByteIsAt(bytes, l, byte)
    BY <2>1, ByteStays
  <2>3. e[l + 1] = Take(Fill(FALSE, d), byte)
    <3>1. Taken(e, l, byte)
      BY <2>2, TakesAt
    <3> QED
      BY <3>1 DEF Taken
  <2>4. e[l + 1] = Fill(FALSE, d \o byte)
    BY <1>2, <2>3, TakesByte
  <2>5. IsBytes(s \o byte, l + 1)
    BY OneByteMore
  <2> QED
    BY <1>1, <2>1, <2>4, <2>5 DEF HasRead
<1>3. CASE byte = Ones(BYTE)
  <2> PICK zeros \in Strings : zeros = Zeros(BYTE) /\ Len(zeros) = BYTE
    BY OnesAndZeros
  <2> PICK t \in Strings : t = s \o byte
    BY StringsJoin
  <2>1. s \o Stuffed(byte) = t \o zeros
    <3>1. \A a, b, c \in Strings : Associate(a, b, c)
      BY StringsJoin DEF Associate
    <3>2. Associate(s, byte, zeros)
      BY <3>1
    <3> QED
      BY <1>3, <3>2 DEF Stuffed, Associate
  <2>2. BeginsWith(bytes, t \o zeros)
    BY <2>1
  <2>3. BeginsWith(bytes, t)
    BY <2>2, BeginsLess
  <2>4. IsBytes(t, l + 1) /\ ByteIsAt(bytes, l, byte)
    BY <2>3, OneByteMore, ByteStays
  <2>5. IsBytes(t \o zeros, (l + 1) + 1) /\ ByteIsAt(bytes, l + 1, zeros)
    BY <1>1, <2>2, <2>4, OneByteMore, ByteStays
  <2>6. Taken(e, l, byte) /\ Taken(e, l + 1, zeros)
    BY <1>1, <2>4, <2>5, TakesAt
  <2>7. e[l + 1] = Take(e[l], byte) /\ e[(l + 1) + 1] = Take(e[l + 1], zeros)
    BY <2>6 DEF Taken
  <2>8. e[(l + 1) + 1] = Fill(FALSE, d \o byte)
    BY <1>3, <2>7, TakesOnes
  <2> QED
    BY <1>1, <2>1, <2>5, <2>8 DEF HasRead
<1> QED
  BY <1>2, <1>3

\* The bytes, each stuffed if it has to be.
Bytes(padded, n) == [k \in 1 .. n |-> Stuffed(ByteOf(padded, k))]
HoldsBytes(u, n) == n * BYTE <= Len(u)

\* Each byte, and the part before it.
LEMMA ByteAmong ==
  ASSUME NEW u \in Strings, NEW n \in Nat, HoldsBytes(u, n), NEW k \in Nat, k + 1 <= n
  PROVE  /\ ByteOf(u, k + 1) \in Strings /\ Len(ByteOf(u, k + 1)) = BYTE
         /\ ByteOf(u, k + 1) = PartOf(u, k * BYTE, BYTE)
         /\ PartsAreOne(u, k * BYTE, BYTE)
<1> PICK b \in Nat : b = BYTE
  BY HuffmanAssumption
<1>1. (k + 1) * b <= n * b
  <2>1. \A x, y \in Nat : x <= y => x * b <= y * b
    <3> SUFFICES ASSUME NEW x \in Nat, NEW y \in Nat, x <= y PROVE x * b <= y * b
      OBVIOUS
    <3> PICK d \in Nat : y = x + d
      <4>1. y - x \in Nat /\ y = x + (y - x)
        OBVIOUS
      <4> QED
        BY <4>1
    <3>1. (x + d) * b = x * b + d * b /\ d * b \in Nat /\ x * b \in Nat
      OBVIOUS
    <3> QED
      BY <3>1
  <2> QED
    BY <2>1
<1>2. (k + 1) * BYTE <= Len(u)
  <2> PICK l \in Nat : l = Len(u)
    BY DEF Strings
  <2>1. (k + 1) * b \in Nat /\ n * b \in Nat /\ n * b <= l
    BY DEF HoldsBytes
  <2> QED
    BY <1>1, <2>1
<1>3. k * BYTE \in Nat /\ k * BYTE + BYTE <= Len(u)
  <2>1. (k + 1) * b = k * b + b /\ k * b \in Nat
    OBVIOUS
  <2> QED
    BY <1>2, <2>1
<1>4. PartsAreOne(u, k * BYTE, BYTE)
  <2> PICK a \in Nat : a = k * BYTE
    BY <1>3
  <2>1. a + b <= Len(u)
    BY <1>3
  <2>2. PartsAreOne(u, a, b)
    BY <2>1, PartsJoin
  <2> QED
    BY <2>2
<1> QED
  BY <1>2, <1>4, ByteIs

\* They are strings.
LEMMA BytesAre ==
  ASSUME NEW u \in Strings, NEW n \in Nat, HoldsBytes(u, n)
  PROVE  Bytes(u, n) \in [1 .. n -> Strings]
<1> SUFFICES ASSUME NEW k \in 1 .. n PROVE Stuffed(ByteOf(u, k)) \in Strings
  BY DEF Bytes
<1> PICK i \in Nat : k = i + 1
  <2>1. k - 1 \in Nat /\ k = (k - 1) + 1
    OBVIOUS
  <2> QED
    BY <2>1
<1>1. ByteOf(u, k) \in Strings
  BY ByteAmong
<1> QED
  BY <1>1, OnesAndZeros, StringsJoin DEF Stuffed

\* After as many bytes, the decoder holds what the encoder was given.
LEMMA ReadsAll ==
  ASSUME NEW u \in Strings, NEW n \in Nat, HoldsBytes(u, n),
         NEW f, JoinsUp(f, Bits, n, Bytes(u, n)), NEW e, ReadsBytes(e, f[n])
  PROVE  HasRead(e, f[n], PartOf(u, 0, n * BYTE))
<1> DEFINE All == {i \in Nat : i <= n => HasRead(e, f[i], PartOf(u, 0, i * BYTE))}
<1>1. Bytes(u, n) \in [1 .. n -> Strings]
  BY BytesAre
<1>2. \A k \in 0 .. n : f[k] \in Strings /\ BeginsWith(f[n], f[k])
  <2>1. \A k \in 0 .. n : f[k] \in Strings
    BY DEF JoinsUp, Strings
  <2> QED
    BY <1>1, <2>1, JoinsBegin
<1>3. f[0] = <<>> /\ \A k \in 1 .. n : f[k] = f[k - 1] \o Stuffed(ByteOf(u, k))
  BY DEF JoinsUp, Bytes
<1>4. 0 \in All
  <2>1. 0 * BYTE = 0
    BY HuffmanAssumption
  <2>2. IsBytes(f[0], 0)
    BY <1>3, <2>1 DEF IsBytes
  <2>3. PartOf(u, 0, 0 * BYTE) = <<>>
    BY <2>1 DEF PartOf
  <2>4. e[0] = Fill(FALSE, <<>>)
    BY DEF ReadsBytes, Fills
  <2> QED
    BY <2>2, <2>3, <2>4 DEF HasRead
<1>5. ASSUME NEW k \in Nat, k \in All PROVE k + 1 \in All
  <2> SUFFICES ASSUME k + 1 <= n PROVE HasRead(e, f[k + 1], PartOf(u, 0, (k + 1) * BYTE))
    OBVIOUS
  <2>1. k <= n /\ k \in 0 .. n /\ k + 1 \in 1 .. n /\ k + 1 \in 0 .. n /\ (k + 1) - 1 = k /\ n \in 0 .. n
    OBVIOUS
  <2> PICK byte \in Strings : byte = ByteOf(u, k + 1) /\ Len(byte) = BYTE /\ byte = PartOf(u, k * BYTE, BYTE)
    BY ByteAmong
  <2> PICK d : d = PartOf(u, 0, k * BYTE)
    OBVIOUS
  <2> PICK s \in Strings : s = f[k]
    BY <1>2, <2>1
  <2> PICK whole \in Strings : whole = f[n]
    BY <1>2, <2>1
  <2>2. f[k + 1] = s \o Stuffed(byte)
    BY <1>3, <2>1
  <2>3. BeginsWith(whole, s \o Stuffed(byte)) /\ ReadsBytes(e, whole) /\ HasRead(e, s, d)
    BY <1>2, <1>5, <2>1, <2>2
  <2>4. HasRead(e, s \o Stuffed(byte), d \o byte)
    BY <2>3, ReadsByte
  <2>5. d \o byte = PartOf(u, 0, (k + 1) * BYTE)
    <3>1. PartsAreOne(u, k * BYTE, BYTE)
      BY ByteAmong
    <3>2. (k + 1) * BYTE = k * BYTE + BYTE
      BY HuffmanAssumption
    <3> QED
      BY <3>1, <3>2 DEF PartsAreOne
  <2> QED
    BY <2>2, <2>4, <2>5
<1>6. n \in All
  <2> HIDE DEF All
  <2> QED
    BY <1>4, <1>5, SetInduction
<1>7. n <= n
  OBVIOUS
<1> QED
  BY <1>6, <1>7

\* All bytes come back.
LEMMA BytesComeBack ==
  ASSUME NEW u \in Strings, NEW n \in Nat, HoldsBytes(u, n),
         NEW f, JoinsUp(f, Bits, n, Bytes(u, n))
  PROVE  f[n] \in Strings /\ FillBitBuffer(f[n]) = PartOf(u, 0, n * BYTE)
<1>1. n \in 0 .. n
  OBVIOUS
<1> PICK bytes \in Strings : bytes = f[n]
  BY <1>1 DEF JoinsUp, Strings
<1> PICK l \in Nat : l = Len(bytes)
  BY DEF Strings
<1> PICK b \in Nat : b = BYTE /\ b > 0
  BY HuffmanAssumption
<1>2. l \div b \in Nat
  <2>1. l >= b * 0 /\ l \div b \in Int
    BY Division
  <2>2. l \div b >= 0
    BY <2>1, QuotientIsAtLeast
  <2>3. \A q \in Int : q >= 0 => q \in Nat
    OBVIOUS
  <2> QED
    BY <2>1, <2>2, <2>3, Zenon
<1>3. \E e : Fills(e, bytes, Len(bytes) \div BYTE)
  BY <1>2, FillIs
<1> PICK e : ReadsBytes(e, bytes)
  BY <1>3 DEF ReadsBytes
<1>4. HasRead(e, bytes, PartOf(u, 0, n * BYTE))
  BY ReadsAll
<1> PICK m \in Nat : IsBytes(bytes, m) /\ e[m] = Fill(FALSE, PartOf(u, 0, n * BYTE))
  BY <1>4 DEF HasRead
<1>5. l \div b = m
  <2>1. \A x \in Nat : (b * x + 0) \div b = x
    BY DivisionIs
  <2>2. l = b * m + 0
    BY DEF IsBytes
  <2> QED
    BY <2>1, <2>2
<1>6. FillBitBuffer(bytes) = e[m].data
  BY <1>5 DEF ReadsBytes, Fills
<1> QED
  BY <1>6 DEF Fill

\* The bytes of a string that ends in ones.
LEMMA EmittedIs ==
  ASSUME NEW u \in Strings, NEW n \in Nat, HoldsBytes(u, n)
  PROVE  /\ FlattenSeq(Bytes(u, n)) \in Strings
         /\ FillBitBuffer(FlattenSeq(Bytes(u, n))) = PartOf(u, 0, n * BYTE)
<1>1. \E f : JoinsUp(f, Bits, n, Bytes(u, n))
  <2>1. CASE n = 0
    <3> DEFINE f == [i \in 0 .. n |-> <<>>]
    <3>1. Bytes(u, n) = <<>>
      BY <2>1 DEF Bytes
    <3>2. FlattenSeq(<<>>) = <<>>
      BY DEF FlattenSeq
    <3>3. f \in [0 .. n -> Seq(Bits)] /\ f[0] = <<>> /\ f[n] = <<>>
      BY StringsJoin DEF Strings
    <3>4. \A i \in 1 .. n : FALSE
      BY <2>1
    <3> HIDE DEF f
    <3>5. JoinsUp(f, Bits, n, Bytes(u, n))
      BY <3>1, <3>2, <3>3, <3>4 DEF JoinsUp
    <3> QED
      BY <3>5
  <2>2. CASE n # 0
    <3>1. n \in Nat \ {0}
      BY <2>2
    <3>2. Bytes(u, n) \in [1 .. n -> Seq(Bits)]
      BY BytesAre DEF Strings
    <3> QED
      BY <3>1, <3>2, Flattened
  <2> QED
    BY <2>1, <2>2
<1> PICK f : JoinsUp(f, Bits, n, Bytes(u, n))
  BY <1>1
<1>2. f[n] \in Strings /\ FillBitBuffer(f[n]) = PartOf(u, 0, n * BYTE)
  BY BytesComeBack
<1>3. FlattenSeq(Bytes(u, n)) = f[n]
  BY DEF JoinsUp
<1> QED
  BY <1>2, <1>3

(***************************************************************************)
(* Any string of bits comes through emit_bits and jpeg_fill_bit_buffer as  *)
(* it was, with the ones behind it that fill its last byte: no byte of it  *)
(* is taken for a marker, and none that was put in after a byte of ones is *)
(* taken for data.                                                         *)
(***************************************************************************)
THEOREM BytesAreRead ==
  ASSUME NEW s \in Seq(Bits)
  PROVE  /\ EmitBits(s) \in Seq(Bits)
         /\ \E r \in 0 .. BYTE - 1 : FillBitBuffer(EmitBits(s)) = s \o Ones(r)
<1> PICK b \in Nat : b = BYTE /\ b > 0
  BY HuffmanAssumption
<1> PICK l \in Nat : l = Len(s)
  OBVIOUS
<1> PICK c \in Nat : c = b - 1
  OBVIOUS
<1>1. s \in Strings /\ \A r \in Nat : Ones(r) \in Strings /\ Len(Ones(r)) = r
  <2>1. \A r \in Nat : Ones(r) \in Seq(Bits) /\ Len(Ones(r)) = r
    BY DEF Ones, Bits
  <2> QED
    BY <2>1 DEF Strings
<1> PICK u \in Strings : u = s \o Ones(BYTE - 1)
  BY <1>1, StringsJoin
<1>2. /\ Len(u) = l + c /\ \A x \in 1 .. l : u[x] = s[x]
      /\ \A y \in 1 .. c : u[l + y] = 1
  <2> PICK ones \in Strings : ones = Ones(c) /\ Len(ones) = c
    BY <1>1
  <2>1. IsJoined(s \o ones, s, ones)
    BY Joined DEF Strings
  <2>2. \A y \in 1 .. c : ones[y] = 1
    BY DEF Ones
  <2> QED
    BY <2>1, <2>2 DEF IsJoined
<1> PICK n \in Nat, r \in 0 .. c : n = (l + c) \div b /\ n * b = l + r
  <2> DEFINE q == (l + c) \div b
             m == (l + c) % b
  <2>1. l + c \in Int
    OBVIOUS
  <2>2. q \in Int /\ m \in 0 .. b - 1 /\ l + c = b * q + m
    BY <2>1, Division
  <2> HIDE DEF q, m
  <2>3. q >= 0
    <3>1. \A x \in Int : x < 0 => b * x <= -b
      OBVIOUS
    <3> QED
      BY <2>2, <3>1
  <2>4. c - m \in 0 .. c /\ q * b = l + (c - m) /\ q \in Nat
    BY <2>2, <2>3
  <2>5. q = (l + c) \div b
    BY DEF q
  <2> QED
    BY <2>4, <2>5
<1>3. EmitBits(s) = FlattenSeq(Bytes(u, n))
  <2>1. Len(s \o Ones(BYTE - 1)) \div BYTE = n
    BY <1>2
  <2> QED
    BY <2>1 DEF EmitBits, Bytes, ByteOf
<1>4. HoldsBytes(u, n)
  <2>1. l + r <= l + c
    OBVIOUS
  <2> QED
    BY <1>2, <2>1 DEF HoldsBytes
<1>5. EmitBits(s) \in Strings /\ FillBitBuffer(EmitBits(s)) = PartOf(u, 0, n * BYTE)
  BY <1>3, <1>4, EmittedIs
<1>6. s \o Ones(r) = PartOf(u, 0, l + r)
  <2> PICK ones \in Strings : ones = Ones(r) /\ Len(ones) = r
    BY <1>1
  <2> PICK w \in Strings : w = s \o ones
    BY <1>1, StringsJoin
  <2>1. IsJoined(w, s, ones)
    BY Joined DEF Strings
  <2>2. Len(w) = l + r /\ \A x \in 1 .. l : w[x] = s[x]
    BY <2>1 DEF IsJoined
  <2>3. \A y \in 1 .. r : w[l + y] = 1
    <3>1. \A y \in 1 .. r : ones[y] = 1
      BY DEF Ones
    <3> QED
      BY <2>1, <3>1 DEF IsJoined
  <2>4. ASSUME NEW x \in 1 .. l + r PROVE w[x] = u[0 + x]
    <3>1. CASE x <= l
      <4>1. x \in 1 .. l /\ 0 + x = x
        BY <3>1
      <4> QED
        BY <1>2, <2>2, <4>1
    <3>2. CASE ~(x <= l)
      <4> PICK y \in 1 .. r : x = l + y
        <5>1. x - l \in 1 .. r /\ x = l + (x - l)
          BY <3>2
        <5> QED
          BY <5>1
      <4>1. 0 + x = l + y /\ y \in 1 .. c
        OBVIOUS
      <4>2. w[x] = 1
        BY <2>3
      <4>3. u[l + y] = 1
        BY <1>2, <4>1
      <4> QED
        BY <4>1, <4>2, <4>3
    <3> QED
      BY <3>1, <3>2
  <2> PICK k \in Nat : k = l + r
    OBVIOUS
  <2>5. w = PartOf(u, 0, k)
    BY <2>2, <2>4, SequenceIs
  <2> QED
    BY <2>5
<1>7. r \in 0 .. BYTE - 1
  OBVIOUS
<1> QED
  BY <1>5, <1>6, <1>7 DEF Strings

\* What is written for a block is a string.
LEMMA BlockIsString ==
  ASSUME Runs, NEW table, NEW m, IsCoder(table, m), NEW block, NEW last_dc_val, Codable(block, last_dc_val, m)
  PROVE  EncodeBlock(table, block, last_dc_val) \in Strings
<1>1. block \in [1 .. DCTSIZE2 -> Int] /\ last_dc_val \in Int
      /\ block[1] - last_dc_val \in Fitting(m)
      /\ \A x \in 2 .. DCTSIZE2 : block[x] \in Fitting(m)
  BY DEF Codable
<1> PICK run, out : RestOfBlock(table, block, run, out) /\ Done(table, block, DCTSIZE2 - 1, run, out)
  BY <1>1, RestIsDone
<1> PICK diff : diff = block[1] - last_dc_val
  OBVIOUS
<1> PICK end : end = IF run > 0 THEN Code(table, ACPlace(0, 0)) ELSE <<>>
  OBVIOUS
<1> PICK a : a = Code(table, DCPlace(Magnitude(diff)))
  OBVIOUS
<1>2. EncodeBlock(table, block, last_dc_val) = ((a \o ValueBits(diff)) \o out) \o end
  BY DEF RestOfBlock
<1>3. diff \in Sendable /\ Magnitude(diff) \in 0 .. m
  BY <1>1, MagnitudeIs DEF Fitting, IsMagnitude
<1>4. IsSymbol(table, DCPlace(Magnitude(diff)))
  BY <1>3, DifferenceIsSymbol
<1>5. a \in Strings /\ ValueBits(diff) \in Strings /\ out \in Strings
  BY <1>3, <1>4, ValueBitsAre DEF IsSymbol, Done, Strings
<1>6. end \in Strings
  BY EndIsString, StringsJoin
<1>7. \A x, y \in Strings : x \o y \in Strings
  BY StringsJoin
<1> QED
  BY <1>2, <1>5, <1>6, <1>7

(***************************************************************************)
(* Two blocks in a row come through the encoder, its bytes, and the        *)
(* decoder as they were, the second with the first coefficient of the one  *)
(* before it.                                                              *)
(***************************************************************************)
THEOREM BlocksInARowAreDecoded ==
  ASSUME Widths, Runs, NEW bits \in Counts, Legal(bits),
         NEW m \in 0 .. 16, 1 .. RUN * (m + 1) \subseteq DOMAIN Sizes(bits),
         NEW first, NEW last_dc_val, Codable(first, last_dc_val, m),
         NEW second, Codable(second, first[1], m),
         NEW data, data = FillBitBuffer(EmitBits(EncodeBlock(DeriveTable(bits), first, last_dc_val)
                                                   \o EncodeBlock(DeriveTable(bits), second, first[1]))),
         NEW one, one = DecodeBlock(DeriveTable(bits), data, last_dc_val)
  PROVE  /\ one.block = first
         /\ DecodeBlock(DeriveTable(bits), one.rest, first[1]).block = second
<1> PICK table : table = DeriveTable(bits)
  OBVIOUS
<1>1. IsCoder(table, m)
  BY SymbolIs DEF IsCoder
<1> PICK x \in Strings : x = EncodeBlock(table, first, last_dc_val)
  BY <1>1, BlockIsString
<1> PICK y \in Strings : y = EncodeBlock(table, second, first[1])
  BY <1>1, BlockIsString
<1>2. x \o y \in Seq(Bits)
  BY StringsJoin DEF Strings
<1> PICK r \in 0 .. BYTE - 1 : FillBitBuffer(EmitBits(x \o y)) = (x \o y) \o Ones(r)
  BY <1>2, BytesAreRead
<1> PICK ones \in Strings : ones = Ones(r)
  <2>1. \A k \in Nat : Ones(k) \in Seq(Bits)
    BY DEF Ones, Bits
  <2>2. r \in Nat
    BY HuffmanAssumption
  <2> QED
    BY <2>1, <2>2 DEF Strings
<1>3. data = x \o (y \o ones) /\ y \o ones \in Seq(Bits)
  <2>1. \A a, b, c \in Strings : Associate(a, b, c)
    BY StringsJoin DEF Associate
  <2>2. Associate(x, y, ones)
    BY <2>1
  <2>3. y \o ones \in Strings
    BY StringsJoin
  <2> QED
    BY <2>2, <2>3 DEF Associate, Strings
<1>4. BlockComesBack(table, first, last_dc_val, y \o ones)
  <2> PICK t \in Strings : t = y \o ones
    BY <1>3 DEF Strings
  <2>1. BlockComesBack(table, first, last_dc_val, t)
    BY BlockIsDecoded
  <2> QED
    BY <2>1
<1>5. BlockComesBack(table, second, first[1], ones)
  BY BlockIsDecoded
<1>6. one = [k |-> DCTSIZE2 + 1, rest |-> y \o ones, block |-> first]
  <2>1. DecodeBlock(table, x \o (y \o ones), last_dc_val) = [k |-> DCTSIZE2 + 1, rest |-> y \o ones, block |-> first]
    BY <1>4 DEF BlockComesBack
  <2>2. one = DecodeBlock(table, data, last_dc_val)
    OBVIOUS
  <2> QED
    BY <1>3, <2>1, <2>2, Zenon
<1>7. DecodeBlock(table, y \o ones, first[1]) = [k |-> DCTSIZE2 + 1, rest |-> ones, block |-> second]
  BY <1>5 DEF BlockComesBack
<1>8. one.block = first /\ one.rest = y \o ones
  BY <1>6
<1>9. DecodeBlock(table, one.rest, first[1]).block = second
  <2>1. DecodeBlock(table, y \o ones, first[1]).block = second
    BY <1>7
  <2> QED
    BY <1>8, <2>1, Zenon
<1> QED
  BY <1>8, <1>9

==============================================================================
