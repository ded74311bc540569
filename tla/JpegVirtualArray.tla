-------------------------- MODULE JpegVirtualArray --------------------------
(***************************************************************************)
(* A virtual array of the JPEG library (jmemmgr.c), of samples or of       *)
(* blocks: an array of rows of which a window is in memory, and the rest,  *)
(* if it does not fit, in a backing store.  A caller asks for a strip of   *)
(* rows, and reads and writes it until it asks for the next one.           *)
(***************************************************************************)
EXTENDS Integers

CONSTANTS numrows, maxaccess, \* the array that is requested
          Values,             \* what callers write to a row
          Zero,               \* a row of zeros, written with pre_zero
          Junk,               \* a row that nobody has written, as it comes
                              \* out of malloc; no caller's value
          MaxAvailable,       \* answers of jpeg_mem_available, in rows
          MaxOthers           \* rows of the other arrays

ASSUME ArrayAssumption ==
  /\ numrows \in Nat \ {0} /\ maxaccess \in Nat \ {0}
  /\ MaxAvailable \in Nat /\ MaxOthers \in Nat
  /\ Junk \notin Values

VARIABLES
  rows_in_mem,     \* rows of the buffer; 0 before the array is realized
  cur_start_row,   \* first row in the buffer
  first_undef_row, \* no row from here on was ever accessed for writing
  pre_zero,        \* undefined rows are to be zero
  dirty,           \* the buffer was changed
  b_s_open,        \* there is a backing store
  mem_buffer,      \* the rows in the buffer, from 0
  backing,         \* the rows in the backing store
  strip,           \* the rows that the caller may look at
  error,           \* how the last access ended
  written          \* history: what callers have written

control == <<rows_in_mem, pre_zero, b_s_open>>
arrayVars == <<control, cur_start_row, first_undef_row, dirty, mem_buffer, backing,
               strip, error, written>>

Rows == 0 .. numrows - 1
NoStrip == [first |-> 0, end |-> 0, writable |-> FALSE]
Nothing == [row \in Rows |-> Junk]

ArrayInit ==
  /\ rows_in_mem = 0 /\ cur_start_row = 0 /\ first_undef_row = 0
  /\ pre_zero = FALSE /\ dirty = FALSE /\ b_s_open = FALSE
  /\ mem_buffer = Nothing /\ backing = Nothing
  /\ strip = NoStrip /\ error = "none" /\ written = Nothing

-----------------------------------------------------------------------------

(***************************************************************************)
(* The memory is dealt out in minheights, with maxaccess rows of each      *)
(* array in each; all arrays are in memory as a whole if that is possible, *)
(* and have one minheight if nothing is.  The other arrays need at least   *)
(* `least', and with all their rows `all'.                                 *)
(***************************************************************************)
RowsInMem(avail_mem, least, all) ==
  LET minheights == (numrows - 1) \div maxaccess + 1
      parcel == avail_mem \div (maxaccess + least)
      max_minheights == IF parcel <= 0 THEN 1 ELSE parcel
  IN IF avail_mem >= numrows + all \/ minheights <= max_minheights
     THEN numrows ELSE max_minheights * maxaccess

\* request_virt_sarray, and later realize_virt_arrays.
Realize ==
  /\ rows_in_mem = 0
  /\ \E avail_mem \in 0 .. MaxAvailable, all \in 0 .. MaxOthers : \E least \in 0 .. all :
       /\ rows_in_mem' = RowsInMem(avail_mem, least, all)
       /\ b_s_open' = (rows_in_mem' < numrows)
  /\ pre_zero' \in BOOLEAN
  /\ UNCHANGED <<cur_start_row, first_undef_row, dirty, mem_buffer, backing,
                 strip, error, written>>

\* Variant: one row too few, as if first_undef_row were the last defined one.
TransferredShort(start) == {row \in Rows : start <= row /\ row < start + rows_in_mem
                                           /\ row < first_undef_row - 1}

\* do_sarray_io: as many rows of the buffer as are defined and in the array.
Transferred(start) == {row \in Rows : start <= row /\ row < start + rows_in_mem
                                      /\ row < first_undef_row}
WriteStore == [row \in Rows |-> IF row \in Transferred(cur_start_row)
                                THEN mem_buffer[row - cur_start_row] ELSE backing[row]]
ReadStore(store, start) ==
  [k \in Rows |-> IF start + k \in Transferred(start) THEN store[start + k]
                  ELSE mem_buffer[k]]

InWindow(start, first, end) == start <= first /\ end <= start + rows_in_mem

\* Forwards, the window begins with the strip; backwards, it ends with it.
WindowFor(start_row, end_row) ==
  IF start_row > cur_start_row THEN start_row
  ELSE IF end_row > rows_in_mem THEN end_row - rows_in_mem ELSE 0

\* A writer may not leave out rows; a reader needs rows that are defined, or
\* that are zero until they are.
NotDefined(start_row, end_row, writable) ==
  /\ first_undef_row < end_row
  /\ IF writable THEN first_undef_row < start_row ELSE ~pre_zero

\* jzero_far for the rows of the strip that become defined, or seem to be.
Prezero(buffer, start, first, end) ==
  [k \in Rows |-> IF pre_zero /\ first_undef_row <= start + k
                     /\ first <= start + k /\ start + k < end
                  THEN Zero ELSE buffer[k]]

\* access_virt_sarray, access_virt_barray.
Access(start_row, end_row, writable) ==
  LET inside == InWindow(cur_start_row, start_row, end_row)
  IN /\ rows_in_mem > 0 /\ start_row < end_row
     /\ end_row <= numrows /\ end_row - start_row <= maxaccess
     /\ IF ~inside /\ ~b_s_open
        THEN /\ error' = "VIRTUAL_BUG"
             /\ UNCHANGED <<cur_start_row, first_undef_row, dirty, mem_buffer, backing, strip>>
        ELSE
        /\ cur_start_row' = IF inside THEN cur_start_row ELSE WindowFor(start_row, end_row)
        /\ backing' = IF ~inside /\ dirty THEN WriteStore ELSE backing
        /\ LET buffer == IF inside THEN mem_buffer ELSE ReadStore(backing', cur_start_row')
           IN IF NotDefined(start_row, end_row, writable)
              THEN /\ error' = "BAD_VIRTUAL_ACCESS"
                   /\ mem_buffer' = buffer
                   /\ dirty' = (dirty /\ inside)
                   /\ strip' = NoStrip
                   /\ UNCHANGED first_undef_row
              ELSE /\ error' = "none"
                   /\ mem_buffer' = Prezero(buffer, cur_start_row', start_row, end_row)
                   /\ dirty' = (writable \/ (dirty /\ inside))
                   /\ strip' = [first |-> start_row, end |-> end_row, writable |-> writable]
                   /\ first_undef_row' = IF writable /\ first_undef_row < end_row
                                         THEN end_row ELSE first_undef_row
     /\ UNCHANGED <<control, written>>

\* The caller writes to a row of the strip.
Write(row, value) ==
  /\ strip.writable /\ strip.first <= row /\ row < strip.end
  /\ mem_buffer' = [mem_buffer EXCEPT ![row - cur_start_row] = value]
  /\ written' = [written EXCEPT ![row] = value]
  /\ UNCHANGED <<control, cur_start_row, first_undef_row, dirty, backing, strip, error>>

\* free_pool: the array and its backing store go with the image.
FreePool ==
  /\ rows_in_mem > 0
  /\ rows_in_mem' = 0 /\ cur_start_row' = 0 /\ first_undef_row' = 0
  /\ pre_zero' = FALSE /\ dirty' = FALSE /\ b_s_open' = FALSE
  /\ mem_buffer' = Nothing /\ backing' = Nothing
  /\ strip' = NoStrip /\ error' = "none" /\ written' = Nothing

ArrayNext ==
  \/ Realize
  \/ \E start_row \in Rows, end_row \in 1 .. numrows, writable \in BOOLEAN :
       Access(start_row, end_row, writable)
  \/ \E row \in Rows, value \in Values : Write(row, value)
  \/ FreePool

ArraySpec == ArrayInit /\ [][ArrayNext]_arrayVars

-----------------------------------------------------------------------------

\* What a row should hold: what was last written to it, or else zero.
Holds(row, content) ==
  /\ written[row] # Junk => content = written[row]
  /\ written[row] = Junk /\ pre_zero => content = Zero

(***************************************************************************)
(* Whatever strips are asked for, forwards, backwards and overlapping, a   *)
(* caller sees in its strip what was last written to each row, or zeros    *)
(* where nothing was if the array was requested so; the strip is in the    *)
(* buffer; and the window only ever moves with a store behind it.          *)
(***************************************************************************)
StripIsCurrent ==
  /\ error # "VIRTUAL_BUG"
  /\ \A row \in strip.first .. strip.end - 1 :
       /\ row - cur_start_row \in 0 .. rows_in_mem - 1
       /\ Holds(row, mem_buffer[row - cur_start_row])

=============================================================================
