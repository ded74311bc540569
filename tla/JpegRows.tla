------------------------------ MODULE JpegRows ------------------------------
(***************************************************************************)
(* The rows of an image on their way into the compressor (jcapistd.c,      *)
(* jcmainct.c, jcprepct.c) and out of the decompressor (jdmainct.c,        *)
(* jdpostct.c, jdsample.c), in calls of a few rows each that may be        *)
(* suspended, through buffers that go round in circles when neighbouring   *)
(* rows are needed for smooth sampling.                                    *)
(*                                                                         *)
(* There is one component of v rows to every max_v rows of the image; a    *)
(* row group is v rows of it.  A row of the image is its number; a row     *)
(* that is computed is the sequence of the rows it comes from.             *)
(***************************************************************************)
EXTENDS Integers, Sequences, SequencesExt, FiniteSets

Lesser(a, b) == IF a < b THEN a ELSE b
RoundUp(a, b) == (a + b - 1) \div b
NoRow == -1

\* Rows of the image to a row of the component.
Expansion(p) == p.max_v \div p.v

-----------------------------------------------------------------------------
(* The compressor.  p.groups are the row groups of an iMCU row.            *)

iMCU_rows(p) == RoundUp(p.height, p.max_v * p.groups)

\* start_pass_main and start_pass_prep.
StartCompressing(p) ==
  [next_scanline |-> 0, in_row_ctr |-> 0,
   cur_iMCU_row |-> 0, rowgroup_ctr |-> 0, suspended |-> FALSE,
   rows_to_go |-> p.height, next_buf_row |-> 0,
   this_row_group |-> 0, next_buf_stop |-> 2 * p.max_v,
   color_buf |-> [row \in 0 .. 3 * p.max_v - 1 |-> NoRow],
   buffer |-> [row \in 0 .. p.groups * p.v - 1 |-> <<>>],
   compressed |-> <<>>]

\* create_context_buffer: beyond its ends the buffer goes on at the other end.
Slot(p, row) == row % (3 * p.max_v)

color_convert(c, num_rows) ==
  [c EXCEPT !.color_buf = [row \in DOMAIN @ |->
     IF row \in c.next_buf_row .. c.next_buf_row + num_rows - 1
     THEN c.next_scanline + c.in_row_ctr + row - c.next_buf_row ELSE @[row]]]

CountRows(c, num_rows) ==
  [c EXCEPT !.in_row_ctr = @ + num_rows, !.next_buf_row = @ + num_rows, !.rows_to_go = @ - num_rows]

\* expand_bottom_edge of the conversion buffer.
PadBuffer(p, c, end) ==
  [c EXCEPT !.next_buf_row = end,
     !.color_buf = [row \in DOMAIN @ |->
       IF row \in c.next_buf_row .. end - 1 THEN @[Slot(p, c.next_buf_row - 1)] ELSE @[row]]]

PadTop(p, c) ==
  [c EXCEPT !.color_buf = [row \in DOMAIN @ |->
     IF row \in {Slot(p, -k) : k \in 1 .. p.max_v} THEN @[0] ELSE @[row]]]

\* A row group from the rows of the image from `first' on; with context also
\* from the row before and the one behind.
downsample(p, c, first) ==
  LET e == Expansion(p)
      margin == IF p.context THEN 1 ELSE 0
      Sampled(k) == [i \in 1 .. e + 2 * margin |->
                       c.color_buf[Slot(p, first + k * e + i - 1 - margin)]]
      start == c.rowgroup_ctr * p.v
  IN [c EXCEPT !.rowgroup_ctr = @ + 1,
        !.buffer = [row \in DOMAIN @ |->
          IF row \in start .. start + p.v - 1 THEN Sampled(row - start) ELSE @[row]]]

\* expand_bottom_edge of the output.
PadOutput(p, c) ==
  LET end == c.rowgroup_ctr * p.v
  IN [c EXCEPT !.rowgroup_ctr = p.groups,
        !.buffer = [row \in DOMAIN @ |-> IF row >= end THEN @[end - 1] ELSE @[row]]]

RECURSIVE pre_process_data(_, _, _)
pre_process_data(p, c, in_rows_avail) ==
  LET num_rows == Lesser(p.max_v - c.next_buf_row, in_rows_avail - c.in_row_ctr)
      converted == CountRows(color_convert(c, num_rows), num_rows)
      padded == IF converted.rows_to_go = 0 THEN PadBuffer(p, converted, p.max_v) ELSE converted
      emptied == IF padded.next_buf_row = p.max_v
                 THEN [downsample(p, padded, 0) EXCEPT !.next_buf_row = 0] ELSE padded
  IN IF c.in_row_ctr >= in_rows_avail \/ c.rowgroup_ctr >= p.groups THEN c
     ELSE IF emptied.rows_to_go = 0 /\ emptied.rowgroup_ctr < p.groups THEN PadOutput(p, emptied)
     ELSE pre_process_data(p, emptied, in_rows_avail)

\* Pointers advance with wraparound.
NextGroup(p, c) ==
  LET wrapped == IF c.next_buf_row >= 3 * p.max_v THEN 0 ELSE c.next_buf_row
  IN [c EXCEPT !.this_row_group = Slot(p, @ + p.max_v), !.next_buf_row = wrapped,
               !.next_buf_stop = wrapped + p.max_v]

RECURSIVE pre_process_context(_, _, _)
pre_process_context(p, c, in_rows_avail) ==
  LET num_rows == Lesser(c.next_buf_stop - c.next_buf_row, in_rows_avail - c.in_row_ctr)
      converted == color_convert(c, num_rows)
      topped == IF c.rows_to_go = p.height THEN PadTop(p, converted) ELSE converted
      filled == IF c.in_row_ctr < in_rows_avail THEN CountRows(topped, num_rows)
                ELSE IF c.next_buf_row < c.next_buf_stop THEN PadBuffer(p, c, c.next_buf_stop) ELSE c
      sampled == IF filled.next_buf_row = filled.next_buf_stop
                 THEN NextGroup(p, downsample(p, filled, filled.this_row_group)) ELSE filled
  IN IF \/ c.rowgroup_ctr >= p.groups
        \/ c.in_row_ctr >= in_rows_avail /\ c.rows_to_go # 0
     THEN c ELSE pre_process_context(p, sampled, in_rows_avail)

\* Variant: every row that was read counts when the call returns.
CountAll(c) == [c EXCEPT !.suspended = TRUE]

\* The application is not to believe that it is done: the last row is taken
\* back until the compressor has taken the iMCU row.
TakeBack(c) ==
  IF c.suspended THEN c ELSE [c EXCEPT !.in_row_ctr = @ - 1, !.suspended = TRUE]

Compressed(c) ==
  [c EXCEPT !.in_row_ctr = IF c.suspended THEN @ + 1 ELSE @, !.suspended = FALSE,
            !.rowgroup_ctr = 0, !.cur_iMCU_row = @ + 1,
            !.compressed = @ \o [k \in 1 .. Cardinality(DOMAIN c.buffer) |-> c.buffer[k - 1]]]

\* In a call the compressor takes as many iMCU rows as `takes' says.
RECURSIVE process_data_simple_main(_, _, _, _)
process_data_simple_main(p, c, in_rows_avail, takes) ==
  LET read == IF c.rowgroup_ctr >= p.groups THEN c
              ELSE IF p.context THEN pre_process_context(p, c, in_rows_avail)
              ELSE pre_process_data(p, c, in_rows_avail)
  IN IF c.cur_iMCU_row = iMCU_rows(p) THEN c
     ELSE IF read.rowgroup_ctr # p.groups THEN read
     ELSE IF takes = 0 THEN TakeBack(read)
     ELSE process_data_simple_main(p, Compressed(read), in_rows_avail, takes - 1)

\* Lines beyond the bottom are ignored.
jpeg_write_scanlines(p, c, num_lines, takes) ==
  LET done == process_data_simple_main(p, [c EXCEPT !.in_row_ctr = 0],
                Lesser(num_lines, p.height - c.next_scanline), takes)
  IN [done EXCEPT !.next_scanline = @ + done.in_row_ctr]

-----------------------------------------------------------------------------
(* The decompressor.  p.groups is min_DCT_scaled_size, M; the workspace    *)
(* has M + 2 row groups when context is needed.  An iMCU row is read into  *)
(* the rows that a list of pointers tells, in one of two orders by turns,  *)
(* so that the last row groups of the one before stay where they are.      *)

downsampled_height(p) == RoundUp(p.height * p.v, p.max_v)
InIMCURow(p) == 0 .. p.groups * p.v - 1
Groups(p, first, end) == first * p.v .. end * p.v - 1

\* The first list is in the order of the workspace; the second has the last
\* four row groups swapped.
PointersOf(p, swapped) ==
  LET M == p.groups
  IN [i \in Groups(p, -1, M + 3) |->
       CASE i \in Groups(p, M - 2, M) /\ swapped -> i + 2 * p.v
         [] i \in Groups(p, M, M + 2) /\ swapped -> i - 2 * p.v
         [] i < 0 /\ ~swapped -> 0
         [] i < 0 /\ swapped -> NoRow
         [] i >= (M + 2) * p.v -> NoRow
         [] OTHER -> i]
make_funny_pointers(p) == <<PointersOf(p, FALSE), PointersOf(p, TRUE)>>

set_wraparound_pointers(p, d) ==
  [d EXCEPT !.xbuffer = [n \in 1 .. 2 |->
     [i \in DOMAIN d.xbuffer[n] |->
        CASE i < 0 -> d.xbuffer[n][i + (p.groups + 2) * p.v]
          [] i \in Groups(p, p.groups + 2, p.groups + 3) -> d.xbuffer[n][i - (p.groups + 2) * p.v]
          [] OTHER -> d.xbuffer[n][i]]]]

\* Behind the last row it comes again.
set_bottom_pointers(p, d) ==
  LET height == p.groups * p.v
      rest == downsampled_height(p) % height
      rows_left == IF rest = 0 THEN height ELSE rest
  IN [d EXCEPT !.rowgroups_avail = (rows_left - 1) \div p.v + 1,
        !.xbuffer[d.whichptr] = [i \in DOMAIN @ |->
          IF i \in rows_left .. rows_left + 2 * p.v - 1 THEN @[rows_left - 1] ELSE @[i]]]

\* start_pass_main, start_pass_upsample and start_pass_dpost.
StartOutput(p) ==
  [iMCU_row |-> 0, buffer |-> [row \in Groups(p, 0, p.groups + 2) |-> NoRow],
   xbuffer |-> make_funny_pointers(p), whichptr |-> 1, buffer_full |-> FALSE,
   rowgroup_ctr |-> 0, rowgroups_avail |-> p.groups,
   context_state |-> "PREPARE_FOR_IMCU", iMCU_row_ctr |-> 0,
   color_buf |-> <<>>, next_row_out |-> p.max_v, rows_to_go |-> p.height,
   starting_row |-> 0, next_row |-> 0,
   whole_image |-> [row \in 0 .. RoundUp(p.height, p.max_v) * p.max_v - 1 |-> <<>>],
   out_row_ctr |-> 0, output_scanline |-> 0, output |-> <<>>]

\* The coefficient controller's output.  There is nothing below the image.
decompress_data(p, d) ==
  LET pointers == d.xbuffer[d.whichptr]
      first == d.iMCU_row * p.groups * p.v
      Row(i) == IF first + i < downsampled_height(p) THEN first + i ELSE NoRow
  IN [d EXCEPT !.iMCU_row = @ + 1, !.buffer_full = TRUE, !.iMCU_row_ctr = @ + 1,
        !.buffer = [location \in DOMAIN @ |->
          IF \E i \in InIMCURow(p) : pointers[i] = location
          THEN Row(CHOOSE i \in InIMCURow(p) : pointers[i] = location) ELSE @[location]]]

(***************************************************************************)
(* A row group is upsampled into the conversion buffer: with context, two  *)
(* rows for each, one from it and the row above and one from it and the    *)
(* row below.  Of a component of full size the buffer only has pointers.   *)
(***************************************************************************)
FullSize(p) == p.v = p.max_v
Upsampled(p, d) ==
  LET At(i) == d.xbuffer[d.whichptr][i + d.rowgroup_ctr * p.v]
      Value(i) == IF At(i) = NoRow THEN NoRow ELSE d.buffer[At(i)]
      e == Expansion(p)
      Row(k) == CASE FullSize(p) -> At(k)
                  [] ~FullSize(p) /\ p.context ->
                       <<Value(k \div 2), Value((k \div 2) + IF k % 2 = 0 THEN -1 ELSE 1)>>
                  [] OTHER -> <<Value(k \div e)>>
  IN [k \in 0 .. p.max_v - 1 |-> Row(k)]

\* Rows go from the conversion buffer to `target', as many as there is room.
sep_upsample(p, d, room) ==
  LET num_rows(filled) == Lesser(Lesser(p.max_v - filled.next_row_out, filled.rows_to_go), room)
      Converted(filled, k) ==
        IF FullSize(p) THEN <<filled.buffer[filled.color_buf[k]]>> ELSE filled.color_buf[k]
      Counted(filled, n) ==
        [filled EXCEPT !.rows_to_go = @ - n, !.next_row_out = @ + n,
                       !.rowgroup_ctr = IF filled.next_row_out + n >= p.max_v THEN @ + 1 ELSE @]
      Emptied(filled, n) ==
        [rows |-> [k \in 1 .. n |-> Converted(filled, filled.next_row_out + k - 1)],
         d |-> Counted(filled, n)]
      From(filled) == Emptied(filled, num_rows(filled))
  IN From(IF d.next_row_out < p.max_v THEN d
          ELSE [d EXCEPT !.color_buf = Upsampled(p, d), !.next_row_out = 0])

EmitRows(d, rows) == [d EXCEPT !.output = @ \o rows, !.out_row_ctr = @ + Len(rows)]

strip_height(p) == p.max_v
NextStrip(p, d) ==
  IF d.next_row < strip_height(p) THEN d
  ELSE [d EXCEPT !.starting_row = @ + strip_height(p), !.next_row = 0]

\* For one pass, with or without quantization.
post_process_1pass(p, d, out_rows_avail) ==
  LET Emitted(up) == EmitRows(up.d, up.rows)
  IN Emitted(sep_upsample(p, d, Lesser(strip_height(p), out_rows_avail - d.out_row_ctr)))

\* The first of two passes only counts rows, and keeps them.
post_process_prepass(p, d, out_rows_avail) ==
  LET first == d.starting_row + d.next_row
      Kept(up, num_rows) ==
        NextStrip(p, [up.d EXCEPT !.next_row = @ + num_rows, !.out_row_ctr = @ + num_rows,
          !.whole_image = [row \in DOMAIN @ |->
            IF row \in first .. first + num_rows - 1 THEN up.rows[row - first + 1] ELSE @[row]]])
      Emitted(up) == Kept(up, Len(up.rows))
  IN Emitted(sep_upsample(p, d, strip_height(p) - d.next_row))

\* The rest of the image is counted from the beginning of the strip.
post_process_2pass(p, d, out_rows_avail) ==
  LET num_rows == Lesser(Lesser(strip_height(p) - d.next_row, out_rows_avail - d.out_row_ctr),
                         p.height - d.starting_row)
      first == d.starting_row + d.next_row
  IN NextStrip(p, [EmitRows(d, [k \in 1 .. num_rows |-> d.whole_image[first + k - 1]])
                     EXCEPT !.next_row = @ + num_rows])

post_process_data(p, d, out_rows_avail) ==
  IF p.pass = "prepass" THEN post_process_prepass(p, d, out_rows_avail)
  ELSE post_process_1pass(p, d, out_rows_avail)

-----------------------------------------------------------------------------

\* process_data_simple_main of the decompressor.
SimpleMain(p, d, out_rows_avail) ==
  LET Posted(posted) ==
        IF posted.rowgroup_ctr < p.groups THEN posted
        ELSE [posted EXCEPT !.buffer_full = FALSE, !.rowgroup_ctr = 0]
  IN Posted(post_process_data(p, d, out_rows_avail))

PrepareForIMCU(p, d) ==
  LET Bottom(prepared) ==
        IF d.iMCU_row_ctr = iMCU_rows(p) THEN set_bottom_pointers(p, prepared) ELSE prepared
  IN IF d.context_state # "PREPARE_FOR_IMCU" THEN d
     ELSE Bottom([d EXCEPT !.rowgroup_ctr = 0, !.rowgroups_avail = p.groups - 1,
                           !.context_state = "PROCESS_IMCU"])

Swallowed(d) == d.rowgroup_ctr >= d.rowgroups_avail

\* The last row group has to wait for the next iMCU row.
PostponeRow(p, d) ==
  LET Postponed(wrapped) ==
        [wrapped EXCEPT !.whichptr = 3 - @, !.buffer_full = FALSE,
           !.rowgroup_ctr = p.groups + 1, !.rowgroups_avail = p.groups + 2,
           !.context_state = "POSTPONED_ROW"]
  IN Postponed(IF d.iMCU_row_ctr = 1 THEN set_wraparound_pointers(p, d) ELSE d)

EmitPostponed(p, d, out_rows_avail) ==
  LET Posted(posted) ==
        IF Swallowed(posted) THEN [posted EXCEPT !.context_state = "PREPARE_FOR_IMCU"] ELSE posted
  IN IF d.context_state # "POSTPONED_ROW" THEN d
     ELSE Posted(post_process_data(p, d, out_rows_avail))

process_data_context_main(p, d, out_rows_avail) ==
  LET Stopped(past) ==
        \/ past.context_state = "POSTPONED_ROW"
        \/ d.context_state = "POSTPONED_ROW" /\ past.out_row_ctr >= out_rows_avail
      Posted(posted) == IF Swallowed(posted) THEN PostponeRow(p, posted) ELSE posted
      GoOn(past) ==
        IF Stopped(past) THEN past
        ELSE Posted(post_process_data(p, PrepareForIMCU(p, past), out_rows_avail))
  IN GoOn(EmitPostponed(p, d, out_rows_avail))

\* ready: the coefficient controller has an iMCU row.
process_data(p, d, out_rows_avail, ready) ==
  LET Main(loaded) ==
        IF p.context THEN process_data_context_main(p, loaded, out_rows_avail)
        ELSE SimpleMain(p, loaded, out_rows_avail)
  IN IF p.pass = "crank" THEN post_process_2pass(p, d, out_rows_avail)
     ELSE IF ~d.buffer_full /\ ~ready THEN d
     ELSE Main(IF d.buffer_full THEN d ELSE decompress_data(p, d))

jpeg_read_scanlines(p, d, max_lines, ready) ==
  LET Returned(done) == [done EXCEPT !.output_scanline = @ + done.out_row_ctr]
  IN Returned(process_data(p, [d EXCEPT !.out_row_ctr = 0], max_lines, ready))

\* The dummy pass, as far as it gets in one call of process_data.
output_pass_setup(p, d, ready) ==
  LET Returned(done) == [done EXCEPT !.output_scanline = done.out_row_ctr]
  IN Returned(process_data(p, [d EXCEPT !.out_row_ctr = d.output_scanline], p.height, ready))

\* The dummy pass is over: from now on rows come from the whole image.
CrankPass(d) == [d EXCEPT !.starting_row = 0, !.next_row = 0, !.output_scanline = 0]

=============================================================================
