-------------------------- MODULE JpegCoefficients --------------------------
(***************************************************************************)
(* Between the blocks of an image and the MCUs of a scan: the coefficient  *)
(* controllers of the compressor (jccoefct.c), of the transcoder           *)
(* (jctrans.c) and of the decompressor (jdcoefct.c), any of which may be   *)
(* suspended at any MCU by the entropy coder.                              *)
(*                                                                         *)
(* Blocks are records of dc and the first five of the other coefficients.  *)
(* The blocks of an image are functions of <<row, column>>, counted from   *)
(* 0, one for each component.  g is the geometry of the image, s the setup *)
(* of a scan.  A controller is where it stands in the image: the iMCU row, *)
(* the row of MCUs in it, and the MCU.                                     *)
(***************************************************************************)
EXTENDS JpegScans

ZeroAC == <<0, 0, 0, 0, 0>>
Dummy(dc) == [dc |-> dc, ac |-> ZeroAC]
Rows(n) == 0 .. n - 1
LastRow(g) == g.total_iMCU_rows - 1

start_iMCU_row(row) == [iMCU_row |-> row, MCU_vert_offset |-> 0, mcu_ctr |-> 0]

MCU_rows_per_iMCU_row(g, s, row) ==
  IF Len(s.comps) > 1 THEN 1
  ELSE IF row < LastRow(g) THEN s.comp[1].v ELSE s.comp[1].last_row_height

\* The MCUs that are left in an iMCU row.
Remaining(g, s, k) ==
  LET rows == MCU_rows_per_iMCU_row(g, s, k.iMCU_row) - k.MCU_vert_offset
  IN [n \in 1 .. rows * s.MCUs_per_row - k.mcu_ctr |->
        [row |-> k.iMCU_row,
         y |-> k.MCU_vert_offset + (n - 1 + k.mcu_ctr) \div s.MCUs_per_row,
         col |-> (n - 1 + k.mcu_ctr) % s.MCUs_per_row]]

\* A call that is suspended after n MCUs goes on there the next time.
\* Variant (AdvancedInRow): the row in the iMCU row is not remembered.
AdvancedInRow(g, s, k, n) ==
  LET left == Remaining(g, s, k)
  IN IF n < Len(left) THEN [k EXCEPT !.mcu_ctr = left[n + 1].col]
     ELSE start_iMCU_row(k.iMCU_row + 1)

Advanced(g, s, k, n) ==
  LET left == Remaining(g, s, k)
  IN IF n < Len(left)
     THEN [k EXCEPT !.MCU_vert_offset = left[n + 1].y, !.mcu_ctr = left[n + 1].col]
     ELSE start_iMCU_row(k.iMCU_row + 1)

-----------------------------------------------------------------------------
(* The compressor.                                                         *)

\* Rows of blocks of each component in an MCU, in their order.
BlockRows(s) ==
  FlattenSeq([i \in DOMAIN s.comp |->
    [y \in 1 .. s.comp[i].MCU_height |-> [comp |-> s.comp[i], y |-> y - 1]]])

IsReal(g, p, r) == p.row < LastRow(g) \/ p.y + r.y < r.comp.last_row_height
Useful(s, p, comp) == IF p.col < s.MCUs_per_row - 1 THEN comp.MCU_width ELSE comp.last_col_width
Place(p, r, x) == <<p.row * r.comp.v + p.y + r.y, p.col * r.comp.MCU_width + x - 1>>

(***************************************************************************)
(* compress_data: an MCU from the image.  Beyond its right and lower edges *)
(* there are dummies that cost little, with the dc of the block before.    *)
(***************************************************************************)
PassThruMCU(g, s, image, p) ==
  LET Row(mcu, r) ==
        LET n == Useful(s, p, r.comp)
            real == [x \in 1 .. n |-> image[r.comp.ci][Place(p, r, x)]]
        IN mcu \o IF IsReal(g, p, r)
                  THEN real \o [x \in 1 .. r.comp.MCU_width - n |-> Dummy(Last(real).dc)]
                  ELSE [x \in 1 .. r.comp.MCU_width |-> Dummy(Last(mcu).dc)]
  IN FoldLeft(Row, <<>>, BlockRows(s))

\* compress_output of the transcoder, for arrays without dummies.
TranscodeMCU(g, s, arrays, p) ==
  LET Row(mcu, r) ==
        LET real == IF ~IsReal(g, p, r) THEN <<>>
                    ELSE [x \in 1 .. Useful(s, p, r.comp) |-> arrays[r.comp.ci][Place(p, r, x)]]
        IN FoldLeft(LAMBDA m, x : Append(m, Dummy(Last(m).dc)), mcu \o real,
                    [x \in 1 .. r.comp.MCU_width - Len(real) |-> x])
  IN FoldLeft(Row, <<>>, BlockRows(s))

\* The arrays of a compressor that keeps the whole image, dummies included.
PaddedPlaces(c) ==
  Rows(jdiv_round_up(c.height_in_blocks, c.v) * c.v)
    \X Rows(jdiv_round_up(c.width_in_blocks, c.h) * c.h)
jinit_c_coef_controller(g, junk) ==
  [ci \in DOMAIN g.comp |-> [place \in PaddedPlaces(g.comp[ci]) |-> junk]]

\* compress_first_pass: an iMCU row of every component goes to the arrays.
SaveRow(g, image, whole, row) ==
  [ci \in DOMAIN whole |->
     LET c == g.comp[ci]
         block_rows == IF row < LastRow(g) THEN c.v ELSE LastOf(c.height_in_blocks, c.v)
         Real(y, x) == image[ci][<<row * c.v + y, x>>]
         Padded(y, x) == IF x < c.width_in_blocks THEN Real(y, x)
                         ELSE Dummy(Real(y, c.width_in_blocks - 1).dc)
         LastOfMCU(x) == (x \div c.h) * c.h + c.h - 1
         New(y, x) == IF y < block_rows THEN Padded(y, x)
                      ELSE Dummy(Padded(block_rows - 1, LastOfMCU(x)).dc)
     IN [place \in DOMAIN whole[ci] |->
           IF place[1] \in row * c.v .. row * c.v + c.v - 1
           THEN New(place[1] - row * c.v, place[2]) ELSE whole[ci][place]]]

\* compress_output, for arrays with the dummies.
CrankMCU(s, whole, p) ==
  FlattenSeq([i \in DOMAIN BlockRows(s) |->
    LET r == BlockRows(s)[i]
    IN [x \in 1 .. r.comp.MCU_width |-> whole[r.comp.ci][Place(p, r, x)]]])

(***************************************************************************)
(* One call of compress_data in one of its forms, in which the entropy     *)
(* coder takes n MCUs, or all.                                             *)
(***************************************************************************)
Compress(g, s, mode, e, n) ==
  LET whole == IF mode = "SAVE_AND_PASS" THEN SaveRow(g, e.image, e.whole, e.k.iMCU_row)
               ELSE e.whole
      MCU(p) == CASE mode = "PASS_THRU" -> PassThruMCU(g, s, e.image, p)
                  [] mode = "transcode" -> TranscodeMCU(g, s, e.image, p)
                  [] OTHER -> CrankMCU(s, whole, p)
      left == Remaining(g, s, e.k)
  IN [e EXCEPT !.whole = whole, !.k = Advanced(g, s, e.k, n),
               !.mcus = @ \o [i \in 1 .. Lesser(n, Len(left)) |-> MCU(left[i])]]

-----------------------------------------------------------------------------
(* The decompressor.                                                       *)

\* Where the blocks of an MCU go.
PlacesOf(s, p) ==
  FlattenSeq([i \in DOMAIN BlockRows(s) |->
    LET r == BlockRows(s)[i]
    IN [x \in 1 .. r.comp.MCU_width |-> [r |-> r, x |-> x, place |-> Place(p, r, x)]]])

jinit_d_coef_controller(g) == jinit_c_coef_controller(g, Dummy(0))

Blank == "blank"
WithBlocks(s, image, p, mcu, kept) ==
  LET places == PlacesOf(s, p)
      At(ci, place) == {b \in kept : places[b].r.comp.ci = ci /\ places[b].place = place}
  IN [ci \in DOMAIN image |-> [place \in DOMAIN image[ci] |->
        IF At(ci, place) = {} THEN image[ci][place] ELSE mcu[Max(At(ci, place))]]]

\* consume_data: every block of the MCU, dummies too.
StoreMCU(s, whole, p, mcu) == WithBlocks(s, whole, p, mcu, DOMAIN mcu)

\* decompress_onepass: blocks of the image go to the output at once.
OnepassMCU(g, s, output, p, mcu) ==
  LET places == PlacesOf(s, p)
      IsUseful(b) == /\ IsReal(g, p, places[b].r)
                     /\ places[b].x <= Useful(s, p, places[b].r.comp)
  IN WithBlocks(s, output, p, mcu, {b \in DOMAIN mcu : IsUseful(b)})

\* One call, in which the entropy decoder has n MCUs, or all.
Decompress(g, s, onepass, d, n) ==
  LET left == Remaining(g, s, d.k)
      count == Lesser(n, Len(left))
      Take(x, i) == IF onepass THEN OnepassMCU(g, s, x, left[i], d.mcus[i])
                    ELSE StoreMCU(s, x, left[i], d.mcus[i])
  IN [d EXCEPT !.image = FoldLeft(Take, @, [i \in 1 .. count |-> i]),
               !.mcus = SubSeq(@, count + 1, Len(@)), !.k = Advanced(g, s, d.k, n)]

\* Variant: the last iMCU row is as high as the others.
OutputFullRows(g, ci, row) == row * g.comp[ci].v .. row * g.comp[ci].v - 1 + g.comp[ci].v

\* decompress_data: the blocks that are output of one iMCU row.
OutputRows(g, ci, row) ==
  LET c == g.comp[ci]
  IN row * c.v .. row * c.v - 1 + IF row < LastRow(g) THEN c.v ELSE LastOf(c.height_in_blocks, c.v)
OutputRow(g, whole, row) ==
  [ci \in DOMAIN whole |->
     [place \in OutputRows(g, ci, row) \X Rows(g.comp[ci].width_in_blocks) |-> whole[ci][place]]]

-----------------------------------------------------------------------------
(* Smoothing: the first coefficients are estimated from the dc of the      *)
(* blocks around.  coef_bits tells how much is known of dc and of these    *)
(* five: a coefficient to this bit, or nothing if it is -1.                *)

\* smoothing_ok; quantval are the steps of dc and of the five.
SmoothingSafe(component) ==
  0 \notin ToSet(component.quantval) /\ component.coef_bits[1] >= 0
smoothing_ok(components) ==
  /\ \A ci \in DOMAIN components : SmoothingSafe(components[ci])
  /\ \E ci \in DOMAIN components, k \in 2 .. 6 : components[ci].coef_bits[k] # 0

\* It also latches what is known of the five when an output pass begins, up
\* to the first component that forbids smoothing: input may go on meanwhile.
LatchBits(components) ==
  [ci \in DOMAIN components |->
     IF \A c \in 1 .. ci : SmoothingSafe(components[c])
     THEN [components[ci] EXCEPT !.coef_bits_latch = Tail(components[ci].coef_bits)]
     ELSE components[ci]]

AbsoluteValue(v) == IF v < 0 THEN -v ELSE v
Estimate(num, Q, Al) ==
  LET rounded == (Q * 128 + AbsoluteValue(num)) \div (Q * 256)
      pred == IF Al > 0 /\ rounded >= 2 ^ Al THEN 2 ^ Al - 1 ELSE rounded
  IN IF num >= 0 THEN pred ELSE -pred

\* What the dc around tell of the five coefficients; dc[1] to dc[9] are
\* above, beside and below the block.
Gradients(dc) ==
  <<36 * (dc[4] - dc[6]), 36 * (dc[2] - dc[8]), 9 * (dc[2] + dc[8] - 2 * dc[5]),
    5 * (dc[1] - dc[3] - dc[7] + dc[9]), 9 * (dc[4] + dc[6] - 2 * dc[5])>>

SmoothedBlock(block, dc, component) ==
  [block EXCEPT !.ac = [k \in 1 .. 5 |->
     IF component.coef_bits_latch[k] # 0 /\ @[k] = 0
     THEN Estimate(component.quantval[1] * Gradients(dc)[k], component.quantval[k + 1],
                   component.coef_bits_latch[k])
     ELSE @[k]]]

(***************************************************************************)
(* decompress_smooth_data, for one component.  The array is accessed from  *)
(* the iMCU row before to the one behind, as far as there are any; at the  *)
(* edges of the image a block is its own neighbour.                        *)
(***************************************************************************)
AccessedRows(g, ci, row) ==
  LET v == g.comp[ci].v
  IN (IF row > 0 THEN (row - 1) * v ELSE 0)
       .. (IF row < LastRow(g) THEN (row + 2) * v - 1 ELSE Max(OutputRows(g, ci, row)))

SmoothRow(g, whole, ci, row, component) ==
  LET rows == OutputRows(g, ci, row)
      last == g.comp[ci].width_in_blocks - 1
      Above(r) == IF row = 0 /\ r = Min(rows) THEN r ELSE r - 1
      Below(r) == IF row = LastRow(g) /\ r = Max(rows) THEN r ELSE r + 1
      Left(n) == IF n = 0 THEN n ELSE n - 1
      Right(n) == IF n < last THEN n + 1 ELSE n
      DC(r, n) == whole[ci][<<r, n>>].dc
      Around(r, n) == <<DC(Above(r), Left(n)), DC(Above(r), n), DC(Above(r), Right(n)),
                        DC(r, Left(n)), DC(r, n), DC(r, Right(n)),
                        DC(Below(r), Left(n)), DC(Below(r), n), DC(Below(r), Right(n))>>
  IN [place \in rows \X Rows(last + 1) |->
        SmoothedBlock(whole[ci][place], Around(place[1], place[2]), component)]

=============================================================================
