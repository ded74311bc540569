---------------------------- MODULE JpegPalette ----------------------------
(***************************************************************************)
(* Output in a palette: the fixed cube of colors (jquant1.c), the colors   *)
(* chosen for an image or given by the application (jquant2.c), and the    *)
(* change from one to another between two output passes (jdmaster.c).      *)
(*                                                                         *)
(* A pixel is the sequence of its samples, a row the sequence of its       *)
(* pixels, a colormap a sequence of colors; codes count from 0.            *)
(***************************************************************************)
EXTENDS Integers, Sequences, FiniteSetsExt, SequencesExt, Functions

MAXJSAMPLE == 255
MAXNUMCOLORS == MAXJSAMPLE + 1
Beyond == -1   \* memory outside of a table
None == "none"

range_limit(x) == IF x < 0 THEN 0 ELSE IF x > MAXJSAMPLE THEN MAXJSAMPLE ELSE x

-----------------------------------------------------------------------------
(* Floyd-Steinberg dithering.  One array holds the errors, in sixteenths:  *)
(* of this row where it is not processed yet, of the next row behind.      *)

NoErrors(width) == [col \in 0 .. width + 1 |-> 0]

\* Odd rows go from right to left.
Columns(width, odd) == [k \in 1 .. width |-> IF odd THEN width + 1 - k ELSE k]
Behind(col, odd) == IF odd THEN col + 1 ELSE col - 1

BeginLine(errors) == [cur |-> 0, belowerr |-> 0, bpreverr |-> 0, fserrors |-> errors]
ErrorFor(line, col) == (line.cur + line.fserrors[col] + 8) \div 16
Spread(line, error, behind) ==
  [cur |-> 7 * error, belowerr |-> error, bpreverr |-> line.belowerr + 5 * error,
   fserrors |-> [line.fserrors EXCEPT ![behind] = line.bpreverr + 3 * error]]
EndLine(line, last) == [line.fserrors EXCEPT ![last] = line.bpreverr]
LastColumn(width, odd) == IF odd THEN 1 ELSE width

-----------------------------------------------------------------------------
(* One pass: a cube of colors.  Ncolors gives the values of each component.*)

Total(Ncolors) == FoldLeft(LAMBDA total, n : total * n, 1, Ncolors)
\* No more than MAXNUMCOLORS are asked for: 16 is enough for two components.
LargestRoot(nc, max_colors) ==
  Max({r \in 1 .. IF nc = 1 THEN max_colors ELSE 16 : r ^ nc <= max_colors})

IncrementOrder(nc, isRGB) == IF isRGB THEN <<2, 1, 3>> ELSE [i \in 1 .. nc |-> i]

\* One more value for component j, unless an earlier one did not fit.
Increment(c, j, max_colors) ==
  LET more == [c.Ncolors EXCEPT ![j] = @ + 1]
  IN IF c.full \/ Total(more) > max_colors THEN [c EXCEPT !.full = TRUE]
     ELSE [c EXCEPT !.Ncolors = more, !.changed = TRUE]

RECURSIVE IncrementAll(_, _, _)
IncrementAll(Ncolors, order, max_colors) ==
  LET pass == FoldLeft(LAMBDA c, j : Increment(c, j, max_colors),
                       [Ncolors |-> Ncolors, full |-> FALSE, changed |-> FALSE], order)
  IN IF pass.changed THEN IncrementAll(pass.Ncolors, order, max_colors) ELSE Ncolors

\* Empty: JERR_QUANT_FEW_COLORS.
select_ncolors(nc, isRGB, max_colors) ==
  LET root == LargestRoot(nc, max_colors)
  IN IF root < 2 THEN <<>>
     ELSE IncrementAll([i \in 1 .. nc |-> root], IncrementOrder(nc, isRGB), max_colors)

output_value(j, maxj) == (j * MAXJSAMPLE + maxj \div 2) \div maxj
largest_input_value(j, maxj) == ((2 * j + 1) * MAXJSAMPLE + maxj) \div (2 * maxj)

\* Adjacent entries with the same value of a component.
BlockSize(Ncolors, i) == Total(SubSeq(Ncolors, i + 1, Len(Ncolors)))

ValueAt(Ncolors, i, code) ==
  output_value((code \div BlockSize(Ncolors, i)) % Ncolors[i], Ncolors[i] - 1)
create_colormap(Ncolors) ==
  [k \in 1 .. Total(Ncolors) |-> [i \in DOMAIN Ncolors |-> ValueAt(Ncolors, i, k - 1)]]

\* Padded, the table answers for values beyond the range, too.
colorindex(Ncolors, padded, i, x) ==
  LET maxj == Ncolors[i] - 1
      Plane(sample) == Min({j \in 0 .. maxj : sample <= largest_input_value(j, maxj)})
  IN IF x \in 0 .. MAXJSAMPLE \/ (padded /\ x \in -MAXJSAMPLE .. 2 * MAXJSAMPLE)
     THEN Plane(range_limit(x)) * BlockSize(Ncolors, i) ELSE Beyond

-----------------------------------------------------------------------------
(* Ordered dithering.                                                      *)

ODITHER_SIZE == 16
ODITHER_CELLS == ODITHER_SIZE * ODITHER_SIZE

\* Bayer's array: the lowest bits of row and column weigh most.
base_dither_matrix(j, k) ==
  LET Quarter(bit) ==
        CASE <<(j \div 2 ^ bit) % 2, (k \div 2 ^ bit) % 2>> = <<0, 0>> -> 0
          [] <<(j \div 2 ^ bit) % 2, (k \div 2 ^ bit) % 2>> = <<1, 1>> -> 1
          [] <<(j \div 2 ^ bit) % 2, (k \div 2 ^ bit) % 2>> = <<1, 0>> -> 2
          [] <<(j \div 2 ^ bit) % 2, (k \div 2 ^ bit) % 2>> = <<0, 1>> -> 3
  IN 64 * Quarter(0) + 16 * Quarter(1) + 4 * Quarter(2) + Quarter(3)

\* Rounded towards zero.
odither(ncolors, j, k) ==
  LET den == 2 * ODITHER_CELLS * (ncolors - 1)
      num == (ODITHER_CELLS - 1 - 2 * base_dither_matrix(j, k)) * MAXJSAMPLE
  IN IF num < 0 THEN -((-num) \div den) ELSE num \div den

-----------------------------------------------------------------------------
(* The quantizer of one pass, and its ways to code a row.                  *)

\* The code of a pixel is the sum of what its components give.
SumOfComponents(parts) ==
  [col \in DOMAIN parts[1] |-> FoldLeft(LAMBDA pixcode, part : pixcode + part[col], 0, parts)]
Components(q) == [i \in 1 .. Len(q.Ncolors) |-> i]

color_quantize(q, row) ==
  SumOfComponents([i \in DOMAIN q.Ncolors |->
    [col \in DOMAIN row |-> colorindex(q.Ncolors, q.is_padded, i, row[col][i])]])

quantize_ord_dither(q, row) ==
  SumOfComponents([i \in DOMAIN q.Ncolors |-> [col \in DOMAIN row |->
    colorindex(q.Ncolors, q.is_padded, i,
      row[col][i] + odither(q.Ncolors[i], q.row_index, (col - 1) % ODITHER_SIZE))]])

\* One component of a row: its part of the codes, and the errors.
DitheredComponent(q, row, i) ==
  LET width == Len(row)
      Choose(line, cur) == [value |-> cur, code |-> colorindex(q.Ncolors, q.is_padded, i, cur)]
      Coded(made, col, choice) ==
        [codes |-> [made.codes EXCEPT ![col] = choice.code],
         line |-> Spread(made.line, choice.value - ValueAt(q.Ncolors, i, choice.code),
                         Behind(col, q.on_odd_row))]
      Step(made, col) ==
        Coded(made, col, Choose(made.line, range_limit(row[col][i] + ErrorFor(made.line, col))))
      done == FoldLeft(Step, [codes |-> [col \in 1 .. width |-> 0],
                              line |-> BeginLine(q.fserrors[i])], Columns(width, q.on_odd_row))
  IN [codes |-> done.codes, fserrors |-> EndLine(done.line, LastColumn(width, q.on_odd_row))]

quantize_fs_dither(q, row) ==
  LET Coded(parts) ==
        [codes |-> SumOfComponents([i \in DOMAIN parts |-> parts[i].codes]),
         q |-> [q EXCEPT !.fserrors = [i \in DOMAIN parts |-> parts[i].fserrors],
                         !.on_odd_row = ~@]]
  IN Coded(FoldLeft(LAMBDA parts, i : Append(parts, DitheredComponent(q, row, i)), <<>>,
                    Components(q)))

start_pass_1_quant(q, dither_mode, width) ==
  CASE dither_mode = "NONE" -> [q EXCEPT !.coding = "color_quantize"]
    [] dither_mode = "ORDERED" ->
         [q EXCEPT !.coding = "quantize_ord_dither", !.row_index = 0, !.is_padded = TRUE]
    [] dither_mode = "FS" ->
         [q EXCEPT !.coding = "quantize_fs_dither", !.on_odd_row = FALSE,
                   !.fserrors = [i \in DOMAIN q.Ncolors |-> NoErrors(width)]]

\* A row, coded, and the quantizer behind it.
CodeRow1(q, row) ==
  CASE q.coding = "color_quantize" -> [codes |-> color_quantize(q, row), q |-> q]
    [] q.coding = "quantize_ord_dither" ->
         [codes |-> quantize_ord_dither(q, row),
          q |-> [q EXCEPT !.row_index = (@ + 1) % ODITHER_SIZE]]
    [] q.coding = "quantize_fs_dither" -> quantize_fs_dither(q, row)

jinit_1pass_quantizer(Ncolors, dither_mode) ==
  [Ncolors |-> Ncolors, is_padded |-> dither_mode = "ORDERED", coding |-> "none",
   row_index |-> 0, on_odd_row |-> FALSE, fserrors |-> <<>>]

-----------------------------------------------------------------------------
(* Two passes: the histogram.  Cells are corners of the color space; those *)
(* that are not in its domain are zero.                                    *)

Axes == 1 .. 3
SCALE == <<2, 3, 1>>
HIST_BITS == <<5, 6, 5>>
SHIFT == [a \in Axes |-> 8 - HIST_BITS[a]]
MAX_COUNT == 65535

CellOf(pixel) == [a \in Axes |-> pixel[a] \div 2 ^ SHIFT[a]]
Center(cell) == [a \in Axes |-> cell[a] * 2 ^ SHIFT[a] + 2 ^ SHIFT[a] \div 2]
At(histogram, cell) == IF cell \in DOMAIN histogram THEN histogram[cell] ELSE 0

CountPixel(histogram, cell) ==
  (cell :> Min({At(histogram, cell) + 1, MAX_COUNT})) @@ histogram
prescan_quantize(histogram, row) ==
  FoldLeft(LAMBDA h, pixel : CountPixel(h, CellOf(pixel)), histogram, row)

-----------------------------------------------------------------------------
(* Boxes of cells, shrunken to those that are there.                       *)

Within(cell, box) == \A a \in Axes : cell[a] \in box.min[a] .. box.max[a]
ScaledSide(min, max, a) == (max[a] - min[a]) * 2 ^ SHIFT[a] * SCALE[a]
Norm(min, max) == LET Square(a) == ScaledSide(min, max, a) ^ 2
                  IN Square(1) + Square(2) + Square(3)

update_box(histogram, box) ==
  LET cells == {cell \in DOMAIN histogram : histogram[cell] # 0 /\ Within(cell, box)}
      min == [a \in Axes |-> Min({cell[a] : cell \in cells})]
      max == [a \in Axes |-> Max({cell[a] : cell \in cells})]
  IN [min |-> min, max |-> max, volume |-> Norm(min, max), colorcount |-> Cardinality(cells)]

\* The first of the largest; 0 if there is none to split.
FirstLargest(sizes) ==
  LET largest == Max(Range(sizes))
  IN IF largest = 0 THEN 0 ELSE Min({k \in DOMAIN sizes : sizes[k] = largest})
find_biggest_color_pop(boxes) ==
  FirstLargest([k \in DOMAIN boxes |-> IF boxes[k].volume > 0 THEN boxes[k].colorcount ELSE 0])
find_biggest_volume(boxes) == FirstLargest([k \in DOMAIN boxes |-> boxes[k].volume])

\* Ties go to green, then red.
LongestAxis(box) ==
  LET Side(a) == ScaledSide(box.min, box.max, a)
  IN CASE Side(2) >= Side(1) /\ Side(2) >= Side(3) -> 2
       [] Side(1) > Side(2) /\ Side(1) >= Side(3) -> 1
       [] OTHER -> 3

SplitBox(histogram, boxes, k, n) ==
  LET box == boxes[k]
      lb == (box.max[n] + box.min[n]) \div 2
  IN Append([boxes EXCEPT ![k] = update_box(histogram, [box EXCEPT !.max[n] = lb])],
            update_box(histogram, [box EXCEPT !.min[n] = lb + 1]))

\* By population for the first half, then by volume.
BoxToSplit(boxes, desired) ==
  IF Len(boxes) * 2 <= desired THEN find_biggest_color_pop(boxes) ELSE find_biggest_volume(boxes)

RECURSIVE median_cut(_, _, _)
median_cut(histogram, boxes, desired) ==
  LET Split(k) == median_cut(histogram, SplitBox(histogram, boxes, k, LongestAxis(boxes[k])), desired)
  IN IF Len(boxes) >= desired \/ BoxToSplit(boxes, desired) = 0 THEN boxes
     ELSE Split(BoxToSplit(boxes, desired))

\* The mean of the pixels.
compute_color(histogram, box) ==
  LET cells == {cell \in DOMAIN histogram : Within(cell, box)}
      total == MapThenSumSet(LAMBDA cell : histogram[cell], cells)
      Sum(a) == MapThenSumSet(LAMBDA cell : Center(cell)[a] * histogram[cell], cells)
  IN [a \in Axes |-> (Sum(a) + total \div 2) \div total]

WholeSpace == [min |-> [a \in Axes |-> 0], max |-> [a \in Axes |-> MAXJSAMPLE \div 2 ^ SHIFT[a]]]
select_boxes(histogram, desired) == median_cut(histogram, <<update_box(histogram, WholeSpace)>>, desired)
select_colors(histogram, desired) ==
  LET boxes == select_boxes(histogram, desired)
  IN [k \in DOMAIN boxes |-> compute_color(histogram, boxes[k])]

-----------------------------------------------------------------------------
(* The way back, from a cell to the nearest color: found for a box of      *)
(* cells at a time and kept in the histogram's space, one higher.          *)

BOX_LOG == [a \in Axes |-> HIST_BITS[a] - 3]
BOX_SHIFT == [a \in Axes |-> SHIFT[a] + BOX_LOG[a]]

Squared(x) == x * x

\* How far a color is from the cells between min and max on one axis.
NearSide(x, min, max, scale) ==
  Squared(scale * IF x < min THEN x - min ELSE IF x > max THEN x - max ELSE 0)
FarSide(x, min, max, scale) ==
  Squared(scale * IF x <= (min + max) \div 2 THEN x - max ELSE x - min)

\* The colors that may be the nearest one of some cell.
find_nearby_colors(colormap, minc) ==
  LET maxc == [a \in Axes |-> minc[a] + 2 ^ BOX_SHIFT[a] - 2 ^ SHIFT[a]]
      MinDist(color) == MapThenSumSet(LAMBDA a : NearSide(color[a], minc[a], maxc[a], SCALE[a]), Axes)
      MaxDist(color) == MapThenSumSet(LAMBDA a : FarSide(color[a], minc[a], maxc[a], SCALE[a]), Axes)
      Close(minmaxdist) == SelectSeq([k \in DOMAIN colormap |-> k],
                                     LAMBDA k : MinDist(colormap[k]) <= minmaxdist)
  IN Close(Min({MaxDist(color) : color \in Range(colormap)}))

\* What is added to the distance on the way along an axis: each step by
\* 2 STEP^2 more than the one before.
STEP == [a \in Axes |-> 2 ^ SHIFT[a] * SCALE[a]]
Along(inc, step, elems) ==
  FoldLeft(LAMBDA walk, k : Append(walk, [dist |-> Last(walk).dist + Last(walk).xx,
                                          xx |-> Last(walk).xx + 2 * step * step]),
           <<[dist |-> 0, xx |-> inc * 2 * step + step * step]>>, [k \in 1 .. elems - 1 |-> k])

BoxCells == (0 .. 2 ^ BOX_LOG[1] - 1) \X (0 .. 2 ^ BOX_LOG[2] - 1) \X (0 .. 2 ^ BOX_LOG[3] - 1)

\* The distances of a color: of the box's first cell, and from there along each axis.
Distances(colormap, minc, icolor) ==
  LET inc == [a \in Axes |-> (minc[a] - colormap[icolor][a]) * SCALE[a]]
      Walk(a) == Along(inc[a], STEP[a], 2 ^ BOX_LOG[a])
  IN [color |-> icolor, first |-> Squared(inc[1]) + Squared(inc[2]) + Squared(inc[3]),
      walks |-> <<Walk(1), Walk(2), Walk(3)>>]
DistanceTo(cell, distances) ==
  distances.first + distances.walks[1][cell[1] + 1].dist + distances.walks[2][cell[2] + 1].dist
                  + distances.walks[3][cell[3] + 1].dist

\* Of colors that are as near, the first.
Closer(best, color, dist) == IF dist < best.dist THEN [dist |-> dist, color |-> color] ELSE best
NoneYet == [dist |-> 2147483647, color |-> 0]
BestColor(cell, all) ==
  FoldLeft(LAMBDA best, distances : Closer(best, distances.color, DistanceTo(cell, distances)),
           NoneYet, all).color

find_best_colors(colormap, minc, colorlist) ==
  LET Best(all) == [cell \in BoxCells |-> BestColor(cell, all)]
  IN Best(FoldLeft(LAMBDA all, icolor : Append(all, Distances(colormap, minc, icolor)), <<>>, colorlist))

\* Codes count from 0, and the cache keeps them plus one: as the colormap counts.
fill_inverse_cmap(histogram, colormap, cell) ==
  LET base == [a \in Axes |-> (cell[a] \div 2 ^ BOX_LOG[a]) * 2 ^ BOX_LOG[a]]
      minc == Center(base)
      Filled(best) ==
        [at \in {[a \in Axes |-> base[a] + k[a]] : k \in BoxCells} |->
           best[<<at[1] - base[1], at[2] - base[2], at[3] - base[3]>>]] @@ histogram
  IN Filled(find_best_colors(colormap, minc, find_nearby_colors(colormap, minc)))

Looked(histogram, colormap, cell) ==
  IF At(histogram, cell) = 0 THEN fill_inverse_cmap(histogram, colormap, cell) ELSE histogram

-----------------------------------------------------------------------------
(* The quantizer of two passes, and its ways to code a row.                *)

pass2_no_dither(q, colormap, row) ==
  LET Coded(made, cell, histogram) ==
        [histogram |-> histogram, codes |-> Append(made.codes, histogram[cell] - 1)]
      Step(made, pixel) ==
        Coded(made, CellOf(pixel), Looked(made.histogram, colormap, CellOf(pixel)))
      Done(made) == [codes |-> made.codes, q |-> [q EXCEPT !.histogram = made.histogram]]
  IN Done(FoldLeft(Step, [histogram |-> q.histogram, codes |-> <<>>], row))

\* Errors 1:1 up to a sixteenth of the range, then 1:2, and then no more.
error_limit(error) ==
  LET STEPSIZE == (MAXJSAMPLE + 1) \div 16
      Limited(in) == IF in < STEPSIZE THEN in
                     ELSE IF in < 3 * STEPSIZE THEN STEPSIZE + (in - STEPSIZE) \div 2
                     ELSE 2 * STEPSIZE
  IN IF error < 0 THEN -Limited(-error) ELSE Limited(error)

\* Three components at a time, since the code depends on all of them.
pass2_fs_dither(q, colormap, row) ==
  LET width == Len(row)
      Wanted(lines, col) ==
        [a \in Axes |-> range_limit(row[col][a] + error_limit(ErrorFor(lines[a], col)))]
      Coded(made, col, cur, histogram, index) ==
        [histogram |-> histogram, codes |-> [made.codes EXCEPT ![col] = index - 1],
         lines |-> [a \in Axes |-> Spread(made.lines[a], cur[a] - colormap[index][a],
                                          Behind(col, q.on_odd_row))]]
      Find(made, col, cur, histogram) == Coded(made, col, cur, histogram, histogram[CellOf(cur)])
      Look(made, col, cur) == Find(made, col, cur, Looked(made.histogram, colormap, CellOf(cur)))
      Done(made) ==
        [codes |-> made.codes,
         q |-> [q EXCEPT !.histogram = made.histogram, !.on_odd_row = ~@,
                         !.fserrors = [a \in Axes |->
                           EndLine(made.lines[a], LastColumn(width, q.on_odd_row))]]]
  IN Done(FoldLeft(LAMBDA made, col : Look(made, col, Wanted(made.lines, col)),
                   [histogram |-> q.histogram, codes |-> [col \in 1 .. width |-> 0],
                    lines |-> [a \in Axes |-> BeginLine(q.fserrors[a])]],
                   Columns(width, q.on_odd_row)))

CodeRow2(q, colormap, row) ==
  CASE q.coding = "prescan_quantize" ->
         [codes |-> <<>>, q |-> [q EXCEPT !.histogram = prescan_quantize(@, row)]]
    [] q.coding = "pass2_no_dither" -> pass2_no_dither(q, colormap, row)
    [] q.coding = "pass2_fs_dither" -> pass2_fs_dither(q, colormap, row)

Empty == [cell \in {} |-> 0]
ZeroHistogram(q) == IF q.needs_zeroed THEN [q EXCEPT !.histogram = Empty, !.needs_zeroed = FALSE] ELSE q

\* Ordered dithering is not supported: Floyd-Steinberg takes its place.
Supported(dither_mode) == IF dither_mode = "NONE" THEN "NONE" ELSE "FS"

start_pass_2_quant(q, dither_mode, width, is_pre_scan) ==
  ZeroHistogram(
    IF is_pre_scan THEN [q EXCEPT !.coding = "prescan_quantize", !.needs_zeroed = TRUE]
    ELSE IF dither_mode = "NONE" THEN [q EXCEPT !.coding = "pass2_no_dither"]
    ELSE [q EXCEPT !.coding = "pass2_fs_dither", !.on_odd_row = FALSE,
                   !.fserrors = [a \in Axes |-> NoErrors(width)]])

KeepCache(q) == q
new_color_map_2_quant(q) == [q EXCEPT !.needs_zeroed = TRUE]

jinit_2pass_quantizer(desired) ==
  [histogram |-> Empty, needs_zeroed |-> TRUE, desired |-> desired, coding |-> "none",
   on_odd_row |-> FALSE, fserrors |-> <<>>]

-----------------------------------------------------------------------------
(* The choice of a quantizer for each output pass.  Of the decompression   *)
(* object this is what the application sets before a pass, colormap being  *)
(* empty for NULL, and what the library keeps.                             *)

Enabled(d, method) == method \in d.enabled
Failed(d, error) == [d EXCEPT !.error = error]

\* The method that is set is enabled; others only in buffered-image mode, and
\* only the cube in a space of other than three components.
Selected(d) ==
  IF d.components # 3 THEN {"1pass"}
  ELSE (IF d.buffered_image THEN d.enabled ELSE {})
       \cup {IF d.colormap # <<>> THEN "external" ELSE IF d.two_pass_quantize THEN "2pass" ELSE "1pass"}

\* master_selection.
SelectQuantizers(d, enabled, Ncolors) ==
  LET two == enabled \cap {"external", "2pass"} # {}
  IN [d EXCEPT !.enabled = enabled,
        !.colormap = IF d.components # 3 THEN <<>> ELSE @,
        !.q1 = IF "1pass" \in enabled THEN jinit_1pass_quantizer(Ncolors, d.dither_mode) ELSE None,
        !.q2 = IF two THEN jinit_2pass_quantizer(d.desired) ELSE None,
        !.dither_mode = IF two THEN Supported(@) ELSE @,
        !.cquantize = IF two THEN "2pass" ELSE "1pass"]
master_selection(d) ==
  LET enabled == Selected(d)
      Ncolors == select_ncolors(d.components, d.isRGB, d.desired)
  IN IF enabled \cap {"1pass", "2pass"} # {} /\ d.desired > MAXNUMCOLORS
     THEN Failed(d, "JERR_QUANT_MANY_COLORS")
     ELSE IF ("1pass" \in enabled /\ Ncolors = <<>>) \/ ("2pass" \in enabled /\ d.desired < 8)
     THEN Failed(d, "JERR_QUANT_FEW_COLORS")
     ELSE SelectQuantizers(d, enabled, Ncolors)

StartQuantizer(d, width) ==
  IF d.cquantize = "1pass"
  THEN [d EXCEPT !.q1 = start_pass_1_quant(@, d.dither_mode, width),
                 !.colormap = create_colormap(d.q1.Ncolors)]
  ELSE IF ~d.is_dummy_pass /\ Len(d.colormap) > MAXNUMCOLORS
  THEN Failed(d, "JERR_QUANT_MANY_COLORS")
  ELSE [d EXCEPT !.dither_mode = Supported(@),
                 !.q2 = start_pass_2_quant(@, Supported(d.dither_mode), width, d.is_dummy_pass)]

\* prepare_for_output_pass.
prepare_for_output_pass(d, width) ==
  IF d.is_dummy_pass THEN StartQuantizer([d EXCEPT !.is_dummy_pass = FALSE], width)
  ELSE IF d.colormap # <<>> THEN StartQuantizer(d, width)
  ELSE IF d.two_pass_quantize /\ Enabled(d, "2pass")
  THEN StartQuantizer([d EXCEPT !.cquantize = "2pass", !.is_dummy_pass = TRUE], width)
  ELSE IF Enabled(d, "1pass") THEN StartQuantizer([d EXCEPT !.cquantize = "1pass"], width)
  ELSE Failed(d, "JERR_MODE_CHANGE")

\* finish_output_pass: behind the first of two passes the colors are chosen.
finish_output_pass(d) ==
  IF d.cquantize = "2pass" /\ d.q2.coding = "prescan_quantize"
  THEN [d EXCEPT !.colormap = select_colors(d.q2.histogram, d.q2.desired), !.q2.needs_zeroed = TRUE]
  ELSE d

jpeg_new_colormap(d) ==
  IF Enabled(d, "external") /\ d.colormap # <<>>
  THEN [d EXCEPT !.cquantize = "2pass", !.q2 = new_color_map_2_quant(@), !.is_dummy_pass = FALSE]
  ELSE Failed(d, "JERR_MODE_CHANGE")

CodeRow(d, row) ==
  LET Coded(made) == IF d.cquantize = "1pass" THEN [codes |-> made.codes, d |-> [d EXCEPT !.q1 = made.q]]
                     ELSE [codes |-> made.codes, d |-> [d EXCEPT !.q2 = made.q]]
  IN Coded(IF d.cquantize = "1pass" THEN CodeRow1(d.q1, row) ELSE CodeRow2(d.q2, d.colormap, row))

\* The rows of an output pass; of two passes the first one's come to nothing.
RECURSIVE OutputPass(_, _)
OutputPass(d, rows) ==
  LET Row(made, row) == [codes |-> Append(made.codes, row.codes), d |-> row.d]
      Passed(made) == [codes |-> made.codes, d |-> finish_output_pass(made.d)]
      Run(started) ==
        Passed(FoldLeft(LAMBDA made, row : Row(made, CodeRow(made.d, row)),
                        [codes |-> <<>>, d |-> started], rows))
      Whole(pass) == IF pass.d.is_dummy_pass THEN OutputPass(pass.d, rows) ELSE pass
      From(started) == IF started.error # "none" THEN [codes |-> <<>>, d |-> started]
                       ELSE Whole(Run(started))
  IN From(prepare_for_output_pass(d, Len(rows[1])))

=============================================================================
