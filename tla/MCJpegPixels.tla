---------------------------- MODULE MCJpegPixels ----------------------------
(***************************************************************************)
(* The JPEG library's way between the rows of an image and its samples, on *)
(* small images.                                                           *)
(***************************************************************************)
EXTENDS MCInput, Integers, Sequences, FiniteSetsExt, SequencesExt

RowFlow == INSTANCE JpegRows
Sampling == INSTANCE JpegSampling

SamplingFactors == {<<1, 1>>, <<1, 2>>, <<2, 2>>, <<2, 4>>, <<1, 3>>}
RowImages(passes) ==
  {[height |-> h, v |-> s[1], max_v |-> s[2], groups |-> m, context |-> c, pass |-> pass] :
     h \in 1 .. 9, s \in SamplingFactors, m \in {2, 3}, c \in BOOLEAN, pass \in passes}

\* Context is for sampling by two, or by one beside it.
ContextFits(p) == p.context => RowFlow!Expansion(p) <= 2 /\ p.max_v > 1

WriteRows(n, takes) ==
  /\ GoOnWith("write rows")
  /\ argument.c.next_scanline < argument.p.height
  /\ argument' = [argument EXCEPT !.c = RowFlow!jpeg_write_scanlines(argument.p, @, n, takes)]

(***************************************************************************)
(* Read calls; in the first of two passes the library calls itself.  A     *)
(* call that gets data must make some progress.                            *)
(***************************************************************************)
ReadRows(n, ready) ==
  /\ GoOnWith("read rows")
  /\ argument.d.output_scanline < argument.p.height
  /\ argument.p.pass = "prepass" => n = 1
  /\ LET p == argument.p
         d == argument.d
         Read(next) == [argument EXCEPT !.d = next,
           !.progress = ready => next.output_scanline > d.output_scanline]
     IN argument' = Read(IF p.pass = "prepass" THEN RowFlow!output_pass_setup(p, d, ready)
                         ELSE RowFlow!jpeg_read_scanlines(p, d, n, ready))
ToFinalPass ==
  /\ GoOnWith("read rows")
  /\ argument.p.pass = "prepass" /\ argument.d.output_scanline = argument.p.height
  /\ argument' = [argument EXCEPT !.p.pass = "crank", !.d = RowFlow!CrankPass(@)]

Within(n, most) == IF n < 0 THEN 0 ELSE IF n > most THEN most ELSE n

\* A row of the component, from the rows of the image.
ExpectedSample(p, n) ==
  LET e == RowFlow!Expansion(p)
      margin == IF p.context THEN 1 ELSE 0
      last == RowFlow!RoundUp(p.height, p.max_v) * p.v - 1
      m == IF p.context THEN n ELSE RowFlow!Lesser(n, last)
  IN [i \in 1 .. e + 2 * margin |-> Within(m * e + i - 1 - margin, p.height - 1)]

\* A row of the image, from the rows of the component.
ExpectedRow(p, y) ==
  LET e == RowFlow!Expansion(p)
      own == y \div e
  IN IF p.context /\ ~RowFlow!FullSize(p)
     THEN <<own, Within(own + IF y % 2 = 0 THEN -1 ELSE 1, RowFlow!downsampled_height(p) - 1)>>
     ELSE <<own>>

(***************************************************************************)
(* In the second of two passes the library counts the rest of the image    *)
(* from the beginning of a strip, not from the row it has come to          *)
(* (jdpostct.c:224).  A call that has room for several rows, in a strip    *)
(* higher than two of which some were taken already, gets the whole of     *)
(* it, also the rows below the image, which were never filled.             *)
(***************************************************************************)
GoesBelow(p) == p.pass = "crank" /\ p.max_v > 2

(***************************************************************************)
(* However many rows a call brings and wherever the compressor stops in    *)
(* it, each row group is made from its own rows and their neighbours, with *)
(* the image going on as its first and last row beyond its edges; when the *)
(* application believes that it is done, so is the compressor.  However    *)
(* many rows a call asks for and wherever the decoder has to wait, the     *)
(* rows of the image that come out are the next ones, each from its own    *)
(* row of the component and the right neighbour, never from one that was   *)
(* written over; and a call with data makes progress.  No row from below   *)
(* the image comes out, with the exception of GoesBelow.                   *)
(***************************************************************************)
RowsInPlace ==
  /\ Given("write rows") =>
       LET p == argument.p
           c == argument.c
       IN /\ \A n \in DOMAIN c.compressed : c.compressed[n] = ExpectedSample(p, n - 1)
          /\ c.next_scanline >= p.height =>
               Len(c.compressed) = RowFlow!iMCU_rows(p) * p.groups * p.v
  /\ Given("read rows") =>
       LET p == argument.p
           d == argument.d
       IN /\ \A y \in 1 .. RowFlow!Lesser(Len(d.output), p.height) :
               d.output[y] = ExpectedRow(p, y - 1)
          /\ p.pass # "prepass" => Len(d.output) = d.output_scanline
          /\ d.output_scanline <= IF GoesBelow(p) THEN RowFlow!RoundUp(p.height, p.max_v) * p.max_v
                                  ELSE p.height
          /\ argument.progress

-----------------------------------------------------------------------------
(* Sampling: JpegSampling.                                                 *)

Distance(a, b) == IF a < b THEN b - a ELSE a - b

\* One sample stands out; or all differ.
Pictures(rows, cols) ==
  {[row \in rows |-> [col \in cols |-> IF row = r /\ col = c THEN s[1] ELSE s[2]]] :
     r \in rows, c \in cols, s \in {<<1, 0>>, <<255, 0>>, <<0, 255>>, <<3, 1>>}}
  \cup {[row \in rows |-> [col \in cols |-> (row * row * 37 + col * 101 + row * col * 53) % 256]]}

DownsampleCases ==
  {[c |-> [max_h |-> s[1], max_v |-> s[2], smoothing_factor |-> smoothing, image_width |-> w],
    h |-> s[3], v |-> s[4]] :
     s \in {<<1, 1, 1, 1>>, <<2, 2, 2, 2>>, <<2, 1, 1, 1>>, <<2, 2, 1, 1>>, <<4, 2, 2, 1>>,
            <<3, 2, 1, 1>>, <<1, 2, 1, 1>>, <<2, 2, 1, 2>>},
     smoothing \in {0, 100}, w \in {1, 4, 5}}
DownsampleInputs ==
  UNION {{[c |-> k.c, data |-> picture,
           component |-> [h |-> k.h, v |-> k.v,
             output_cols |-> Sampling!jdiv_round_up(k.c.image_width * k.h, k.c.max_h * 2) * 2]] :
            picture \in Pictures(-1 .. k.c.max_v, 0 .. k.c.image_width - 1)} : k \in DownsampleCases}

\* 1024 times a pixel, smoothed with its neighbours.
SmoothedPixel(a, factor, row, col) ==
  LET At(r, k) == a.data[r][Within(k, a.c.image_width - 1)]
  IN (1024 - 9 * factor) * At(row, col)
       + factor * MapThenSumSet(LAMBDA at : At(at[1], at[2]), (row - 1 .. row + 1) \X (col - 1 .. col + 1))

\* Smoothing is for full size and for half of it both ways.
SmoothingFor(component, c) ==
  IF <<c.max_h, c.max_v>> \in {<<component.h, component.v>>, <<2 * component.h, 2 * component.v>>}
  THEN c.smoothing_factor ELSE 0

Covered(row, col, h_expand, v_expand) ==
  (row * v_expand .. row * v_expand + v_expand - 1) \X (col * h_expand .. col * h_expand + h_expand - 1)

\* The average, half of it going up or down.
Rounded(sum, all, up) == (2 * sum + all - IF up THEN 0 ELSE 1) \div (2 * all)

(***************************************************************************)
(* A sample is the average of its pixels, each smoothed with its eight     *)
(* neighbours when that is asked for and supported, the image going on     *)
(* beyond its edges as it is there; and for the customary ratios halves    *)
(* go up and down by turns.                                                *)
(***************************************************************************)
DownsampledRight(a, made) ==
  LET h_expand == a.c.max_h \div a.component.h
      v_expand == a.c.max_v \div a.component.v
      factor == SmoothingFor(a.component, a.c)
      ByTurns == factor = 0 /\ h_expand = 2 /\ v_expand <= 2
      Sum(row, col) == MapThenSumSet(LAMBDA at : SmoothedPixel(a, factor, at[1], at[2]),
                                     Covered(row, col, h_expand, v_expand))
  IN \A row \in 0 .. a.component.v - 1, col \in 0 .. a.component.output_cols - 1 :
       made[row][col] = Rounded(Sum(row, col), 1024 * h_expand * v_expand, ByTurns => col % 2 = 1)

UpsampleCases ==
  {[u |-> [width |-> w, max_h |-> s[1], max_v |-> s[2], h_in |-> s[3], v_in |-> s[4],
           output_width |-> w * (s[1] \div s[3]) - d], fancy |-> f] :
     s \in {<<1, 1, 1, 1>>, <<2, 1, 1, 1>>, <<2, 2, 1, 1>>, <<2, 2, 1, 2>>, <<4, 2, 2, 1>>,
            <<3, 2, 1, 1>>, <<1, 2, 1, 1>>},
     w \in {3, 4}, d \in {0, 1}, f \in BOOLEAN}
UpsampleInputs ==
  UNION {{[u |-> k.u, fancy |-> k.fancy, data |-> picture] :
            picture \in Pictures(-1 .. k.u.v_in, 0 .. k.u.width)} : k \in UpsampleCases}

\* 4 times the share of sample i in pixel k: a triangle.
Share(k, i) == Within(4 - Distance(2 * k, 4 * i + 1), 4)

(***************************************************************************)
(* A pixel is the sample it belongs to; with fancy upsampling by two it is *)
(* weighted by distance from the samples next to it, which go on beyond    *)
(* the edges as they are there, halves going up and down by turns.         *)
(***************************************************************************)
UpsampledRight(u, fancy, data, made) ==
  LET h_expand == u.max_h \div u.h_in
      v_expand == u.max_v \div u.v_in
      At(row, i) == data[row][Within(i, u.width - 1)]
      Across(row, col) ==
        MapThenSumSet(LAMBDA i : Share(col, i) * At(row, i), (col \div 2) - 1 .. (col \div 2) + 1)
      Both(row, col) ==
        MapThenSumSet(LAMBDA i : Share(row, i) * Across(i, col), (row \div 2) - 1 .. (row \div 2) + 1)
      Pixel(row, col) ==
        CASE fancy /\ h_expand = 2 /\ v_expand = 1 -> Rounded(Across(row, col), 4, col % 2 = 1)
          [] fancy /\ h_expand = 2 /\ v_expand = 2 -> Rounded(Both(row, col), 16, col % 2 = 0)
          [] OTHER -> data[row \div v_expand][col \div h_expand]
  IN \A row \in 0 .. u.max_v - 1, col \in 0 .. u.output_width - 1 : made[row][col] = Pixel(row, col)

MergedImages ==
  {[output_width |-> w, output_height |-> h, v |-> v,
    y |-> [row \in 0 .. 5 |-> [col \in 0 .. 4 |-> (row * 67 + col * 29) % 256]],
    cb |-> [row \in 0 .. 4 |-> [col \in 0 .. 2 |-> (row * 90 + col * 40) % 256]],
    cr |-> [row \in 0 .. 4 |-> [col \in 0 .. 2 |-> (250 - row * 50 - col * 9) % 256]]] :
     w \in {4, 5}, h \in 1 .. 5, v \in {1, 2}}
NewMerger ==
  [spare_full |-> FALSE, spare_row |-> <<>>, rows_to_go |-> 0, in_row_group_ctr |-> 0, output |-> <<>>]

ReadMerged(n) ==
  /\ GoOnWith("merged")
  /\ Len(argument.m.output) < argument.image.output_height
  /\ argument' = [argument EXCEPT !.m =
       IF argument.image.v = 2 THEN Sampling!merged_2v_upsample(@, argument.image, n)
       ELSE Sampling!merged_1v_upsample(@, argument.image)]
NextMergedPass ==
  /\ GoOnWith("merged")
  /\ Len(argument.m.output) = argument.image.output_height
  /\ argument' = [argument EXCEPT !.m = Sampling!start_pass_merged_upsample(@, argument.image)]

\* The image, upsampled and converted one after the other.
SeparateRow(image, y) ==
  [col \in 0 .. image.output_width - 1 |->
     Sampling!ycc_rgb_convert(<<image.y[y][col], image.cb[y \div image.v][col \div 2],
                                image.cr[y \div image.v][col \div 2]>>)]

PlannedImages ==
  {[components |-> <<[h |-> a[1], v |-> a[2]], [h |-> b[1], v |-> b[2]]>> \o rest,
    jpeg_color_space |-> "YCbCr", out_color_space |-> out, do_fancy_upsampling |-> f,
    image_width |-> w, image_height |-> 17, scale_num |-> 1, scale_denom |-> s] :
     a \in (1 .. 4) \X {1, 2, 4}, b \in (1 .. 4) \X {1, 2, 4}, rest \in {<<>>, <<[h |-> 1, v |-> 1]>>},
     f \in BOOLEAN, w \in {1, 17, 37}, s \in {1, 2, 3, 8}, out \in {"RGB", "GRAYSCALE"}}

\* What a component has is enough, and what is made of it has room.
ComponentFits(d, plan, component, c, max) ==
  /\ c.h_in * plan.min_DCT_scaled_size = component.h * c.DCT_scaled_size
  /\ c.downsampled_width <= c.width_in_blocks * c.DCT_scaled_size
  /\ c.method = Sampling!NotImplemented => 3 \in {max.h, max.v, component.h}
  /\ c.method \notin {"noop", Sampling!NotImplemented} =>
       /\ max.h % c.h_in = 0 /\ max.v % c.rowgroup_height = 0
       /\ c.downsampled_width * (max.h \div c.h_in) \in plan.output_width .. Sampling!color_buf_width(plan)
       /\ c.downsampled_height * (max.v \div c.rowgroup_height) >= plan.output_height

(***************************************************************************)
(* However the components are sampled and the image is scaled: it gets the *)
(* smallest size that is not less than what is asked for, each component   *)
(* has enough samples for the pixels that are made of it, what is made     *)
(* fits into the buffer for it, context is only asked for where the main   *)
(* buffer can give it, an image is refused for nothing but a factor of     *)
(* three, and merging is left to images that it can be used for.           *)
(***************************************************************************)
PlanFits(d, plan) ==
  /\ d.scale_denom >= d.scale_num => plan.min_DCT_scaled_size * d.scale_denom >= 8 * d.scale_num
  /\ plan.min_DCT_scaled_size > 1 => plan.min_DCT_scaled_size * d.scale_denom < 16 * d.scale_num
  /\ \A ci \in DOMAIN plan.components :
       ComponentFits(d, plan, d.components[ci], plan.components[ci], plan.max)
  /\ Sampling!need_context_rows(plan) => plan.min_DCT_scaled_size >= 2
  /\ plan.merged =>
       /\ Sampling!methods(plan) \subseteq {"fullsize", "h2v1", "h2v2"}
       /\ plan.components[1].method = "fullsize" /\ plan.components[2] = plan.components[3]
       /\ Sampling!rec_outbuf_height(plan) = plan.components[1].rowgroup_height

MadeOf(u, fancy, data) ==
  Sampling!upsample(u, Sampling!upsample_method(TRUE, fancy, u.h_in, u.v_in, u.max_h, u.max_v), data)

(***************************************************************************)
(* Whatever the ratios: samples are the averages of their pixels, pixels   *)
(* are made of the samples around them, and the plan for an image fits     *)
(* together.  Upsampling and conversion in one gives the same rows as one  *)
(* after the other, however many rows a call asks for, for an odd number   *)
(* of rows, too, and in the next pass.                                     *)
(***************************************************************************)
SampledAsPlanned ==
  /\ Given("downsample") =>
       DownsampledRight(argument, Sampling!downsample(argument.c, argument.component, argument.data))
  /\ Given("upsample") =>
       UpsampledRight(argument.u, argument.fancy, argument.data,
                      MadeOf(argument.u, argument.fancy, argument.data))
  /\ Given("merged") =>
       /\ Len(argument.m.output) <= argument.image.output_height
       /\ argument.m.output =
            [y \in 1 .. Len(argument.m.output) |-> SeparateRow(argument.image, y - 1)]
  /\ Given("plan") => PlanFits(argument, Sampling!Plan(argument))

-----------------------------------------------------------------------------
(* Colors: JpegColor.                                                      *)

Levels == {0, 1, 127, 128, 129, 254, 255}
Pixels == {<<r, g, b, k>> : r \in Levels, g \in Levels, b \in Levels, k \in {0, 200}}
ComponentsOf ==
  [GRAYSCALE |-> 1, RGB |-> 3, YCbCr |-> 3, CMYK |-> 4, YCCK |-> 4, UNKNOWN |-> 2]

\* Within a half of what the formula says, in thousandths, and its factors' error.
Close(sample, thousandths) == Distance(1000 * sample, thousandths) <= 510
AreSamples(pixel) == \A k \in DOMAIN pixel : pixel[k] \in 0 .. 255

RightYCC(pixel, r, g, b) ==
  /\ Close(pixel[1], 299 * r + 587 * g + 114 * b)
  /\ Close(pixel[2], 128000 + (50000 * b - 16874 * r - 33126 * g) \div 100)
  /\ Close(pixel[3], 128000 + (50000 * r - 41869 * g - 8131 * b) \div 100)
RightRGB(pixel, y, cb, cr) ==
  /\ Close(pixel[1], Within(1000 * y + 1402 * cr, 255000))
  /\ Close(pixel[2], Within(1000 * y - (34414 * cb + 71414 * cr) \div 100, 255000))
  /\ Close(pixel[3], Within(1000 * y + 1772 * cb, 255000))

\* What comes back of a pixel that went into a file.
CameBack(in, jpeg, out, pixel, back) ==
  /\ AreSamples(back)
  /\ in = out /\ jpeg # "GRAYSCALE" => \A k \in DOMAIN pixel : Distance(back[k], pixel[k]) <= 2
  /\ in = out /\ (jpeg = in \/ (in = "RGB" /\ Cardinality(ToSet(pixel)) = 1)) => back = pixel
  /\ in = "RGB" /\ out # jpeg /\ "GRAYSCALE" \in {jpeg, out} =>
       \A k \in DOMAIN back : Close(back[k], 299 * pixel[1] + 587 * pixel[2] + 114 * pixel[3])

Converted(in, jpeg, out, pixel, into, back) ==
  LET Stored(file) ==
        /\ Len(file) = ComponentsOf[jpeg] /\ AreSamples(file)
        /\ Len(Sampling!color_deconvert(back, file)) = Sampling!out_color_components(out, ComponentsOf[jpeg])
        /\ CameBack(in, jpeg, out, pixel, Sampling!color_deconvert(back, file))
  IN Stored(Sampling!color_convert(into, pixel))

Errors == {"JERR_BAD_IN_COLORSPACE", "JERR_BAD_J_COLORSPACE", "JERR_CONVERSION_NOTIMPL"}

(***************************************************************************)
(* Whatever color spaces an image is converted into and back by: samples   *)
(* stay in their range, though only the decompressor limits them, and that *)
(* within its table; each is the nearest to what the formula says; a pixel *)
(* comes back within 2, and as it was when it is gray or not converted;    *)
(* and gray is luminance.                                                  *)
(***************************************************************************)
ColorsComeBack ==
  Given("colors") =>
    /\ \A in, jpeg, out \in DOMAIN ComponentsOf :
         LET Checked(pixel, into, back) ==
               {into, back} \cap Errors = {} => Converted(in, jpeg, out, pixel, into, back)
         IN Checked(SubSeq(argument, 1, ComponentsOf[in]),
                    Sampling!color_converter(in, ComponentsOf[in], jpeg, ComponentsOf[jpeg]),
                    Sampling!color_deconverter(jpeg, ComponentsOf[jpeg], out))
    /\ \A x \in -512 .. 511 : Sampling!IDCT_range_limit(x) = Within(x + 128, 255)
    /\ RightYCC(Sampling!rgb_ycc_convert(argument), argument[1], argument[2], argument[3])
    /\ RightRGB(Sampling!ycc_rgb_convert(argument), argument[1], argument[2] - 128, argument[3] - 128)
    /\ \A k \in 1 .. 3 : Sampling!ycck_cmyk_convert(argument)[k] = 255 - Sampling!ycc_rgb_convert(argument)[k]

-----------------------------------------------------------------------------

PixelsNext ==
  \/ Give("write rows", {[p |-> p, c |-> RowFlow!StartCompressing(p)] : p \in {q \in RowImages({"one"}) : ContextFits(q)}})
  \/ \E n \in {1, 2, 5, 20}, takes \in {0, 1, 9} : WriteRows(n, takes)
  \/ Give("read rows", {[p |-> p, d |-> RowFlow!StartOutput(p), progress |-> TRUE] :
                          p \in {q \in RowImages({"one", "prepass"}) : ContextFits(q)}})
  \/ \E n \in {1, 2, 5}, ready \in BOOLEAN : ReadRows(n, ready)
  \/ ToFinalPass
  \/ Give("downsample", DownsampleInputs)
  \/ Give("upsample", UpsampleInputs)
  \/ Give("merged", {[image |-> image, m |-> Sampling!start_pass_merged_upsample(NewMerger, image)] : image \in MergedImages})
  \/ \E n \in 1 .. 3 : ReadMerged(n)
  \/ NextMergedPass
  \/ Give("plan", PlannedImages)
  \/ Give("colors", Pixels)
=============================================================================
