---------------------------- MODULE JpegSampling ----------------------------
(***************************************************************************)
(* Components are sampled more coarsely than the image: jcsample.c on the  *)
(* way into the compressor, jdsample.c and jdmerge.c on the way out of the *)
(* decompressor, which can also scale the image (jdmaster.c).              *)
(*                                                                         *)
(* A row of samples is a function from column numbers; a row group is a    *)
(* function from row numbers, its context having the number -1 and the one *)
(* behind the last row.                                                    *)
(***************************************************************************)
EXTENDS JpegColor, FiniteSetsExt

Lesser(a, b) == IF a < b THEN a ELSE b
Greater(a, b) == IF a < b THEN b ELSE a
jdiv_round_up(a, b) == (a + b - 1) \div b
jround_up(a, b) == jdiv_round_up(a, b) * b
NotImplemented == "JERR_FRACT_SAMPLE_NOTIMPL"
Total(f) == MapThenSumSet(LAMBDA x : f[x], DOMAIN f)

-----------------------------------------------------------------------------
(* The compressor.  A component has its sampling factors h and v; those of *)
(* the image are c.max_h and c.max_v.                                      *)

\* jinit_downsampler.
downsample_method(c, component) ==
  LET smooth == c.smoothing_factor # 0
      full == component.h = c.max_h /\ component.v = c.max_v
      h2v1 == component.h * 2 = c.max_h /\ component.v = c.max_v
      h2v2 == component.h * 2 = c.max_h /\ component.v * 2 = c.max_v
  IN CASE full -> IF smooth THEN "fullsize_smooth" ELSE "fullsize"
       [] h2v1 -> "h2v1"
       [] h2v2 -> IF smooth THEN "h2v2_smooth" ELSE "h2v2"
       [] /\ ~(full \/ h2v1 \/ h2v2)
          /\ c.max_h % component.h = 0 /\ c.max_v % component.v = 0 -> "int"
       [] OTHER -> NotImplemented

smoothing_needs_context(methods) == methods \cap {"fullsize_smooth", "h2v2_smooth"} # {}

expand_right_edge(data, input_cols, output_cols) ==
  [row \in DOMAIN data |->
     [col \in 0 .. Greater(input_cols, output_cols) - 1 |-> data[row][Lesser(col, input_cols - 1)]]]

Downsampled(component, Sample(_, _)) ==
  [row \in 0 .. component.v - 1 |-> [col \in 0 .. component.output_cols - 1 |-> Sample(row, col)]]

int_downsample(c, component, data) ==
  LET h_expand == c.max_h \div component.h
      v_expand == c.max_v \div component.v
      numpix == h_expand * v_expand
      Sample(row, col) ==
        (Total([at \in (0 .. v_expand - 1) \X (0 .. h_expand - 1) |->
                  data[row * v_expand + at[1]][col * h_expand + at[2]]]) + (numpix \div 2)) \div numpix
  IN Downsampled(component, Sample)

fullsize_downsample(component, data) ==
  Downsampled(component, LAMBDA row, col : data[row][col])

\* The bias goes on from sample to sample.
h2v1_downsample(component, data) ==
  Downsampled(component, LAMBDA row, col :
    (data[row][2 * col] + data[row][2 * col + 1] + (col % 2)) \div 2)

h2v2_downsample(component, data) ==
  Downsampled(component, LAMBDA row, col :
    (data[2 * row][2 * col] + data[2 * row][2 * col + 1]
       + data[2 * row + 1][2 * col] + data[2 * row + 1][2 * col + 1] + 1 + (col % 2)) \div 4)

\* Columns beside the two of a sample; the first and the last are special.
BesideLeft(col) == IF col = 0 THEN 0 ELSE 2 * col - 1
BesideRight(component, col) == IF col = component.output_cols - 1 THEN 2 * col + 1 ELSE 2 * col + 2

Weighted(members, neighbours, memberscale, neighscale) ==
  (members * memberscale + neighbours * neighscale + 32768) \div 65536

h2v2_smooth_downsample(c, component, data) ==
  LET Edges(row, col, left, right) ==
        data[row - 1][col] + data[row - 1][col + 1] + data[row + 2][col] + data[row + 2][col + 1]
          + data[row][left] + data[row][right] + data[row + 1][left] + data[row + 1][right]
      Corners(row, left, right) ==
        data[row - 1][left] + data[row - 1][right] + data[row + 2][left] + data[row + 2][right]
      Sample(row, col, left, right) ==
        Weighted(data[row][col] + data[row][col + 1] + data[row + 1][col] + data[row + 1][col + 1],
                 2 * Edges(row, col, left, right) + Corners(row, left, right),
                 16384 - c.smoothing_factor * 80, c.smoothing_factor * 16)
  IN Downsampled(component, LAMBDA row, col :
       Sample(2 * row, 2 * col, BesideLeft(col), BesideRight(component, col)))

fullsize_smooth_downsample(c, component, data) ==
  LET colsum(row, col) == data[row - 1][col] + data[row + 1][col] + data[row][col]
      Sample(row, col, left, right) ==
        Weighted(data[row][col],
                 colsum(row, left) + (colsum(row, col) - data[row][col]) + colsum(row, right),
                 65536 - c.smoothing_factor * 512, c.smoothing_factor * 64)
  IN Downsampled(component, LAMBDA row, col :
       Sample(row, col, Greater(col - 1, 0), Lesser(col + 1, component.output_cols - 1)))

\* One component of sep_downsample.
downsample(c, component, data) ==
  LET method == downsample_method(c, component)
      Run(expanded) ==
        CASE method = "int" -> int_downsample(c, component, expanded)
          [] method = "fullsize" -> fullsize_downsample(component, expanded)
          [] method = "h2v1" -> h2v1_downsample(component, expanded)
          [] method = "h2v2" -> h2v2_downsample(component, expanded)
          [] method = "h2v2_smooth" -> h2v2_smooth_downsample(c, component, expanded)
          [] method = "fullsize_smooth" -> fullsize_smooth_downsample(c, component, expanded)
  IN Run(expand_right_edge(data, c.image_width, component.output_cols * (c.max_h \div component.h)))

-----------------------------------------------------------------------------
(* What the decompressor is to do: jpeg_calc_output_dimensions and the     *)
(* choice of the methods.                                                  *)

min_DCT_scaled_size(d) ==
  CASE d.scale_num * 8 <= d.scale_denom -> 1
    [] d.scale_num * 8 > d.scale_denom /\ d.scale_num * 4 <= d.scale_denom -> 2
    [] d.scale_num * 4 > d.scale_denom /\ d.scale_num * 2 <= d.scale_denom -> 4
    [] OTHER -> 8

max_samp_factor(components) == [h |-> Max({components[ci].h : ci \in DOMAIN components}),
                                v |-> Max({components[ci].v : ci \in DOMAIN components})]

\* A component is scaled up by the inverse DCT as far as it goes.
DCT_scaled_size(component, max, min) ==
  Max({min} \cup {ssize \in {2, 4, 8} :
    ssize > min /\ component.h * ssize <= max.h * min /\ component.v * ssize <= max.v * min})

\* use_merged_upsample.
use_merged_upsample(d, sizes) ==
  /\ ~d.do_fancy_upsampling
  /\ d.jpeg_color_space = "YCbCr" /\ Len(d.components) = 3 /\ d.out_color_space = "RGB"
  /\ d.components[1].h = 2 /\ d.components[1].v <= 2
  /\ \A ci \in 2 .. 3 : d.components[ci] = [h |-> 1, v |-> 1]
  /\ \A ci \in 1 .. 3 : sizes[ci] = min_DCT_scaled_size(d)

\* jinit_upsampler, for one component: of a group of samples a group of
\* pixels is to be made.
upsample_method(needed, fancy, h_in, v_in, h_out, v_out) ==
  LET full == h_in = h_out /\ v_in = v_out
      h2v1 == h_in * 2 = h_out /\ v_in = v_out
      h2v2 == h_in * 2 = h_out /\ v_in * 2 = v_out
  IN CASE ~needed -> "noop"
       [] needed /\ full -> "fullsize"
       [] needed /\ h2v1 -> IF fancy THEN "h2v1_fancy" ELSE "h2v1"
       [] needed /\ h2v2 -> IF fancy THEN "h2v2_fancy" ELSE "h2v2"
       [] /\ needed /\ ~(full \/ h2v1 \/ h2v2)
          /\ h_out % h_in = 0 /\ v_out % v_in = 0 -> "int"
       [] OTHER -> NotImplemented

\* A component as the decompressor will treat it.
PlannedComponent(d, ci, max, min, ssize) ==
  LET component == d.components[ci]
      downsampled_width == jdiv_round_up(d.image_width * component.h * ssize, max.h * 8)
      h_in == (component.h * ssize) \div min
      v_in == (component.v * ssize) \div min
  IN [DCT_scaled_size |-> ssize,
      downsampled_width |-> downsampled_width,
      downsampled_height |-> jdiv_round_up(d.image_height * component.v * ssize, max.v * 8),
      width_in_blocks |-> jdiv_round_up(d.image_width * component.h, max.h * 8),
      h_in |-> h_in, rowgroup_height |-> v_in,
      method |-> upsample_method(component_needed(ci, d.out_color_space),
                   d.do_fancy_upsampling /\ min > 1 /\ downsampled_width > 2,
                   h_in, v_in, max.h, max.v)]

\* jpeg_calc_output_dimensions, and what master_selection makes of it.
Plan(d) ==
  LET min == min_DCT_scaled_size(d)
      max == max_samp_factor(d.components)
      Selected(sizes) ==
        [output_width |-> jdiv_round_up(d.image_width * min, 8),
         output_height |-> jdiv_round_up(d.image_height * min, 8),
         min_DCT_scaled_size |-> min, max |-> max,
         merged |-> use_merged_upsample(d, sizes),
         components |-> [ci \in DOMAIN d.components |-> PlannedComponent(d, ci, max, min, sizes[ci])]]
  IN Selected([ci \in DOMAIN d.components |-> DCT_scaled_size(d.components[ci], max, min)])

methods(plan) == {plan.components[ci].method : ci \in DOMAIN plan.components}
rec_outbuf_height(plan) == IF plan.merged THEN plan.max.v ELSE 1
need_context_rows(plan) == ~plan.merged /\ "h2v2_fancy" \in methods(plan)
color_buf_width(plan) == jround_up(plan.output_width, plan.max.h)

-----------------------------------------------------------------------------
(* The decompressor: a row group of a component with u.width samples       *)
(* becomes u.max_v rows of pixels.                                         *)

Upsampled(u, width, Pixel(_, _)) ==
  [row \in 0 .. u.max_v - 1 |-> [col \in 0 .. width - 1 |-> Pixel(row, col)]]

int_upsample(u, h_expand, v_expand, data) ==
  Upsampled(u, jround_up(u.output_width, h_expand),
    LAMBDA row, col : data[row \div v_expand][col \div h_expand])
h2v1_upsample(u, data) ==
  Upsampled(u, jround_up(u.output_width, 2), LAMBDA row, col : data[row][col \div 2])
h2v2_upsample(u, data) ==
  Upsampled(u, jround_up(u.output_width, 2), LAMBDA row, col : data[row \div 2][col \div 2])

\* 3/4 of the nearer sample and 1/4 of the further one; outside there is none.
h2v1_fancy_upsample(u, data) ==
  LET Pixel(row, i, right) ==
        CASE ~right /\ i = 0 -> data[row][i]
          [] right /\ i = u.width - 1 -> data[row][i]
          [] ~right /\ i > 0 -> (data[row][i] * 3 + data[row][i - 1] + 1) \div 4
          [] right /\ i < u.width - 1 -> (data[row][i] * 3 + data[row][i + 1] + 2) \div 4
  IN Upsampled(u, 2 * u.width, LAMBDA row, col : Pixel(row, col \div 2, col % 2 = 1))

\* The row next to the nearest one.
NextNearest(row) == IF row % 2 = 0 THEN (row \div 2) - 1 ELSE (row \div 2) + 1

h2v2_fancy_upsample(u, data) ==
  LET colsum(row, i) == data[row \div 2][i] * 3 + data[NextNearest(row)][i]
      Pixel(row, i, right) ==
        CASE ~right /\ i = 0 -> (colsum(row, i) * 4 + 8) \div 16
          [] right /\ i = u.width - 1 -> (colsum(row, i) * 4 + 7) \div 16
          [] ~right /\ i > 0 -> (colsum(row, i) * 3 + colsum(row, i - 1) + 8) \div 16
          [] right /\ i < u.width - 1 -> (colsum(row, i) * 3 + colsum(row, i + 1) + 7) \div 16
  IN Upsampled(u, 2 * u.width, LAMBDA row, col : Pixel(row, col \div 2, col % 2 = 1))

upsample(u, method, data) ==
  CASE method = "fullsize" -> data
    [] method = "h2v1" -> h2v1_upsample(u, data)
    [] method = "h2v2" -> h2v2_upsample(u, data)
    [] method = "h2v1_fancy" -> h2v1_fancy_upsample(u, data)
    [] method = "h2v2_fancy" -> h2v2_fancy_upsample(u, data)
    [] method = "int" -> int_upsample(u, u.max_h \div u.h_in, u.max_v \div u.v_in, data)

-----------------------------------------------------------------------------
(* Upsampling merged with the conversion of colors: two rows of pixels at  *)
(* a time from two of luminance and one of color, the second being kept    *)
(* when there is only room for one.                                        *)

h2v2_merged_upsample(image, group) ==
  LET Row(luma, cb, cr) ==
        [col \in 0 .. image.output_width - 1 |-> Tinted(luma[col], Chroma(cb[col \div 2], cr[col \div 2]))]
  IN [k \in 1 .. 2 |-> Row(image.y[2 * group + k - 1], image.cb[group], image.cr[group])]

h2v1_merged_upsample(image, group) ==
  [col \in 0 .. image.output_width - 1 |->
     Tinted(image.y[group][col], Chroma(image.cb[group][col \div 2], image.cr[group][col \div 2]))]

\* Variant: a new pass begins with the spare row of the pass before.
KeepSpare(m, image) == [m EXCEPT !.rows_to_go = image.output_height, !.in_row_group_ctr = 0, !.output = <<>>]

start_pass_merged_upsample(m, image) ==
  [m EXCEPT !.spare_full = FALSE, !.rows_to_go = image.output_height,
            !.in_row_group_ctr = 0, !.output = <<>>]

merged_1v_upsample(m, image) ==
  [m EXCEPT !.output = Append(@, h2v1_merged_upsample(image, m.in_row_group_ctr)),
            !.in_row_group_ctr = @ + 1]

SpareRow(m) ==
  [m EXCEPT !.output = Append(@, m.spare_row), !.spare_full = FALSE,
            !.rows_to_go = @ - 1, !.in_row_group_ctr = @ + 1]

merged_2v_upsample(m, image, out_rows_avail) ==
  LET num_rows == Lesser(2, Lesser(m.rows_to_go, out_rows_avail))
      Made(rows) ==
        IF num_rows > 1
        THEN [m EXCEPT !.output = @ \o rows, !.rows_to_go = @ - 2, !.in_row_group_ctr = @ + 1]
        ELSE [m EXCEPT !.output = Append(@, rows[1]), !.rows_to_go = @ - 1,
                       !.spare_row = rows[2], !.spare_full = TRUE]
  IN IF m.spare_full THEN SpareRow(m) ELSE Made(h2v2_merged_upsample(image, m.in_row_group_ctr))

=============================================================================
