---------------------------- MODULE JpegTransform ----------------------------
(***************************************************************************)
(* Turning and mirroring an image without decoding it (transupp.c): the    *)
(* blocks change places, and their coefficients change places and signs.   *)
(*                                                                         *)
(* An image has a width, a height, a color_space, quant_tbls and           *)
(* components; a component its sampling factors h and v, its quant_tbl_no  *)
(* and its blocks, by row and column, padded to full iMCUs.                *)
(***************************************************************************)
EXTENDS Integers, Sequences, SequencesExt

CONSTANT DCTSIZE   \* 8

Transforms ==
  {"JXFORM_NONE", "JXFORM_FLIP_H", "JXFORM_FLIP_V", "JXFORM_TRANSPOSE", "JXFORM_TRANSVERSE",
   "JXFORM_ROT_90", "JXFORM_ROT_180", "JXFORM_ROT_270"}

Frequencies == 0 .. DCTSIZE - 1
ceil_div(a, b) == (a + b - 1) \div b
jround_up(a, b) == ceil_div(a, b) * b
max_h_samp_factor(components) == Max({components[ci].h : ci \in DOMAIN components})
max_v_samp_factor(components) == Max({components[ci].v : ci \in DOMAIN components})

\* Of a destination: jpeg_write_coefficients has them computed.
width_in_blocks(image, c) == ceil_div(image.width * c.h, max_h_samp_factor(image.components) * DCTSIZE)
height_in_blocks(image, c) == ceil_div(image.height * c.v, max_v_samp_factor(image.components) * DCTSIZE)

\* The columns and rows of a component in full iMCUs: what can be mirrored.
comp_width(dst, c) == (dst.width \div (max_h_samp_factor(dst.components) * DCTSIZE)) * c.h
comp_height(dst, c) == (dst.height \div (max_v_samp_factor(dst.components) * DCTSIZE)) * c.v

-----------------------------------------------------------------------------
(* Blocks.                                                                 *)

NegatedWhere(Odd(_, _), block) ==
  [i \in Frequencies |-> [j \in Frequencies |-> IF Odd(i, j) THEN -block[i][j] ELSE block[i][j]]]

TransposedBlock(block) == [j \in Frequencies |-> [i \in Frequencies |-> block[i][j]]]
MirroredAcross(block) == NegatedWhere(LAMBDA i, j : j % 2 = 1, block)
MirroredDown(block) == NegatedWhere(LAMBDA i, j : i % 2 = 1, block)
MirroredBoth(block) == NegatedWhere(LAMBDA i, j : (i + j) % 2 = 1, block)

-----------------------------------------------------------------------------
(* The transformations, for component c of the destination.  What is not   *)
(* in a full iMCU stays where it is, or where transposing puts it.         *)

RowsOf(dst, c) == 0 .. jround_up(height_in_blocks(dst, c), c.v) - 1
ColumnsOf(dst, c) == 0 .. jround_up(width_in_blocks(dst, c), c.h) - 1
Assembled(dst, c, Block(_, _)) ==
  [y \in RowsOf(dst, c) |-> [x \in ColumnsOf(dst, c) |-> Block(y, x)]]

\* In place, in pairs from both ends; the one in the middle meets itself.
SwapPair(row, x, last) ==
  [row EXCEPT ![x] = MirroredAcross(row[last - x]), ![last - x] = MirroredAcross(row[x])]
FlippedRow(row, width) ==
  LET pairs == (width + 1) \div 2
      flipped[k \in 0 .. pairs] ==
        IF k = 0 THEN row ELSE SwapPair(flipped[k - 1], k - 1, width - 1)
  IN flipped[pairs]
do_flip_h(dst, c, src) ==
  [y \in DOMAIN src |-> IF y \in RowsOf(dst, c) THEN FlippedRow(src[y], comp_width(dst, c)) ELSE src[y]]

do_flip_v(dst, c, src) ==
  LET h == comp_height(dst, c)
  IN [y \in RowsOf(dst, c) |-> [x \in 0 .. width_in_blocks(dst, c) - 1 |->
        IF y < h THEN MirroredDown(src[h - 1 - y][x]) ELSE src[y][x]]]

do_transpose(dst, c, src) == Assembled(dst, c, LAMBDA y, x : TransposedBlock(src[x][y]))

do_rot_90(dst, c, src) ==
  LET w == comp_width(dst, c)
  IN Assembled(dst, c, LAMBDA y, x :
       IF x < w THEN MirroredAcross(TransposedBlock(src[w - 1 - x][y])) ELSE TransposedBlock(src[x][y]))

do_rot_270(dst, c, src) ==
  LET h == comp_height(dst, c)
  IN Assembled(dst, c, LAMBDA y, x :
       IF y < h THEN MirroredDown(TransposedBlock(src[x][h - 1 - y])) ELSE TransposedBlock(src[x][y]))

do_rot_180(dst, c, src) ==
  LET w == comp_width(dst, c)
      h == comp_height(dst, c)
  IN [y \in RowsOf(dst, c) |-> [x \in 0 .. width_in_blocks(dst, c) - 1 |->
        CASE y < h /\ x < w -> MirroredBoth(src[h - 1 - y][w - 1 - x])
          [] y < h /\ x >= w -> MirroredDown(src[h - 1 - y][x])
          [] y >= h /\ x < w -> MirroredAcross(src[y][w - 1 - x])
          [] y >= h /\ x >= w -> src[y][x]]]

do_transverse(dst, c, src) ==
  LET w == comp_width(dst, c)
      h == comp_height(dst, c)
      Block(y, x) ==
        CASE y < h /\ x < w -> MirroredBoth(TransposedBlock(src[w - 1 - x][h - 1 - y]))
          [] y < h /\ x >= w -> MirroredDown(TransposedBlock(src[x][h - 1 - y]))
          [] y >= h /\ x < w -> MirroredAcross(TransposedBlock(src[w - 1 - x][y]))
          [] y >= h /\ x >= w -> TransposedBlock(src[x][y])
  IN Assembled(dst, c, Block)

\* jtransform_execute_transformation.
Transformed(transform, dst, c, src) ==
  CASE transform = "JXFORM_NONE" -> src
    [] transform = "JXFORM_FLIP_H" -> do_flip_h(dst, c, src)
    [] transform = "JXFORM_FLIP_V" -> do_flip_v(dst, c, src)
    [] transform = "JXFORM_TRANSPOSE" -> do_transpose(dst, c, src)
    [] transform = "JXFORM_TRANSVERSE" -> do_transverse(dst, c, src)
    [] transform = "JXFORM_ROT_90" -> do_rot_90(dst, c, src)
    [] transform = "JXFORM_ROT_180" -> do_rot_180(dst, c, src)
    [] transform = "JXFORM_ROT_270" -> do_rot_270(dst, c, src)

-----------------------------------------------------------------------------
(* The parameters of the destination.                                      *)

\* Variant: the tables stay as they are.
KeepTables(tables) == tables
TransposeTables(tables) == [n \in DOMAIN tables |-> TransposedBlock(tables[n])]

transpose_critical_parameters(dst) ==
  [dst EXCEPT !.width = dst.height, !.height = dst.width,
              !.quant_tbls = TransposeTables(@),
              !.components = [ci \in DOMAIN @ |-> [@[ci] EXCEPT !.h = dst.components[ci].v, !.v = dst.components[ci].h]]]

\* Partial iMCUs go, unless nothing else is there.
Trimmed(size, iMCU_size) == IF size < iMCU_size THEN size ELSE (size \div iMCU_size) * iMCU_size
trim_right_edge(dst) ==
  [dst EXCEPT !.width = Trimmed(@, max_h_samp_factor(dst.components) * DCTSIZE)]
trim_bottom_edge(dst) ==
  [dst EXCEPT !.height = Trimmed(@, max_v_samp_factor(dst.components) * DCTSIZE)]

HasGray(image) == <<image.color_space, Len(image.components)>> \in {<<"YCbCr", 3>>, <<"GRAYSCALE", 1>>}

\* One component is left, with factors of 1 and its table.
ForcedToGray(dst) ==
  [dst EXCEPT !.color_space = "GRAYSCALE",
              !.components = <<[@[1] EXCEPT !.h = 1, !.v = 1]>>]

Transposes == {"JXFORM_TRANSPOSE", "JXFORM_TRANSVERSE", "JXFORM_ROT_90", "JXFORM_ROT_270"}
TrimsRight == {"JXFORM_FLIP_H", "JXFORM_TRANSVERSE", "JXFORM_ROT_90", "JXFORM_ROT_180"}
TrimsBottom == {"JXFORM_FLIP_V", "JXFORM_TRANSVERSE", "JXFORM_ROT_180", "JXFORM_ROT_270"}

jtransform_adjust_parameters(dst, info) ==
  LET gray == IF info.force_grayscale THEN ForcedToGray(dst) ELSE dst
      turned == IF info.transform \in Transposes THEN transpose_critical_parameters(gray) ELSE gray
      narrow == IF info.trim /\ info.transform \in TrimsRight THEN trim_right_edge(turned) ELSE turned
  IN IF info.trim /\ info.transform \in TrimsBottom THEN trim_bottom_edge(narrow) ELSE narrow

\* The image after a transformation, or what tells of an error.
Refused(src) == [src EXCEPT !.color_space = "JERR_CONVERSION_NOTIMPL"]
jtransform(src, info) ==
  LET Executed(dst) ==
        [dst EXCEPT !.components = [ci \in DOMAIN @ |->
           [@[ci] EXCEPT !.blocks = Transformed(info.transform, dst, dst.components[ci],
                                                src.components[ci].blocks)]]]
  IN IF info.force_grayscale /\ ~HasGray(src) THEN Refused(src)
     ELSE Executed(jtransform_adjust_parameters(src, info))

\* A workspace, none for what is done in place: its rows and columns.
jtransform_request_workspace(src, transform) ==
  LET Rows(c) == jround_up(height_in_blocks(src, c), c.v)
      Columns(c) == jround_up(width_in_blocks(src, c), c.h)
  IN CASE transform \in {"JXFORM_NONE", "JXFORM_FLIP_H"} -> <<>>
       [] transform \in {"JXFORM_FLIP_V", "JXFORM_ROT_180"} ->
            [ci \in DOMAIN src.components |-> <<Rows(src.components[ci]), Columns(src.components[ci])>>]
       [] OTHER ->
            [ci \in DOMAIN src.components |-> <<Columns(src.components[ci]), Rows(src.components[ci])>>]

-----------------------------------------------------------------------------
(* Markers that were saved from the source.                                *)

\* What the library has written by itself is not written again.
IsDuplicate(marker, dst) ==
  \/ dst.write_JFIF_header /\ marker.marker = "APP0" /\ marker.starts = "JFIF"
  \/ dst.write_Adobe_marker /\ marker.marker = "APP14" /\ marker.starts = "Adobe"
jcopy_markers_execute(marker_list, dst) == SelectSeq(marker_list, LAMBDA m : ~IsDuplicate(m, dst))

\* The markers to save.
jcopy_markers_setup(option) ==
  (IF option = "JCOPYOPT_NONE" THEN {} ELSE {"COM"})
    \cup IF option = "JCOPYOPT_ALL" THEN {"APP0", "APP1", "APP14"} ELSE {}

==============================================================================
