---------------------------- MODULE MCJpegBlocks ----------------------------
(***************************************************************************)
(* The JPEG library's work on blocks of samples and of coefficients, and   *)
(* on the tables for their codes.                                          *)
(***************************************************************************)
EXTENDS MCJpegPixels

Dct == INSTANCE JpegDct
Turn == INSTANCE JpegTransform WITH DCTSIZE <- 2
HuffmanTable == INSTANCE JpegHuffmanTable WITH NumSymbols <- 5, MAX_CLEN <- 6, MaxCode <- 3

-----------------------------------------------------------------------------
(* Tables of codes: JpegHuffmanTable.                                      *)

Counted(freq) == {i \in DOMAIN freq : freq[i] > 0}
KraftSum(bits, n) == FoldLeft(LAMBDA sum, l : sum + bits[l] * 2 ^ (n - l), 0, [l \in 1 .. n |-> l])

\* The lengths of all codes for k symbols that leave none out: one code
\* becomes two.
Split(lengths) ==
  {SortSeq(Append([lengths EXCEPT ![p] = @ + 1], lengths[p] + 1), <) : p \in DOMAIN lengths}
FullCodes[k \in 1 .. 6] ==
  IF k = 1 THEN {<<0>>} ELSE UNION {Split(lengths) : lengths \in FullCodes[k - 1]}
LengthsOf(bits) == FlattenSeq([l \in DOMAIN bits |-> [k \in 1 .. bits[l] |-> l]])
Cost(lengths, counts) == FoldLeft(LAMBDA sum, k : sum + lengths[k] * counts[k], 0, [k \in DOMAIN counts |-> k])

Falling(s) == SortSeq(s, LAMBDA a, b : a > b)

\* No code of up to five bits is better; 5 is the pseudo-symbol.
BestSizes(counts, sizes) ==
  LET total == Cost(sizes, counts)
  IN \A lengths \in FullCodes[Len(counts)] : total <= Cost(lengths, Falling(counts))

RightTable(freq, sizes, table) ==
  LET symbols == Counted(freq)
      lengths == LengthsOf(table.bits)
  IN /\ ToSet(table.huffval) = symbols /\ Len(table.huffval) = Cardinality(symbols)
     /\ Len(lengths) = Cardinality(symbols)
     /\ KraftSum(table.bits, 3) < 8
     /\ \A i, j \in symbols : sizes[i] < sizes[j] => freq[i] >= freq[j]
     /\ \A p, q \in DOMAIN lengths : lengths[p] < lengths[q] => sizes[table.huffval[p]] <= sizes[table.huffval[q]]
     /\ LET used == SelectSeq(<<0, 1, 2, 3, 4, 5>>, LAMBDA i : i \in symbols \cup {5})
        IN BestSizes([k \in DOMAIN used |-> IF used[k] = 5 THEN 1 ELSE freq[used[k]]],
                     [k \in DOMAIN used |-> sizes[used[k]]])

(***************************************************************************)
(* Whatever was counted: each symbol that occurs gets a code, none of all  *)
(* ones and none longer than the limit; a symbol that occurs more often    *)
(* has no longer code; and without the limit no other code with room for   *)
(* the pseudo-symbol makes a shorter image.                                *)
(***************************************************************************)
OptimalTable ==
  Given("tables") =>
    RightTable(argument, HuffmanTable!CodeSizes(argument), HuffmanTable!jpeg_gen_optimal_table(argument))

-----------------------------------------------------------------------------
(* Blocks: JpegDct.                                                        *)

Lines(Sample(_, _)) == [row \in 1 .. 8 |-> [col \in 1 .. 8 |-> Sample(row, col)]]
SampleBlocks ==
  {Lines(LAMBDA row, col : level) : level \in {0, 1, 127, 128, 200, 255}}
  \cup {Lines(LAMBDA row, col : IF row = r /\ col = c THEN 255 ELSE 0) : r \in {1, 4, 8}, c \in {1, 6}}
  \cup {Lines(LAMBDA row, col : (row * r + col * c) % 256) : r \in {0, 3, 30}, c \in {0, 11, 30}}
  \cup {Lines(LAMBDA row, col : IF row % r = 0 THEN 255 ELSE IF col % c = 0 THEN 200 ELSE 0) :
          r \in {2, 4, 9}, c \in {2, 3, 9}}
  \cup {Lines(LAMBDA row, col : (row * row * k + col * 101 + row * col * 53) % 256) : k \in 1 .. 20}
  \cup {Lines(LAMBDA row, col : 60 + ((row * row * k + col * 29 + row * col * 17) % 130)) : k \in 1 .. 20}
Steps(step, slope) == Lines(LAMBDA row, col : step + slope * (row + col - 2))

\* The fast method has too little room for the last places of fine tables.
MethodsFor(quant) == {"JDCT_ISLOW"} \cup IF quant[1][1] < 16 THEN {} ELSE {"JDCT_IFAST"}
FullSize(method) == IF method = "JDCT_ISLOW" THEN "jpeg_idct_islow" ELSE "jpeg_idct_ifast"

SumOver(rows, cols, Term(_, _)) == MapThenSumSet(LAMBDA at : Term(at[1], at[2]), rows \X cols)

\* In the mean, no more than quantization and arithmetic take.
SquaredLoss(quant, arithmetic) ==
  SumOver(1 .. 8, 1 .. 8, LAMBDA row, col :
    ((quant[row][col] + 1) \div 2) * ((quant[row][col] + 1) \div 2) + arithmetic * arithmetic)
NearBlock(a, b, quant, arithmetic) ==
  SumOver(1 .. 8, 1 .. 8, LAMBDA row, col :
    (a[row][col] - b[row][col]) * (a[row][col] - b[row][col])) <= SquaredLoss(quant, arithmetic)

\* A smaller block is the averages of the block, where none was limited.
AverageOf(small, n, full) ==
  (\A row, col \in 1 .. 8 : full[row][col] \in 1 .. 254) =>
    \A row, col \in 1 .. 8 \div n :
      Distance(n * n * small[row][col],
               SumOver((row - 1) * n + 1 .. row * n, (col - 1) * n + 1 .. col * n,
                       LAMBDA r, c : full[r][c])) <= n * n

DecodedBy(method, coefs, quant) ==
  Dct!inverse_DCT(FullSize(method), coefs, Dct!multipliers_for(method, quant))

BlockComesBack(samples, quant) ==
  LET Reduced(coefs, full) ==
        /\ AverageOf(Dct!jpeg_idct_4x4(coefs, quant), 2, full)
        /\ AverageOf(Dct!jpeg_idct_2x2(coefs, quant), 4, full)
        /\ AverageOf(Dct!jpeg_idct_1x1(coefs, quant), 8, full)
      Encoded(coefs) ==
        /\ \A method \in MethodsFor(quant) : NearBlock(DecodedBy(method, coefs, quant), samples, quant, 1)
        /\ Reduced(coefs, DecodedBy("JDCT_ISLOW", coefs, quant))
  IN \A method \in MethodsFor(quant) :
       Encoded(Dct!forward_DCT(method, Dct!divisors(method, quant), samples))

\* 8192 times the cosine of k sixteenths of a half turn.
Cosines == <<8192, 8035, 7568, 6811, 5793, 4551, 3135, 1598, 0>>
Cosine(k) ==
  LET m == 16 - Distance(k % 32, 16)
  IN IF m > 8 THEN -Cosines[17 - m] ELSE Cosines[m + 1]
Wave(frequency, x) == IF frequency = 1 THEN Cosines[5] ELSE Cosine((2 * x - 1) * (frequency - 1))

\* One frequency alone makes its waves.
MakesWaves(v, u, amplitude, block, error) ==
  \A row, col \in 1 .. 8 :
    Distance(block[row][col],
             128 + (amplitude * ((Wave(v, row) * Wave(u, col)) \div 1024) + 131072) \div 262144) <= error

Alone(v, u, amplitude) == Lines(LAMBDA row, col : IF row = v /\ col = u THEN amplitude ELSE 0)

StartPass(dct_method) ==
  /\ GoOnWith("passes")
  /\ argument' = [component |-> Dct!start_pass(argument.component, dct_method),
                  ready |-> argument.component.quant_table # Dct!NoTable]
TableArrives(quant) ==
  /\ GoOnWith("passes")
  /\ argument.component.quant_table = Dct!NoTable
  /\ argument' = [component |-> [argument.component EXCEPT !.quant_table = quant], ready |-> FALSE]

\* What the next pass makes of a block, once there was a table for it.
PassDecodes(component, samples) ==
  LET Encoded(quant) == Dct!forward_DCT("JDCT_ISLOW", Dct!divisors("JDCT_ISLOW", quant), samples)
      Made == Dct!inverse_DCT(component.method_ptr, Encoded(component.quant_table), component.dct_table)
  IN \A row, col \in DOMAIN Made : Distance(Made[row][col], 200) <= 2

(***************************************************************************)
(* A block of samples comes back as near as its quantization allows, from  *)
(* each method to each; in a reduced size it is the averages; a frequency  *)
(* alone is its wave; and a component whose table only came after passes   *)
(* had begun, or whose method changes between passes, is decoded by the    *)
(* table for its method.                                                   *)
(***************************************************************************)
BlocksComeBack ==
  /\ Given("block") => BlockComesBack(argument.samples, argument.quant)
  /\ Given("frequency") =>
       LET Waves(method, step, error) ==
             MakesWaves(argument.v, argument.u, argument.amplitude,
               DecodedBy(method, Alone(argument.v, argument.u, argument.amplitude \div step), Steps(step, 0)), error)
       IN Waves("JDCT_ISLOW", 1, 1) /\ Waves("JDCT_IFAST", 20, 3)
  /\ Given("passes") /\ argument.ready /\ argument.component.component_needed =>
       PassDecodes(argument.component, Lines(LAMBDA row, col : 200))

\* A sample's way through the library and back.
SamplesComeBack == ColorsComeBack /\ BlocksComeBack

-----------------------------------------------------------------------------
(* Transformations: JpegTransform, with blocks of 2 by 2.                  *)

\* Each coefficient is another number.
NumberedBlocks(ci, rows, cols) ==
  [y \in 0 .. rows - 1 |-> [x \in 0 .. cols - 1 |->
     [i \in 0 .. 1 |-> [j \in 0 .. 1 |-> 1 + 1000 * ci + 100 * y + 10 * x + 2 * i + j]]]]
TurnedImage(w, h, factors) ==
  LET plain == [width |-> w, height |-> h,
                color_space |-> <<"GRAYSCALE", "UNKNOWN", "YCbCr", "CMYK">>[Len(factors)],
                quant_tbls |-> <<[i \in 0 .. 1 |-> [j \in 0 .. 1 |-> 1 + i + 2 * j]],
                                 [i \in 0 .. 1 |-> [j \in 0 .. 1 |-> 7 - 3 * i + j]]>>,
                components |-> [ci \in DOMAIN factors |->
                  [h |-> factors[ci][1], v |-> factors[ci][2], quant_tbl_no |-> IF ci = 1 THEN 1 ELSE 2]]]
      Filled(ci, c) ==
        [h |-> c.h, v |-> c.v, quant_tbl_no |-> c.quant_tbl_no,
         blocks |-> NumberedBlocks(ci, Turn!jround_up(Turn!height_in_blocks(plain, c), c.v),
                                   Turn!jround_up(Turn!width_in_blocks(plain, c), c.h))]
  IN [plain EXCEPT !.components = [ci \in DOMAIN @ |-> Filled(ci, @[ci])]]

TurnedImages ==
  {TurnedImage(w, h, factors) :
     w \in {1, 4, 7, 8}, h \in {3, 4, 10},
     factors \in {<<<<1, 1>>>>, <<<<2, 1>>>>, <<<<2, 2>>, <<1, 1>>, <<1, 1>>>>,
                  <<<<2, 1>>, <<1, 1>>, <<2, 1>>>>, <<<<1, 2>>, <<1, 1>>, <<1, 2>>>>,
                  [ci \in 1 .. 4 |-> <<1, 1>>]}}
TurnInfos ==
  {[transform |-> t, trim |-> trim, force_grayscale |-> gray] :
     t \in Turn!Transforms, trim \in BOOLEAN, gray \in BOOLEAN}

\* A pixel of a component: its block, multiplied by the table and transformed.
PixelOf(c, table, y, x) ==
  LET block == c.blocks[y \div 2][x \div 2]
      Term(i, j) == block[i][j] * table[i][j] * IF (y * i + x * j) % 2 = 1 THEN -1 ELSE 1
  IN Term(0, 0) + Term(0, 1) + Term(1, 0) + Term(1, 1)

MirrorsX == {"JXFORM_FLIP_H", "JXFORM_TRANSVERSE", "JXFORM_ROT_90", "JXFORM_ROT_180"}
MirrorsY == {"JXFORM_FLIP_V", "JXFORM_TRANSVERSE", "JXFORM_ROT_180", "JXFORM_ROT_270"}
Mirrored(n, size) == IF n < size THEN size - 1 - n ELSE n

\* Where the pixel of the new component comes from: its row and its column.
ComesFrom(transform, y, x, height, width) ==
  LET row == IF transform \in MirrorsY THEN Mirrored(y, height) ELSE y
      col == IF transform \in MirrorsX THEN Mirrored(x, width) ELSE x
  IN IF transform \in Turn!Transposes THEN <<col, row>> ELSE <<row, col>>

ComponentTurned(src, dst, transform, ci) ==
  LET to == dst.components[ci]
      from == src.components[ci]
      Expected(at) == PixelOf(from, src.quant_tbls[from.quant_tbl_no], at[1], at[2])
  IN \A y \in 0 .. 2 * Turn!height_in_blocks(dst, to) - 1, x \in 0 .. 2 * Turn!width_in_blocks(dst, to) - 1 :
       PixelOf(to, dst.quant_tbls[to.quant_tbl_no], y, x)
         = Expected(ComesFrom(transform, y, x, 2 * Turn!comp_height(dst, to), 2 * Turn!comp_width(dst, to)))

\* Nothing is trimmed but partial iMCUs, and with trimming all is mirrored.
TrimmedRight(src, dst, info) ==
  LET across == 2 * Turn!max_h_samp_factor(dst.components)
      down == 2 * Turn!max_v_samp_factor(dst.components)
      before == IF info.transform \in Turn!Transposes THEN <<src.height, src.width>>
                ELSE <<src.width, src.height>>
  IN /\ dst.width \in before[1] - across + 1 .. before[1]
     /\ dst.height \in before[2] - down + 1 .. before[2]
     /\ ~info.trim => <<dst.width, dst.height>> = before
     /\ info.trim /\ info.transform \in MirrorsX => dst.width < across \/ dst.width % across = 0
     /\ info.trim /\ info.transform \in MirrorsY => dst.height < down \/ dst.height % down = 0

\* The blocks that were written are those that there was memory for.
WorkspaceFits(workspace, dst) ==
  \A ci \in DOMAIN dst.components \cap DOMAIN workspace :
    LET blocks == dst.components[ci].blocks
    IN /\ Cardinality(DOMAIN blocks) <= workspace[ci][1]
       /\ \A y \in DOMAIN blocks : Cardinality(DOMAIN blocks[y]) <= workspace[ci][2]

SavedMarkers ==
  {[marker |-> "APP0", starts |-> "JFIF"], [marker |-> "APP0", starts |-> "JFXX"],
   [marker |-> "APP14", starts |-> "Adobe"], [marker |-> "APP14", starts |-> "JFIF"],
   [marker |-> "COM", starts |-> "Adobe"]}

\* Comments stay; everything stays on request, but no second header.
CopiedRight(a, copied) ==
  LET Kept(m) ==
        /\ a.option # "JCOPYOPT_NONE"
        /\ a.option = "JCOPYOPT_COMMENTS" => m.marker = "COM"
        /\ m.starts = "JFIF" /\ a.dst.write_JFIF_header => m.marker # "APP0"
        /\ m.starts = "Adobe" /\ a.dst.write_Adobe_marker => m.marker # "APP14"
  IN /\ \A n \in DOMAIN copied : Kept(copied[n])
     /\ \A m \in SavedMarkers : Kept(m) =>
          Len(SelectSeq(copied, LAMBDA x : x = m)) = Len(SelectSeq(a.markers, LAMBDA x : x = m))

(***************************************************************************)
(* An image that is turned or mirrored in the file shows the pixels of the *)
(* original, turned or mirrored, with its tables turned, too; what is not  *)
(* a full iMCU is where it was, or trimmed on request; a workspace has     *)
(* room; and what was saved of the original file goes with it, without a   *)
(* second header.                                                          *)
(***************************************************************************)
TransformedImage ==
  /\ Given("turn") =>
       LET Right(src, dst, info) ==
             dst.color_space = "JERR_CONVERSION_NOTIMPL"
             \/
             /\ info.force_grayscale => Len(dst.components) = 1
             /\ TrimmedRight(src, dst, info)
             /\ \A ci \in DOMAIN dst.components : ComponentTurned(src, dst, info.transform, ci)
             /\ WorkspaceFits(Turn!jtransform_request_workspace(src, info.transform), dst)
       IN Right(argument.image, Turn!jtransform(argument.image, argument.info), argument.info)
  /\ Given("copy") =>
       LET saved == SelectSeq(argument.markers, LAMBDA m : m.marker \in Turn!jcopy_markers_setup(argument.option))
       IN CopiedRight(argument, Turn!jcopy_markers_execute(saved, argument.dst))

-----------------------------------------------------------------------------

BlocksNext ==
  \/ Give("tables", {f \in [0 .. 4 -> {0, 1, 2, 3, 5}] : \E i \in 0 .. 4 : f[i] > 0})
  \/ Give("block", {[samples |-> s, quant |-> q] : s \in SampleBlocks, q \in {Steps(1, 0), Steps(3, 0), Steps(16, 6)}})
  \/ Give("frequency", {[v |-> v, u |-> u, amplitude |-> a] : v \in 1 .. 8, u \in 1 .. 8, a \in {-40, 300, 500}})
  \/ Give("passes", {[component |-> Dct!NewComponent(size, needed), ready |-> FALSE] :
                       size \in {1, 2, 4, 8}, needed \in BOOLEAN})
  \/ \E method \in MethodsFor(Steps(16, 0)) : StartPass(method)
  \/ \E quant \in {Steps(16, 0), Steps(16, 5)} : TableArrives(quant)
  \/ Give("turn", {[image |-> image, info |-> info] : image \in TurnedImages, info \in TurnInfos})
  \/ Give("copy", {[markers |-> m, option |-> o, dst |-> [write_JFIF_header |-> j, write_Adobe_marker |-> a]] :
                     m \in BoundedSeq(SavedMarkers, 3), j \in BOOLEAN, a \in BOOLEAN,
                     o \in {"JCOPYOPT_NONE", "JCOPYOPT_COMMENTS", "JCOPYOPT_ALL"}})
=============================================================================
