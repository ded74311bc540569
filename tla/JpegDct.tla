------------------------------ MODULE JpegDct ------------------------------
(***************************************************************************)
(* Blocks of samples and their frequencies: the forward and the inverse    *)
(* cosine transforms in integers, slow and fast (jfdctint.c, jfdctfst.c,   *)
(* jidctint.c, jidctfst.c) and to reduced sizes (jidctred.c), with their   *)
(* managers, which quantize (jcdctmgr.c) and choose (jddctmgr.c).          *)
(*                                                                         *)
(* A block is the sequence of its eight lines, a line the sequence of its  *)
(* eight numbers.  Integers have 32 bits, which the numbers never exceed.  *)
(***************************************************************************)
EXTENDS Integers, Sequences, SequencesExt, JpegColor

DCTSIZE == 8
Places == 1 .. DCTSIZE

RIGHT_SHIFT(x, n) == x \div 2 ^ n
DESCALE(x, n) == (x + 2 ^ (n - 1)) \div 2 ^ n

\* Constants have CONST_BITS after the point, the results of the first of
\* two passes PASS1_BITS.
CONST_BITS == 13
PASS1_BITS == 2

Transposed(lines) == [k \in DOMAIN lines[1] |-> [l \in DOMAIN lines |-> lines[l][k]]]
EachLine(Transform(_), lines) ==
  FoldLeft(LAMBDA made, line : Append(made, Transform(line)), <<>>, lines)

Sums(line) == [k \in 1 .. 4 |-> line[k] + line[9 - k]]
Differences(line) == [k \in 1 .. 4 |-> line[k] - line[9 - k]]

-----------------------------------------------------------------------------
(* The slow transforms.                                                    *)

\* The odd part, the same in both directions.
RotatedOdd(x7, x5, x3, x1) ==
  LET Outputs(z1, z2, z3, z4) ==
        <<2446 * x7 + z1 + z3, 16819 * x5 + z2 + z4, 25172 * x3 + z2 + z3, 12299 * x1 + z1 + z4>>
      Inner(z5) == Outputs(-7373 * (x7 + x1), -20995 * (x5 + x3),
                           z5 - 16069 * (x7 + x3), z5 - 3196 * (x5 + x1))
  IN Inner(9633 * (x7 + x3 + x5 + x1))

ForwardEven(s, Whole(_), Scaled(_)) ==
  LET Outputs(tmp10, tmp11, tmp12, tmp13) ==
        <<Whole(tmp10 + tmp11), Scaled(4433 * (tmp12 + tmp13) + 6270 * tmp13),
          Whole(tmp10 - tmp11), Scaled(4433 * (tmp12 + tmp13) - 15137 * tmp12)>>
  IN Outputs(s[1] + s[4], s[2] + s[3], s[2] - s[3], s[1] - s[4])

ForwardLine(line, Whole(_), Scaled(_)) ==
  LET Interleaved(even, odd) ==
        <<even[1], Scaled(odd[4]), even[2], Scaled(odd[3]),
          even[3], Scaled(odd[2]), even[4], Scaled(odd[1])>>
      Odd(d) == RotatedOdd(d[4], d[3], d[2], d[1])
  IN Interleaved(ForwardEven(Sums(line), Whole, Scaled), Odd(Differences(line)))

\* The result is eight times the transform.
jpeg_fdct_islow(block) ==
  LET Row(line) == ForwardLine(line, LAMBDA x : x * 2 ^ PASS1_BITS,
                               LAMBDA x : DESCALE(x, CONST_BITS - PASS1_BITS))
      Column(line) == ForwardLine(line, LAMBDA x : DESCALE(x, PASS1_BITS),
                                  LAMBDA x : DESCALE(x, CONST_BITS + PASS1_BITS))
  IN Transposed(EachLine(Column, Transposed(EachLine(Row, block))))

-----------------------------------------------------------------------------
(* Inverse transforms: columns first, where the coefficients are           *)
(* multiplied by the table of the component, then rows.                    *)

\* Outputs from both ends.
Butterfly(even, odd) ==
  LET n == Len(even)
  IN [k \in 1 .. 2 * n |-> IF k <= n THEN even[k] + odd[k]
                           ELSE even[2 * n + 1 - k] - odd[2 * n + 1 - k]]

InverseLine(x) ==
  LET Even(tmp0, tmp1, tmp2, tmp3) == <<tmp0 + tmp3, tmp1 + tmp2, tmp1 - tmp2, tmp0 - tmp3>>
      Rotated(z1) == Even((x[1] + x[5]) * 2 ^ CONST_BITS, (x[1] - x[5]) * 2 ^ CONST_BITS,
                          z1 - 15137 * x[7], z1 + 6270 * x[3])
  IN Butterfly(Rotated(4433 * (x[3] + x[7])), Reverse(RotatedOdd(x[8], x[6], x[4], x[2])))

\* Averages of two neighbours, without coefficient 4.
InverseLine4(x) ==
  LET Even(tmp0, tmp2) == <<tmp0 + tmp2, tmp0 - tmp2>>
  IN Butterfly(Even(x[1] * 2 ^ (CONST_BITS + 1), 15137 * x[3] - 6270 * x[7]),
               <<20995 * x[2] + 7373 * x[4] - 4926 * x[6] - 4176 * x[8],
                 8697 * x[2] - 17799 * x[4] + 11893 * x[6] - 1730 * x[8]>>)

\* Averages of four neighbours, without the even coefficients but the first.
InverseLine2(x) ==
  Butterfly(<<x[1] * 2 ^ (CONST_BITS + 2)>>,
            <<29692 * x[2] - 10426 * x[4] + 6967 * x[6] - 5906 * x[8]>>)

Descaled(line, n) == [k \in DOMAIN line |-> DESCALE(line[k], n)]
ToSamples(line) == [k \in DOMAIN line |-> IDCT_range_limit(line[k])]
Dequantized(coefs, multipliers) == [k \in Places |-> coefs[k] * multipliers[k]]

\* Where all of the others that are used are 0, there is a short way.
Flat(line, used) == \A k \in used : line[k] = 0
Repeated(x, n) == [k \in 1 .. n |-> x]

\* What is not used is never computed.
Unset == "unset"

\* bits: what a shorter line has more of them after the point.
InverseBy(Line(_), used, size, bits, coef_block, dct_table) ==
  LET Column(coefs, multipliers) ==
        IF Flat(coefs, used) THEN Repeated(coefs[1] * multipliers[1] * 2 ^ PASS1_BITS, size)
        ELSE Descaled(Line(Dequantized(coefs, multipliers)), CONST_BITS - PASS1_BITS + bits)
      Row(line) ==
        IF Flat(line, used) THEN Repeated(DESCALE(line[1], PASS1_BITS + 3), size)
        ELSE Descaled(Line(line), CONST_BITS + PASS1_BITS + 3 + bits)
      Columns(columns, multipliers) ==
        FoldLeft(LAMBDA made, k : Append(made, IF k \in used \cup {1}
                                               THEN Column(columns[k], multipliers[k])
                                               ELSE Repeated(Unset, size)),
                 <<>>, [k \in Places |-> k])
      Sampled(line) == ToSamples(Row(line))
  IN EachLine(Sampled, Transposed(Columns(Transposed(coef_block), Transposed(dct_table))))

jpeg_idct_islow(coef_block, dct_table) == InverseBy(InverseLine, 2 .. 8, 8, 0, coef_block, dct_table)
jpeg_idct_4x4(coef_block, dct_table) ==
  InverseBy(InverseLine4, {2, 3, 4, 6, 7, 8}, 4, 1, coef_block, dct_table)
jpeg_idct_2x2(coef_block, dct_table) == InverseBy(InverseLine2, {2, 4, 6, 8}, 2, 2, coef_block, dct_table)
jpeg_idct_1x1(coef_block, dct_table) ==
  <<<<IDCT_range_limit(DESCALE(coef_block[1][1] * dct_table[1][1], 3))>>>>

-----------------------------------------------------------------------------
(* The fast transforms: constants of 8 bits, and results are not rounded.  *)

MULTIPLY(x, constant) == RIGHT_SHIFT(x * constant, 8)

FastForwardEven(s) ==
  LET Outputs(tmp10, tmp11, tmp13, z1) == <<tmp10 + tmp11, tmp13 + z1, tmp10 - tmp11, tmp13 - z1>>
  IN Outputs(s[1] + s[4], s[2] + s[3], s[1] - s[4], MULTIPLY(s[2] - s[3] + s[1] - s[4], 181))

FastForwardOdd(d) ==
  LET Outputs(z2, z4, z11, z13) == <<z11 + z4, z13 - z2, z13 + z2, z11 - z4>>
      Rotated(tmp10, tmp12, z5, z3) ==
        Outputs(MULTIPLY(tmp10, 139) + z5, MULTIPLY(tmp12, 334) + z5, d[1] + z3, d[1] - z3)
      Sum(tmp10, tmp11, tmp12) ==
        Rotated(tmp10, tmp12, MULTIPLY(tmp10 - tmp12, 98), MULTIPLY(tmp11, 181))
  IN Sum(d[4] + d[3], d[3] + d[2], d[2] + d[1])

FastForwardLine(line) ==
  LET Interleaved(even, odd) == <<even[1], odd[1], even[2], odd[2], even[3], odd[3], even[4], odd[4]>>
  IN Interleaved(FastForwardEven(Sums(line)), FastForwardOdd(Differences(line)))

\* The result is scaled by the factors of its row and its column, too.
jpeg_fdct_ifast(block) ==
  Transposed(EachLine(FastForwardLine, Transposed(EachLine(FastForwardLine, block))))

FastInverseEven(x0, x2, x4, x6) ==
  LET Outputs(tmp10, tmp11, tmp12, tmp13) ==
        <<tmp10 + tmp13, tmp11 + tmp12, tmp11 - tmp12, tmp10 - tmp13>>
  IN Outputs(x0 + x4, x0 - x4, MULTIPLY(x2 - x6, 362) - (x2 + x6), x2 + x6)

FastInverseOdd(x1, x3, x5, x7) ==
  LET Ordered(tmp7, tmp6, tmp5, tmp10) == <<tmp7, tmp6, tmp5, -(tmp10 + tmp5)>>
      Middle(tmp7, tmp6, tmp10, tmp11) == Ordered(tmp7, tmp6, tmp11 - tmp6, tmp10)
      Rotated(z10, z11, z12, z13, z5) ==
        Middle(z11 + z13, MULTIPLY(z10, -669) + z5 - (z11 + z13), MULTIPLY(z12, 277) - z5,
               MULTIPLY(z11 - z13, 362))
      Sum(z10, z11, z12, z13) == Rotated(z10, z11, z12, z13, MULTIPLY(z10 + z12, 473))
  IN Sum(x5 - x3, x1 + x7, x1 - x7, x5 + x3)

FastInverseLine(x) ==
  Butterfly(FastInverseEven(x[1], x[3], x[5], x[7]), FastInverseOdd(x[2], x[4], x[6], x[8]))

jpeg_idct_ifast(coef_block, dct_table) ==
  LET used == 2 .. 8
      Column(coefs, multipliers) ==
        IF Flat(coefs, used) THEN Repeated(coefs[1] * multipliers[1], 8)
        ELSE FastInverseLine(Dequantized(coefs, multipliers))
      Row(line) == IF Flat(line, used) THEN Repeated(line[1], 8) ELSE FastInverseLine(line)
      Columns(columns, multipliers) ==
        FoldLeft(LAMBDA made, k : Append(made, Column(columns[k], multipliers[k])),
                 <<>>, [k \in Places |-> k])
      Sampled(line) == ToSamples([k \in Places |-> RIGHT_SHIFT(Row(line)[k], PASS1_BITS + 3)])
  IN EachLine(Sampled, Transposed(Columns(Transposed(coef_block), Transposed(dct_table))))

-----------------------------------------------------------------------------
(* Quantization.                                                           *)

\* The factors of the fast transforms, products of those of row and column.
aanscales ==
  <<<<16384, 22725, 21407, 19266, 16384, 12873, 8867, 4520>>,
    <<22725, 31521, 29692, 26722, 22725, 17855, 12299, 6270>>,
    <<21407, 29692, 27969, 25172, 21407, 16819, 11585, 5906>>,
    <<19266, 26722, 25172, 22654, 19266, 15137, 10426, 5315>>,
    <<16384, 22725, 21407, 19266, 16384, 12873, 8867, 4520>>,
    <<12873, 17855, 16819, 15137, 12873, 10114, 6967, 3552>>,
    <<8867, 12299, 11585, 10426, 8867, 6967, 4799, 2446>>,
    <<4520, 6270, 5906, 5315, 4520, 3552, 2446, 1247>>>>

Scaled(quantval, n) ==
  [row \in Places |-> [col \in Places |-> DESCALE(quantval[row][col] * aanscales[row][col], n)]]

\* start_pass_fdctmgr, for one table.
divisors(dct_method, quantval) ==
  IF dct_method = "JDCT_ISLOW"
  THEN [row \in Places |-> [col \in Places |-> quantval[row][col] * 8]]
  ELSE Scaled(quantval, 14 - 3)

\* The sign is taken away first.
Quantized(temp, qval) ==
  IF temp < 0 THEN -((qval \div 2 - temp) \div qval) ELSE (temp + qval \div 2) \div qval

\* One block of the component.
forward_DCT(dct_method, table, samples) ==
  LET Quantize(workspace) ==
        [row \in Places |-> [col \in Places |-> Quantized(workspace[row][col], table[row][col])]]
      signed == [row \in Places |-> [col \in Places |-> samples[row][col] - CENTERJSAMPLE]]
  IN Quantize(IF dct_method = "JDCT_ISLOW" THEN jpeg_fdct_islow(signed) ELSE jpeg_fdct_ifast(signed))

multipliers_for(method, quantval) ==
  IF method = "JDCT_ISLOW" THEN quantval ELSE Scaled(quantval, 14 - 2)

inverse_DCT(method_ptr, coef_block, dct_table) ==
  CASE method_ptr = "jpeg_idct_1x1" -> jpeg_idct_1x1(coef_block, dct_table)
    [] method_ptr = "jpeg_idct_2x2" -> jpeg_idct_2x2(coef_block, dct_table)
    [] method_ptr = "jpeg_idct_4x4" -> jpeg_idct_4x4(coef_block, dct_table)
    [] method_ptr = "jpeg_idct_islow" -> jpeg_idct_islow(coef_block, dct_table)
    [] method_ptr = "jpeg_idct_ifast" -> jpeg_idct_ifast(coef_block, dct_table)

-----------------------------------------------------------------------------
(* The manager of the inverse transforms.  Of a component: its size, the   *)
(* table that the file has for it so far, and what was chosen.             *)

NoTable == <<>>
NoMethod == "no method"
JERR_BAD_DCTSIZE == "JERR_BAD_DCTSIZE"

MethodPtr(DCT_scaled_size, dct_method) ==
  CASE DCT_scaled_size = 1 -> "jpeg_idct_1x1"
    [] DCT_scaled_size = 2 -> "jpeg_idct_2x2"
    [] DCT_scaled_size = 4 -> "jpeg_idct_4x4"
    [] DCT_scaled_size = 8 /\ dct_method = "JDCT_ISLOW" -> "jpeg_idct_islow"
    [] DCT_scaled_size = 8 /\ dct_method = "JDCT_IFAST" -> "jpeg_idct_ifast"
    [] OTHER -> JERR_BAD_DCTSIZE

\* The reduced sizes use the table of the slow transform.
TableMethod(DCT_scaled_size, dct_method) ==
  IF DCT_scaled_size = DCTSIZE THEN dct_method ELSE "JDCT_ISLOW"

\* Variant: whether there is a table or not.
TakenDownAtOnce(component, method) == method

\* Without a table nothing is built, and the next pass tries again.
MethodBuilt(component, method) ==
  IF component.quant_table = NoTable THEN component.cur_method ELSE method

ChooseTable(component, method, method_ptr) ==
  IF ~component.component_needed \/ component.cur_method = method
  THEN [component EXCEPT !.method_ptr = method_ptr]
  ELSE [component EXCEPT !.method_ptr = method_ptr, !.cur_method = MethodBuilt(component, method),
          !.dct_table = IF component.quant_table = NoTable THEN @
                        ELSE multipliers_for(method, component.quant_table)]

\* start_pass, for one component.
start_pass(component, dct_method) ==
  ChooseTable(component, TableMethod(component.DCT_scaled_size, dct_method),
              MethodPtr(component.DCT_scaled_size, dct_method))

\* jinit_inverse_dct.
NewComponent(DCT_scaled_size, needed) ==
  [DCT_scaled_size |-> DCT_scaled_size, component_needed |-> needed,
   quant_table |-> NoTable, cur_method |-> NoMethod, method_ptr |-> NoMethod,
   dct_table |-> Repeated(Repeated(0, DCTSIZE), DCTSIZE)]

=============================================================================
