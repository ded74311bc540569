----------------------------- MODULE JpegColor -----------------------------
(***************************************************************************)
(* The samples of a pixel on their way from the color space of the         *)
(* application to the one of the file (jccolor.c) and back (jdcolor.c),    *)
(* and the table that keeps samples within their range (jdmaster.c).  A    *)
(* pixel is the sequence of its samples.                                   *)
(***************************************************************************)
EXTENDS Integers, Sequences

MAXJSAMPLE == 255
CENTERJSAMPLE == 128
ONE_HALF == 32768

\* Factors are scaled by 2^16.
RightShift(x) == x \div 65536

Samples == 0 .. MAXJSAMPLE

-----------------------------------------------------------------------------
(* Range limiting.  One table serves both purposes, from below 0 on for    *)
(* sums of samples, and from CENTERJSAMPLE on for the inverse DCT, with an *)
(* index of 10 bits.                                                       *)

Beyond == -1   \* memory outside of the table
FirstEntry == -(MAXJSAMPLE + 1)
LastEntry == 4 * (MAXJSAMPLE + 1) + CENTERJSAMPLE - 1
ZerosAgain == 2 * (MAXJSAMPLE + 1) + CENTERJSAMPLE
Wrapped == 4 * (MAXJSAMPLE + 1)

range_limit(i) ==
  CASE i < FirstEntry \/ i > LastEntry -> Beyond
    [] i \in FirstEntry .. -1 -> 0
    [] i \in Samples -> i
    [] i \in MAXJSAMPLE + 1 .. ZerosAgain - 1 -> MAXJSAMPLE
    [] i \in ZerosAgain .. Wrapped - 1 -> 0
    [] i \in Wrapped .. LastEntry -> i - Wrapped

RANGE_MASK(x) == x % (4 * (MAXJSAMPLE + 1))
IDCT_range_limit(x) == range_limit(CENTERJSAMPLE + RANGE_MASK(x))

-----------------------------------------------------------------------------
(* The compressor.                                                         *)

ToY(r, g, b) == RightShift(19595 * r + 38470 * g + 7471 * b + ONE_HALF)

\* The largest color difference is not to be rounded to MAXJSAMPLE + 1.
CBCR_OFFSET == CENTERJSAMPLE * 65536 + ONE_HALF - 1
ToCb(r, g, b) == RightShift(32768 * b - 11059 * r - 21709 * g + CBCR_OFFSET)
ToCr(r, g, b) == RightShift(32768 * r - 27439 * g - 5329 * b + CBCR_OFFSET)
ToYCC(r, g, b) == <<ToY(r, g, b), ToCb(r, g, b), ToCr(r, g, b)>>

rgb_ycc_convert(pixel) == ToYCC(pixel[1], pixel[2], pixel[3])
rgb_gray_convert(pixel) == <<ToY(pixel[1], pixel[2], pixel[3])>>
cmyk_ycck_convert(pixel) ==
  Append(ToYCC(MAXJSAMPLE - pixel[1], MAXJSAMPLE - pixel[2], MAXJSAMPLE - pixel[3]), pixel[4])
grayscale_convert(pixel) == <<pixel[1]>>
null_convert(pixel) == pixel

\* A color space that is not known has any number of components.
ColorSpaces == {"GRAYSCALE", "RGB", "YCbCr", "CMYK", "YCCK", "UNKNOWN"}
ComponentsFit(space, components) ==
  CASE space = "GRAYSCALE" -> components = 1
    [] space \in {"RGB", "YCbCr"} -> components = 3
    [] space \in {"CMYK", "YCCK"} -> components = 4
    [] OTHER -> components >= 1

\* jinit_color_converter.
color_converter(in_color_space, input_components, jpeg_color_space, num_components) ==
  LET conversion == <<in_color_space, jpeg_color_space>>
      Method ==
        CASE conversion = <<"RGB", "GRAYSCALE">> -> "rgb_gray"
          [] conversion \in {<<"GRAYSCALE", "GRAYSCALE">>, <<"YCbCr", "GRAYSCALE">>} -> "grayscale"
          [] conversion = <<"RGB", "YCbCr">> -> "rgb_ycc"
          [] conversion = <<"CMYK", "YCCK">> -> "cmyk_ycck"
          [] /\ in_color_space = jpeg_color_space /\ jpeg_color_space # "GRAYSCALE"
             /\ jpeg_color_space = "UNKNOWN" => num_components = input_components -> "null"
          [] OTHER -> "JERR_CONVERSION_NOTIMPL"
  IN IF ~ComponentsFit(in_color_space, input_components) THEN "JERR_BAD_IN_COLORSPACE"
     ELSE IF jpeg_color_space # "UNKNOWN" /\ ~ComponentsFit(jpeg_color_space, num_components)
     THEN "JERR_BAD_J_COLORSPACE" ELSE Method

color_convert(method, pixel) ==
  CASE method = "rgb_gray" -> rgb_gray_convert(pixel)
    [] method = "rgb_ycc" -> rgb_ycc_convert(pixel)
    [] method = "cmyk_ycck" -> cmyk_ycck_convert(pixel)
    [] method = "grayscale" -> grayscale_convert(pixel)
    [] method = "null" -> null_convert(pixel)

-----------------------------------------------------------------------------
(* The decompressor.                                                       *)

Cr_r(cr) == RightShift(91881 * (cr - CENTERJSAMPLE) + ONE_HALF)
Cb_b(cb) == RightShift(116130 * (cb - CENTERJSAMPLE) + ONE_HALF)
Cb_Cr_g(cb, cr) ==
  RightShift(ONE_HALF - 22554 * (cb - CENTERJSAMPLE) - 46802 * (cr - CENTERJSAMPLE))

\* What the color differences add to the luminance: to red, green and blue.
Chroma(cb, cr) == <<Cr_r(cr), Cb_Cr_g(cb, cr), Cb_b(cb)>>

Tinted(y, chroma) == [k \in 1 .. 3 |-> range_limit(y + chroma[k])]
ycc_rgb_convert(pixel) == Tinted(pixel[1], Chroma(pixel[2], pixel[3]))
ycck_cmyk_convert(pixel) ==
  LET Inks(y, chroma) == [k \in 1 .. 3 |-> range_limit(MAXJSAMPLE - (y + chroma[k]))]
  IN Append(Inks(pixel[1], Chroma(pixel[2], pixel[3])), pixel[4])
gray_rgb_convert(pixel) == <<pixel[1], pixel[1], pixel[1]>>

\* jinit_color_deconverter; of grayscale only the first component is needed.
color_deconverter(jpeg_color_space, num_components, out_color_space) ==
  LET conversion == <<jpeg_color_space, out_color_space>>
      Method ==
        CASE conversion \in {<<"GRAYSCALE", "GRAYSCALE">>, <<"YCbCr", "GRAYSCALE">>} -> "grayscale"
          [] conversion = <<"YCbCr", "RGB">> -> "ycc_rgb"
          [] conversion = <<"GRAYSCALE", "RGB">> -> "gray_rgb"
          [] conversion = <<"YCCK", "CMYK">> -> "ycck_cmyk"
          [] jpeg_color_space = out_color_space /\ out_color_space # "GRAYSCALE" -> "null"
          [] OTHER -> "JERR_CONVERSION_NOTIMPL"
  IN IF ComponentsFit(jpeg_color_space, num_components) THEN Method ELSE "JERR_BAD_J_COLORSPACE"

component_needed(ci, out_color_space) == out_color_space # "GRAYSCALE" \/ ci = 1

out_color_components(out_color_space, num_components) ==
  CASE out_color_space = "GRAYSCALE" -> 1
    [] out_color_space \in {"RGB", "YCbCr"} -> 3
    [] out_color_space \in {"CMYK", "YCCK"} -> 4
    [] OTHER -> num_components

color_deconvert(method, pixel) ==
  CASE method = "grayscale" -> grayscale_convert(pixel)
    [] method = "ycc_rgb" -> ycc_rgb_convert(pixel)
    [] method = "gray_rgb" -> gray_rgb_convert(pixel)
    [] method = "ycck_cmyk" -> ycck_cmyk_convert(pixel)
    [] method = "null" -> null_convert(pixel)

=============================================================================
