--------------------------- MODULE MCJpegPalette ---------------------------
(***************************************************************************)
(* JpegPalette on small images: how colors are chosen, and what a pass     *)
(* shows after the application has changed the method or the dithering.    *)
(***************************************************************************)
EXTENDS MCInput, Integers, Sequences, FiniteSetsExt, SequencesExt, Functions

CONSTANT MaxPasses  \* output passes of one image

Palette == INSTANCE JpegPalette

\* Gray of all shades, colors far apart, and colors in one corner.
Shade(k, a, b) == <<(k * a) % 256, (k * k * b + 11 * k) % 256, (255 - k * (a + b)) % 256>>
Image(height, width, a, b) == [r \in 1 .. height |-> [c \in 1 .. width |-> Shade(r * width + c, a, b)]]
FewColors(image) == [r \in DOMAIN image |-> [c \in DOMAIN image[r] |-> image[1][1 + ((r + c) % 2)]]]
Images == {Image(3, 4, 23, 7), FewColors(Image(3, 4, 89, 51)), Image(3, 4, 1, 0)}

Maps == {<< <<0, 0, 0>>, <<255, 255, 255>>, <<200, 30, 40>> >>, << <<90, 160, 20>>, <<0, 0, 0>> >>}

AllMethods == {"1pass", "2pass", "external"}
NewDecompressor(enabled) ==
  [components |-> 3, isRGB |-> TRUE, desired |-> 9, buffered_image |-> TRUE, enabled |-> enabled,
   two_pass_quantize |-> FALSE, dither_mode |-> "FS", colormap |-> <<>>, cquantize |-> "none",
   q1 |-> Palette!None, q2 |-> Palette!None, is_dummy_pass |-> FALSE, error |-> "none"]

\* What the application sets for a method.
Set(d, method, dither, map) ==
  CASE method = "1pass" -> [d EXCEPT !.dither_mode = dither, !.colormap = <<>>, !.two_pass_quantize = FALSE]
    [] method = "2pass" -> [d EXCEPT !.dither_mode = dither, !.colormap = <<>>, !.two_pass_quantize = TRUE]
    [] method = "external" -> [d EXCEPT !.dither_mode = dither, !.colormap = map]
    [] method = "same" -> [d EXCEPT !.dither_mode = dither]

\* Before the first pass, and before the others.
Begin(d, method, dither, map) ==
  [Palette!master_selection(Set(d, method, dither, map)) EXCEPT !.dither_mode = dither]
Change(d, method, dither, map) ==
  IF method = "external" THEN Palette!jpeg_new_colormap(Set(d, method, dither, map))
  ELSE Set(d, method, dither, map)

\* Colors are not chosen where that was not enabled: the cube takes their place.
Effective(method, d) == IF method = "2pass" /\ ~Palette!Enabled(d, "2pass") THEN "1pass" ELSE method
Shown(a, method, dither, map, pass) ==
  [a EXCEPT !.d = pass.d, !.codes = pass.codes, !.passes = @ + 1, !.dither = dither, !.map = map,
            !.method = IF method = "same" THEN @ ELSE Effective(method, pass.d)]

Pass(method, dither, map) ==
  /\ GoOnWith("palette")
  /\ argument.passes < MaxPasses /\ argument.d.error = "none"
  /\ method = "same" => argument.passes > 0 /\ map = argument.map
  /\ method \in {"1pass", "2pass"} => map = <<>>
  /\ method = "external" => map # <<>>
  /\ argument' = Shown(argument, method, dither, map,
       Palette!OutputPass(IF argument.passes = 0 THEN Begin(argument.d, method, dither, map)
                          ELSE Change(argument.d, method, dither, map), argument.image))

-----------------------------------------------------------------------------
Squared(x) == x * x
Apart(x, y) == IF x < y THEN y - x ELSE x - y

\* Green counts most and blue least.
ColorDistance(x, y) == Squared(2 * (x[1] - y[1])) + Squared(3 * (x[2] - y[2])) + Squared(x[3] - y[3])

\* The middle of the cell that the library takes a color for.
Middle(x) == <<8 * (x[1] \div 8) + 4, 4 * (x[2] \div 4) + 2, 8 * (x[3] \div 8) + 4>>

NearestColor(colormap, x, code) ==
  \A k \in DOMAIN colormap : ColorDistance(Middle(x), colormap[code + 1]) <= ColorDistance(Middle(x), colormap[k])

\* In the cube each component is for itself, and halves are rounded.
NearestInCube(colormap, x, code) ==
  \A i \in DOMAIN x, k \in DOMAIN colormap : Apart(x[i], colormap[code + 1][i]) <= Apart(x[i], colormap[k][i]) + 1

RightCode(method, colormap, x, code) ==
  /\ code + 1 \in DOMAIN colormap
  /\ IF method = "1pass" THEN NearestInCube(colormap, x, code) ELSE NearestColor(colormap, x, code)

\* Floyd-Steinberg in two dimensions: a pixel passes on 7/16 of its error to
\* the next one of its row, and 3/16, 5/16 and 1/16 to the row below, behind,
\* below and ahead; odd rows go back.
ErrorAt(errors, r, c) == IF <<r, c>> \in DOMAIN errors THEN errors[<<r, c>>] ELSE <<0, 0, 0>>
Carried(errors, r, c) ==
  LET dir == IF r % 2 = 1 THEN 1 ELSE -1
  IN [i \in 1 .. 3 |-> (7 * ErrorAt(errors, r, c - dir)[i] + 3 * ErrorAt(errors, r - 1, c - dir)[i]
                        + 5 * ErrorAt(errors, r - 1, c)[i] + ErrorAt(errors, r - 1, c + dir)[i] + 8) \div 16]

\* With colors that were chosen, large errors count less, and none for more
\* than an eighth of the range.
Damped(error) ==
  LET size == Apart(error, 0)
      damped == Min({size, 16 + Max({0, size - 16}) \div 2, 32})
  IN IF error < 0 THEN -damped ELSE damped

\* The color that is wanted at a place: its own, and what is carried there.
WantedColor(a, errors, r, c) ==
  LET carried == Carried(errors, r, c)
  IN [i \in 1 .. 3 |->
        Palette!range_limit(a.image[r][c][i] + IF a.method = "1pass" THEN carried[i] ELSE Damped(carried[i]))]

Serpentine(height, width) ==
  [k \in 1 .. height * width |->
     LET r == (k - 1) \div width + 1
         c == ((k - 1) % width) + 1
     IN <<r, IF r % 2 = 1 THEN c ELSE width + 1 - c>>]

DitheredRight(a, colormap) ==
  LET Placed(so, r, c, wanted, code) ==
        [right |-> so.right /\ RightCode(a.method, colormap, wanted, code),
         errors |-> (<<r, c>> :> [i \in 1 .. 3 |-> wanted[i] - colormap[code + 1][i]]) @@ so.errors]
      Step(so, at) ==
        IF ~so.right THEN so
        ELSE Placed(so, at[1], at[2], WantedColor(a, so.errors, at[1], at[2]), a.codes[at[1]][at[2]])
  IN FoldLeft(Step, [right |-> TRUE, errors |-> [at \in {} |-> 0]],
              Serpentine(Len(a.image), Len(a.image[1]))).right

\* A component is coded as one of the values around it.
OneOfTheNearest(colormap, x, code) ==
  \A i \in DOMAIN x :
    LET values == {color[i] : color \in Range(colormap)}
        chosen == colormap[code + 1][i]
    IN ~\E v \in values : v \in (chosen + 1 .. x[i] - 1) \cup (x[i] + 1 .. chosen - 1)

AllPixels(a, Right(_, _)) ==
  \A r \in DOMAIN a.image, c \in DOMAIN a.image[1] : Right(a.image[r][c], a.codes[r][c])

CodedRight(a, colormap) ==
  CASE a.dither = "NONE" -> AllPixels(a, LAMBDA x, code : RightCode(a.method, colormap, x, code))
    [] a.dither = "ORDERED" /\ a.method = "1pass" ->
         AllPixels(a, LAMBDA x, code : OneOfTheNearest(colormap, x, code))
    [] OTHER -> DitheredRight(a, colormap)

Cells(image) == {Middle(x) : x \in UNION {Range(row) : row \in Range(image)}}

\* As many colors as are allowed and needed; when there are enough of them,
\* each cell has its own.
ChosenFor(image, colormap, desired) ==
  /\ Len(colormap) = Min({desired, Cardinality(Cells(image))})
  /\ Cardinality(Range(colormap)) = Len(colormap)
  /\ Cardinality(Cells(image)) <= desired => Range(colormap) = Cells(image)

(***************************************************************************)
(* Whatever the application changes between two passes, each pass shows    *)
(* every pixel in the color of the palette that this pass has that is      *)
(* nearest to it, or to it with the errors that were carried there; the    *)
(* palette is the one that was set last, or the cube, or was chosen for    *)
(* this image.  Changes that were not enabled are refused.                 *)
(***************************************************************************)
ShownInPalette ==
  Given("palette") /\ argument.passes > 0 =>
    IF argument.d.error # "none" THEN argument.d.error = "JERR_MODE_CHANGE" /\ argument.enabled # AllMethods
    ELSE /\ CodedRight(argument, argument.d.colormap)
         /\ argument.method = "external" => argument.d.colormap = argument.map
         /\ argument.method = "1pass" => argument.d.colormap = Palette!create_colormap(<<2, 2, 2>>)
         /\ argument.method = "2pass" => ChosenFor(argument.image, argument.d.colormap, argument.d.desired)

-----------------------------------------------------------------------------
(* The cube for any number of colors, and shades in ordered dithering.     *)

CubeCases == {[nc |-> nc, most |-> most, isRGB |-> rgb] : nc \in 1 .. 4, most \in
                {4, 7, 8, 9, 12, 16, 17, 26, 27, 64, 80, 100, 216, 255, 256}, rgb \in BOOLEAN}

CubeIsFull ==
  Given("cube") =>
    LET n == Palette!select_ncolors(argument.nc, argument.isRGB /\ argument.nc = 3, argument.most)
        colormap == Palette!create_colormap(n)
    IN IF n = <<>> THEN 2 ^ argument.nc > argument.most
       ELSE /\ Palette!Total(n) <= argument.most
            /\ \A i \in DOMAIN n : n[i] >= 2 /\ Palette!Total([n EXCEPT ![i] = @ + 1]) > argument.most
            /\ Cardinality(Range(colormap)) = Palette!Total(n)
            /\ [i \in DOMAIN n |-> 255] \in Range(colormap)

ShadeCases == {<<n, x>> : n \in {2, 3, 6, 16, 256}, x \in {0, 1, 50, 127, 128, 200, 254, 255}}

ShadesAreKept ==
  Given("shade") =>
    LET n == argument[1]
        x == argument[2]
        Value(j, k) == Palette!output_value(Palette!colorindex(<<n>>, TRUE, 1, x + Palette!odither(n, j, k)), n - 1)
        Row(j) == MapThenSumSet(LAMBDA k : Value(j, k), 0 .. 15)
    IN Apart(MapThenSumSet(Row, 0 .. 15), 256 * x) <= 2 * 256

\* Colors in a palette.
ColorsInPalette == ShownInPalette /\ CubeIsFull /\ ShadesAreKept

PaletteInputs ==
  {[d |-> NewDecompressor(enabled), enabled |-> enabled, image |-> image, passes |-> 0, codes |-> <<>>,
    method |-> "none", dither |-> "none", map |-> <<>>] :
     enabled \in {AllMethods, {}}, image \in Images}

PaletteNext ==
  \/ Give("palette", PaletteInputs)
  \/ Give("cube", CubeCases)
  \/ Give("shade", ShadeCases)
  \/ \E method \in {"1pass", "2pass", "external", "same"}, dither \in {"NONE", "ORDERED", "FS"},
        map \in Maps \cup {<<>>} : Pass(method, dither, map)
=============================================================================
