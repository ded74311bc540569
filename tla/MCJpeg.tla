------------------------------ MODULE MCJpeg ------------------------------
(***************************************************************************)
(* The JPEG library's way from blocks of coefficients to a file and back,  *)
(* part by part, on small images: each part of the decompressor against    *)
(* its counterpart of the compressor, or against a definition of what it   *)
(* is to compute.  Blocks, tables and limits are smaller than the ones of  *)
(* the format; the parts take their sizes as parameters.                   *)
(***************************************************************************)
EXTENDS MCInput, JpegVirtualArray, JpegDecompressor, Sequences, SequencesExt, FiniteSetsExt, TLC

Markers == INSTANCE JpegMarkers WITH DCTSIZE <- 3, CODE_LENGTHS <- 2, NUM_TBLS <- 2
Progressive == INSTANCE JpegProgressive WITH DCTSIZE2 <- 7, RUN <- 3, MAX_CORR_BITS <- 9
Scans == INSTANCE JpegScans
  WITH DCTSIZE <- 2, DCTSIZE2 <- 3, MAX_COMPS_IN_SCAN <- 4, MAX_AH_AL <- 2,
       MAX_SAMP_FACTOR <- 2, MAX_BLOCKS_IN_MCU <- 6, JPEG_MAX_DIMENSION <- 100,
       MAX_INTERVAL <- 4
Coef == INSTANCE JpegCoefficients
  WITH DCTSIZE <- 2, DCTSIZE2 <- 4, MAX_COMPS_IN_SCAN <- 4, MAX_AH_AL <- 2,
       MAX_SAMP_FACTOR <- 3, MAX_BLOCKS_IN_MCU <- 8, JPEG_MAX_DIMENSION <- 9,
       MAX_INTERVAL <- 4

-----------------------------------------------------------------------------
(* The headers of a file: JpegMarkers.                                     *)

\* HeaderFiles to write: what is asked of the writer, and of the reader.
HeaderFiles == {f \in [tables : BOOLEAN, progressive : BOOLEAN, changed : BOOLEAN,
                 intervals : {<<0, 300, 300>>, <<2, 0, 0>>},
                 limit : {0, 2}, fill : {<<255>>, <<7, 255, 0, 9>>}] :
            /\ f.limit = 0 <=> f.tables
            /\ Len(f.fill) = 1 <=> f.changed}

QuantTable(first) == [quantval |-> [k \in 0 .. 8 |-> IF k = 2 THEN first ELSE k + 1],
                      sent_table |-> FALSE]
HuffTable(v) == [bits |-> <<1, 2>>, huffval |-> <<v, v + 1, v + 2>>, sent_table |-> FALSE]

Compressor(file) ==
  [quant |-> (0 :> QuantTable(9) @@ 1 :> QuantTable(700)),
   dc |-> (0 :> HuffTable(10) @@ 1 :> HuffTable(20)),
   ac |-> (0 :> HuffTable(30) @@ 1 :> HuffTable(40)),
   progressive_mode |-> file.progressive, data_precision |-> 8,
   image_height |-> 300, image_width |-> 5,
   comp_info |-> <<[id |-> 1, h |-> 2, v |-> 1, quant |-> 0, dc |-> 0, ac |-> 0],
                   [id |-> 7, h |-> 1, v |-> 1, quant |-> 1, dc |-> 1, ac |-> 1]>>,
   cur_comp_info |-> <<>>, Ss |-> 0, Se |-> 0, Ah |-> 0, Al |-> 0,
   restart_interval |-> 0, last_restart_interval |-> 0,
   write_JFIF_header |-> file.tables, write_Adobe_marker |-> TRUE,
   jfif |-> [major |-> 1, minor |-> 2, unit |-> 1, X |-> 260, Y |-> 3], Adobe_transform |-> 1,
   out |-> <<>>]

ScanOf(comps, Ss, Se, Ah, Al) == [comps |-> comps, Ss |-> Ss, Se |-> Se, Ah |-> Ah, Al |-> Al]
ScriptOf(file) ==
  IF file.progressive
  THEN <<ScanOf(<<1, 2>>, 0, 0, 0, 1), ScanOf(<<1, 2>>, 0, 0, 1, 0), ScanOf(<<2>>, 1, 8, 0, 0)>>
  ELSE <<ScanOf(<<1>>, 0, 8, 0, 0), ScanOf(<<2>>, 0, 8, 0, 0)>>

\* Tables that are made for a scan are to be sent.
Optimized(c) ==
  [c EXCEPT !.dc[1] = [@ EXCEPT !.huffval[1] = @ + 1, !.sent_table = FALSE],
            !.ac[1] = [@ EXCEPT !.huffval[1] = @ + 1, !.sent_table = FALSE]]

Prepared(file, c, k) ==
  LET scan == ScriptOf(file)[k]
      tables == IF file.changed /\ k > 1 THEN Optimized(c) ELSE c
  IN [tables EXCEPT !.cur_comp_info = scan.comps, !.Ss = scan.Ss, !.Se = scan.Se,
                 !.Ah = scan.Ah, !.Al = scan.Al, !.restart_interval = file.intervals[k]]

\* The compressor before each scan, and at last the file.
Written(file) ==
  LET start == IF file.tables THEN Markers!write_tables_only(Compressor(file)) ELSE Compressor(file)
      comment == Markers!Emit(Markers!write_file_header(start),
                              Markers!Segment(Markers!COM, <<255, 216, 3>>))
      Upto[k \in 0 .. Len(ScriptOf(file))] ==
        IF k = 0 THEN <<Markers!write_frame_header(comment)>>
        ELSE Append(Upto[k - 1],
               Markers!write_scan_header(Prepared(file, Last(Upto[k - 1]), k)))
  IN Upto[Len(ScriptOf(file))]

Bytes(file) ==
  LET out == Markers!write_file_trailer(Last(Written(file))).out
  IN FlattenSeq([k \in DOMAIN out |-> IF k = 1 \/ out[k] = <<255, 216>> THEN out[k] ELSE file.fill \o out[k]])

\* Reads on as far as the data goes; the reader at each SOS is kept.
RECURSIVE ReadOn(_)
ReadOn(x) ==
  LET ReadUpTo(d) ==
        CASE d.result = "SOS" -> ReadOn([d |-> d, scans |-> Append(x.scans, d)])
          [] d.result = "EOI" /\ x.scans = <<>> /\ d.src # <<>>  ->
               ReadOn([x EXCEPT !.d = Markers!reset_marker_reader(d)])
          [] OTHER -> [x EXCEPT !.d = d]
  IN ReadUpTo(Markers!read_markers(x.d))

HeaderPieceRead(x, bytes) ==
  LET d == IF x.d.result = "EOI" /\ x.scans = <<>> THEN Markers!reset_marker_reader(x.d) ELSE x.d
      gone == Markers!Lesser(d.skip, Len(bytes))
  IN IF d.result = "error" THEN x
     ELSE ReadOn([x EXCEPT !.d = [d EXCEPT !.skip = @ - gone,
                                  !.src = @ \o SubSeq(bytes, gone + 1, Len(bytes))]])

BeginHeaders(file) ==
  [file |-> file, left |-> Bytes(file),
   x |-> [d |-> Markers!jpeg_save_markers(Markers!jinit_marker_reader, Markers!COM, file.limit),
          scans |-> <<>>]]

Arrives(n) ==
  /\ GoOnWith("headers")
  /\ Len(argument.left) >= n
  /\ argument' = [argument EXCEPT !.left = SubSeq(@, n + 1, Len(@)),
                                  !.x = HeaderPieceRead(@, SubSeq(argument.left, 1, n))]

SameScan(c, d) ==
  /\ d.cur_comp_info = c.cur_comp_info
  /\ <<d.Ss, d.Se, d.Ah, d.Al, d.restart_interval>> = <<c.Ss, c.Se, c.Ah, c.Al, c.restart_interval>>
  /\ <<d.image_height, d.image_width, d.progressive_mode>>
       = <<c.image_height, c.image_width, c.progressive_mode>>
  /\ \A i \in ToSet(c.cur_comp_info) :
       LET comp == c.comp_info[i]
           got == d.comp_info[i]
           Same(a, b) == a.bits = b.bits /\ a.huffval = b.huffval
       IN /\ <<got.id, got.h, got.v>> = <<comp.id, comp.h, comp.v>>
          /\ d.quant[got.quant] = c.quant[comp.quant].quantval
          /\ Markers!UsesDC(c) => Same(d.dc[got.dc], c.dc[comp.dc])
          /\ Markers!UsesAC(c) => Same(d.ac[got.ac], c.ac[comp.ac])

(***************************************************************************)
(* A reader that gets a file piece by piece, whatever the pieces, finds at *)
(* each scan what the writer had there: the frame, the components, the     *)
(* tables they use, though each is sent only once or after it changed,  *)
(* and the restart interval; and it has read it to the end.                *)
(***************************************************************************)
HeadersComeThrough ==
  Given("headers") /\ argument.left = <<>> =>
    LET file == argument.file
        sent == Written(file)
        d == argument.x.d
        scans == argument.x.scans
    IN /\ d.result = "EOI" /\ d.src = <<>>
       /\ Len(scans) = Len(ScriptOf(file))
       /\ \A k \in DOMAIN scans : SameScan(sent[k + 1], scans[k])
       /\ [k \in DOMAIN d.marker_list |-> d.marker_list[k].data]
            = IF file.limit = 0 THEN <<>> ELSE <<SubSeq(<<255, 216, 3>>, 1, Markers!Lesser(3, file.limit))>>
       /\ d.jfif = IF file.tables THEN [seen |-> TRUE] @@ Last(sent).jfif
                        ELSE Markers!NoJFIF
       /\ d.Adobe_transform = 1

-----------------------------------------------------------------------------
(* Progressive scans: JpegProgressive.                                     *)

BandScan(comps, Ss, Se, Ah, Al, interval) ==
  [comps |-> comps, Ss |-> Ss, Se |-> Se, Ah |-> Ah, Al |-> Al, restart_interval |-> interval]
BandScans(interval) ==
  <<BandScan(2, 0, 0, 0, 1, interval), BandScan(1, 1, 6, 0, 1, interval),
    BandScan(1, 1, 6, 1, 0, interval), BandScan(2, 0, 0, 1, 0, 0)>>

BandPatterns == {<<0, 0, 0, 0, 0, 0, 0>>, <<-5, 0, 0, 0, 0, 0, -1>>, <<3, -3, 0, 0, 1, 0, 0>>,
             <<4, 2, 0, 3, 0, 0, 1>>, <<-1, -2, 2, 3, -3, 4, 5>>, <<0, 0, 2, 0, 0, 0, 0>>}
BandBlock(p) == [k \in 0 .. 6 |-> p[k + 1]]
BandImage(ps) == [m \in DOMAIN ps |-> [ci \in 1 .. 2 |->
                IF ci = 1 THEN BandBlock(ps[m])
                ELSE [k \in 0 .. 6 |-> IF k = 0 THEN -ps[m][1] ELSE 0]]]
NoBands(n) == [m \in 1 .. n |-> [ci \in 1 .. 2 |-> [k \in 0 .. 6 |-> 0]]]

BeginBand(x) ==
  LET scan == BandScans(x.interval)[x.scan]
      e == Progressive!EncodeScan(scan, BandImage(x.image))
  IN [x EXCEPT !.d = Progressive!start_pass_phuff_decoder(scan), !.coming = e.out, !.mcu = 1,
               !.most = IF e.most > @ THEN e.most ELSE @]

RECURSIVE DecodeAttempt(_, _, _, _)
DecodeAttempt(scan, d, mcu, coming) ==
  LET Tried(a) ==
        IF a.done \/ coming = <<>> THEN [a |-> a, coming |-> coming]
        ELSE DecodeAttempt(scan, [a.d EXCEPT !.rest = Append(@, Head(coming))], a.mcu, Tail(coming))
  IN Tried(Progressive!DecodeMCU(scan, d, mcu))

AfterAttempt(x, t) ==
  [x EXCEPT !.d = t.a.d, !.got[x.mcu] = t.a.mcu, !.coming = t.coming, !.ok = t.a.done, !.mcu = @ + 1]
NextBand(y) ==
  IF y.mcu <= Len(y.image) THEN y
  ELSE IF y.coming # <<>> \/ y.d.rest # <<>> THEN [y EXCEPT !.ok = FALSE]
  ELSE IF y.scan < 4 THEN BeginBand([y EXCEPT !.scan = @ + 1]) ELSE y
NextBandMCU(x) ==
  NextBand(AfterAttempt(x, DecodeAttempt(BandScans(x.interval)[x.scan], x.d, x.got[x.mcu], x.coming)))

BandFiles ==
  {BeginBand([image |-> image, interval |-> interval, scan |-> 1, mcu |-> 1,
              got |-> NoBands(Len(image)), d |-> 0, coming |-> <<>>, ok |-> TRUE, most |-> 0]) :
     image \in UNION {[1 .. n -> BandPatterns] : n \in 1 .. 4}, interval \in {0, 2}}

DecodeNextMCU ==
  /\ GoOnWith("bands")
  /\ argument.ok /\ argument.mcu <= Len(argument.image)
  /\ argument' = NextBandMCU(argument)

(***************************************************************************)
(* An image comes through four progressive scans: an MCU that is tried     *)
(* again with every symbol and bit that arrives is decoded as if all of it *)
(* had been there; blocks that end in runs counted together, with their    *)
(* correction bits, and restarts between them, get their own.  The bits    *)
(* that wait fit into their buffer.                                        *)
(***************************************************************************)
BandsComeThrough ==
  Given("bands") =>
    /\ argument.ok
    /\ argument.mcu > Len(argument.image) => argument.got = BandImage(argument.image)
    /\ argument.most <= 9

-----------------------------------------------------------------------------
(* Scan scripts: JpegScans.                                                *)

SomeScans == [comps : {<<1>>, <<2>>, <<1, 2>>, <<2, 1>>}, Ss : 0 .. 2, Se : 0 .. 2,
              Ah : 0 .. 3, Al : 0 .. 3]

\* Scripts are continued as long as they may be valid.
AppendScan ==
  /\ GoOnWith("script") /\ Len(argument) < 3
  /\ Scans!ValidateScans(argument, 2).valid
  /\ \E scan \in SomeScans : argument' = Append(argument, scan)

Slots == <<0, 1>>
SlotTables(script) == [n \in DOMAIN script |-> (0 :> n @@ 1 :> n + 10)]
ReadScript(script) == Scans!ReadScans(script, Scans!ProgressiveScript(script), Slots, SlotTables(script))

Covers(scan, ci, k) == ci \in ToSet(scan.comps) /\ k \in scan.Ss .. scan.Se

\* What a decoder does not insist on, but the encoder does.
Careful(script) ==
  /\ \A n \in DOMAIN script : /\ script[n].comps # <<2, 1>>
                              /\ script[n].Al <= 2 /\ script[n].Ah <= 2
  /\ \A ci \in 1 .. 2 : \E n \in DOMAIN script : Covers(script[n], ci, 0)
  /\ \A n \in DOMAIN script : \A earlier \in 1 .. n - 1, ci \in 1 .. 2, k \in 0 .. 2 :
       Covers(script[n], ci, k) /\ Covers(script[earlier], ci, k) => script[n].Ah > 0

Refines(scan) == scan.Ss = 0 /\ scan.Ah > 0
Does(event, names) == event[1] \in names

CarriedOut(script, optimize, transcode) ==
  LET m == Scans!Passes(script, optimize, transcode)
      gathers == optimize \/ Scans!ProgressiveScript(script)
      Scan(scan) == (IF gathers /\ ~Refines(scan) THEN <<<<"statistics", scan>>>> ELSE <<>>)
                      \o <<<<"scan header", scan>>, <<"data", scan>>>>
      frame == SelectInSeq(m.out, LAMBDA e : Does(e, {"frame"}))
  IN /\ SelectSeq(m.out, LAMBDA e : ~Does(e, {"frame", "image"}))
          = FlattenSeq([n \in DOMAIN script |-> Scan(script[n])])
     /\ SelectSeq(m.out, LAMBDA e : Does(e, {"frame"})) = <<<<"frame">>>>
     /\ m.out[frame + 1] = <<"scan header", script[1]>>
     /\ SelectSeq(m.out, LAMBDA e : Does(e, {"image"}))
          = IF transcode THEN <<>>
            ELSE IF gathers \/ Len(script) > 1 THEN <<<<"image", "SAVE_AND_PASS">>>>
            ELSE <<<<"image", "PASS_THRU">>>>
     /\ ~transcode => Does(m.out[1], {"image"}) \/ Does(m.out[3], {"image"})
     /\ m.is_last_pass /\ m.pass_number = m.total_passes

\* The standard script is for any number of components.
SimpleScriptIsRead ==
  \A n \in 1 .. 5, ycc \in BOOLEAN :
    LET script == Scans!jpeg_simple_progression(n, ycc, 1)
        d == Scans!ReadScans(script, TRUE, [c \in 1 .. n |-> 0],
                             [k \in DOMAIN script |-> (0 :> 1)])
    IN /\ Scans!validate_script(script, n)
       /\ d.warnings = 0 /\ ~d.error
       /\ d.bits = [c \in 1 .. n |-> [k \in 0 .. 2 |-> 0]]

(***************************************************************************)
(* The compressor accepts a script when a decoder will take it without a   *)
(* warning (and some rules of its own are kept), and carries it out: every *)
(* scan comes with its header and its data, once and in order, after       *)
(* statistics for it where a table is to be made; the image is read once.  *)
(* The decoder takes each component's quantization table as it is at the   *)
(* component's first scan.                                                 *)
(***************************************************************************)
ScriptIsCarriedOut ==
  Given("script") =>
    LET accepted == Scans!validate_script(argument, 2)
        d == ReadScript(argument)
    IN /\ accepted <=> (Careful(argument) /\ ~d.error /\ d.warnings = 0)
       /\ accepted => \A optimize, transcode \in BOOLEAN : CarriedOut(argument, optimize, transcode)
       /\ Len(argument) = 1 => SimpleScriptIsRead
       /\ accepted => d.quant_table =
            [ci \in 1 .. 2 |->
               SelectInSeq(argument, LAMBDA s : ci \in ToSet(s.comps)) + IF ci = 1 THEN 0 ELSE 10]

-----------------------------------------------------------------------------
(* MCUs: JpegCoefficients.                                                 *)

Factors(h, v) == [h |-> h, v |-> v]
Samplings == {<<Factors(1, 1)>>, <<Factors(2, 2)>>, <<Factors(2, 2), Factors(1, 1)>>,
              <<Factors(1, 3), Factors(2, 1)>>}
CoefImages == {i \in [width : {1, 4, 5, 9}, height : {2, 6, 7, 9}, comps : Samplings] : Coef!CanSetUp(i)}
SourceBlock(ci, place) == [dc |-> 100 * ci + 10 * place[1] + place[2], ac |-> <<1, 1, 1, 1, 1>>]
InImage(g, ci) == (0 .. g.comp[ci].height_in_blocks - 1) \X (0 .. g.comp[ci].width_in_blocks - 1)
Source(g) == [ci \in DOMAIN g.comp |-> [place \in InImage(g, ci) |-> SourceBlock(ci, place)]]

\* Scans of a file; the first pass has the image.
Whole(g) == [i \in DOMAIN g.comp |-> i]
Programs(g) ==
  LET singles == [i \in DOMAIN g.comp |-> <<i>>]
      whole == IF Coef!CanScan(g, Whole(g)) THEN {<<Whole(g)>>} ELSE {}
  IN {[scans |-> s, modes |-> m] :
        s \in whole \cup {singles}, m \in {<<"SAVE_AND_PASS", "CRANK_DEST">>, <<"transcode", "transcode">>}}
     \cup {[scans |-> s \o s, modes |-> <<"SAVE_AND_PASS", "CRANK_DEST">>] : s \in whole}
     \cup {[scans |-> s, modes |-> <<"PASS_THRU">>] : s \in whole}

EncoderFor(g, whole) == [image |-> Source(g), whole |-> whole, k |-> Coef!start_iMCU_row(0), mcus |-> <<>>]
DecoderFor(image, mcus) == [image |-> image, k |-> Coef!start_iMCU_row(0), mcus |-> mcus]

BeginFile(image, p, buffered) ==
  LET g == Coef!initial_setup(image)
  IN [g |-> g, program |-> p, buffered |-> buffered, scan |-> 1, coded |-> <<>>,
      work |-> EncoderFor(g, Coef!jinit_c_coef_controller(g, "junk"))]
ScanSetup == Coef!per_scan_setup(argument.g, argument.program.scans[argument.scan])
ScanDone == argument.work.k.iMCU_row = argument.g.total_iMCU_rows
Encoding == Len(argument.coded) < Len(argument.program.scans)

EncodeCall(n) ==
  /\ GoOnWith("coefficients") /\ Encoding /\ ~ScanDone
  /\ argument' = [argument EXCEPT !.work =
       Coef!Compress(argument.g, ScanSetup, argument.program.modes[argument.scan], @, n)]
FinishScan ==
  /\ GoOnWith("coefficients") /\ ScanDone /\ Encoding
  /\ LET coded == Append(argument.coded, argument.work.mcus)
         more == argument.scan < Len(argument.program.scans)
     IN argument' = [argument EXCEPT !.coded = coded, !.scan = IF more THEN @ + 1 ELSE 1,
          !.work = IF more THEN EncoderFor(argument.g, @.whole)
                   ELSE DecoderFor(IF argument.buffered THEN Coef!jinit_d_coef_controller(argument.g)
                                   ELSE Coef!jinit_c_coef_controller(argument.g, Coef!Blank), coded[1])]
DecodeCall(n) ==
  /\ GoOnWith("coefficients") /\ ~Encoding
  /\ IF ~ScanDone
     THEN argument' = [argument EXCEPT !.work =
            Coef!Decompress(argument.g, ScanSetup, ~argument.buffered, @, n)]
     ELSE /\ argument.scan < Len(argument.program.scans)
          /\ argument' = [argument EXCEPT !.scan = @ + 1,
                !.work = DecoderFor(@.image, argument.coded[argument.scan + 1])]

\* The blocks of a scan, MCU by MCU.
ExpectedMCU(g, s, n) ==
  LET blocks == FlattenSeq([i \in DOMAIN s.comp |->
        LET c == s.comp[i]
        IN [b \in 1 .. c.MCU_width * c.MCU_height |->
              <<c.ci, <<((n - 1) \div s.MCUs_per_row) * c.MCU_height + ((b - 1) \div c.MCU_width),
                        ((n - 1) % s.MCUs_per_row) * c.MCU_width + ((b - 1) % c.MCU_width)>>>>]])
      Add(mcu, b) == Append(mcu, IF b[2] \in InImage(g, b[1]) THEN SourceBlock(b[1], b[2])
                                 ELSE Coef!Dummy(Last(mcu).dc))
  IN FoldLeft(Add, <<>>, blocks)

CoefFiles ==
  UNION {{BeginFile(i, p, buffered) :
            p \in Programs(Coef!initial_setup(i)), buffered \in BOOLEAN} : i \in CoefImages}
CoefFilesOfMode ==
  {f \in CoefFiles : f.buffered \/ Len(f.program.scans) = 1}

(***************************************************************************)
(* Every block of an image gets its place in the MCUs of a scan, with      *)
(* dummies of the right dc beyond the edges, whether the image is coded at *)
(* once, kept, or taken from another file; and the decompressor puts it    *)
(* where it came from and leaves the dummies out, at once or from its      *)
(* buffer; also when the calls are suspended after any MCU.                *)
(***************************************************************************)
BlocksInPlace ==
  Given("coefficients") /\ ScanDone =>
    LET g == argument.g
        image == argument.work.image
    IN IF Encoding
       THEN LET s == ScanSetup
            IN argument.work.mcus = [n \in 1 .. s.MCUs_per_row * s.MCU_rows_in_scan |-> ExpectedMCU(g, s, n)]
       ELSE /\ argument.work.mcus = <<>>
            /\ \A ci \in ToSet(argument.program.scans[argument.scan]) :
                 IF argument.buffered
                 THEN \A row \in 0 .. g.total_iMCU_rows - 1 :
                        LET out == Coef!OutputRow(g, image, row)[ci]
                        IN \A place \in DOMAIN out : out[place] = SourceBlock(ci, place)
                 ELSE \A place \in DOMAIN image[ci] :
                        image[ci][place] = IF place \in InImage(g, ci) THEN SourceBlock(ci, place) ELSE Coef!Blank

-----------------------------------------------------------------------------
(* Smoothing.                                                              *)

SmoothImages ==
  [width : {1, 4, 6}, height : 1 .. 9,
   comps : {<<Factors(1, 1)>>, <<Factors(1, 2)>>, <<Factors(2, 2), Factors(1, 1)>>},
   slope : {<<1, 2, 0>>, <<4, 3, 1>>, <<0, 0, 2>>}, bits : {-1, 0, 1, 2}]

SlopeDC(slope, y, x) == 40 * ((slope[1] * y + slope[2] * x + slope[3] * x * y) % 7) - 120
SomeAC == <<0, 5, 0, 0, 0>>

\* The array with dummies that nobody is to look at.
SmoothArrays(i, g) ==
  [ci \in DOMAIN g.comp |-> [place \in Coef!PaddedPlaces(g.comp[ci]) |->
     [dc |-> IF place \in InImage(g, ci) THEN SlopeDC(i.slope, place[1], place[2]) ELSE 9999,
      ac |-> SomeAC]]]

Clamp(n, most) == IF n < 0 THEN 0 ELSE IF n > most THEN most ELSE n
Nearest(v, num, divisor) == num - v * divisor \in -(divisor \div 2) .. divisor - 1 - divisor \div 2

(***************************************************************************)
(* Smoothing estimates coefficients that are still zero from the dc of the *)
(* block and of the eight around it in the image, over the edges of iMCU   *)
(* rows, at every height an image may have in its last one; the estimate   *)
(* is the nearest number, but for what is known not to be, by what was     *)
(* known at the start of the pass, though input has come to the last bits. *)
(***************************************************************************)
SmoothedFromNeighbours ==
  Given("smoothing") =>
    LET g == Coef!initial_setup(argument)
        arrays == SmoothArrays(argument, g)
        Al == argument.bits
        before == [quantval |-> <<3, 1, 2, 3, 4, 5>>, coef_bits |-> <<0, Al, Al, Al, Al, Al>>,
                   coef_bits_latch |-> <<>>]
        component == [Coef!LatchBits(<<before>>)[1] EXCEPT !.coef_bits = <<0, 0, 0, 0, 0, 0>>]
        DC(ci, y, x) == SlopeDC(argument.slope, Clamp(y, g.comp[ci].height_in_blocks - 1),
                                Clamp(x, g.comp[ci].width_in_blocks - 1))
        Around(ci, y, x) == [n \in 1 .. 9 |-> DC(ci, y + ((n - 1) \div 3) - 1, x + ((n - 1) % 3) - 1)]
        Right(ci, place, block) ==
          LET num == Coef!Gradients(Around(ci, place[1], place[2]))
          IN \A k \in 1 .. 5 :
               IF SomeAC[k] # 0 THEN block.ac[k] = SomeAC[k]
               ELSE \E v \in 0 .. 999 :
                      /\ Nearest(v, 3 * Coef!AbsoluteValue(num[k]), 256 * component.quantval[k + 1])
                      /\ LET known == IF Al > 0 /\ v >= 2 ^ Al THEN 2 ^ Al - 1 ELSE v
                         IN block.ac[k] = IF num[k] < 0 THEN -known ELSE known
    IN /\ Coef!smoothing_ok(<<before>>) = (Al # 0)
       /\ Al # 0 => \A ci \in DOMAIN g.comp, row \in 0 .. g.total_iMCU_rows - 1 :
            LET out == Coef!SmoothRow(g, arrays, ci, row, component)
            IN /\ \A place \in DOMAIN out :
                    out[place].dc = arrays[ci][place].dc /\ Right(ci, place, out[place])
               /\ Coef!AccessedRows(g, ci, row) \X {0} \subseteq DOMAIN arrays[ci]
               /\ Cardinality(Coef!AccessedRows(g, ci, row)) <= 3 * g.comp[ci].v

\* Coefficients between a file, the array and the output, as they are and smoothed.
CoefficientsInPlace == BlocksInPlace /\ SmoothedFromNeighbours

-----------------------------------------------------------------------------

JpegNext ==
  \/ Give("headers", {BeginHeaders(f) : f \in HeaderFiles})
  \/ \E n \in {1, 5} : Arrives(n)
  \/ Give("bands", BandFiles)
  \/ DecodeNextMCU
  \/ Give("script", {<<scan>> : scan \in SomeScans})
  \/ AppendScan
  \/ Give("coefficients", CoefFilesOfMode)
  \/ \E n \in {1, 3, 100} : EncodeCall(n) \/ DecodeCall(n)
  \/ FinishScan
  \/ Give("smoothing", SmoothImages)

=============================================================================
