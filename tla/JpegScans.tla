----------------------------- MODULE JpegScans -----------------------------
(***************************************************************************)
(* The scans of a JPEG file: jcmaster.c, which takes an image through the  *)
(* passes that its scan script asks for, and jdinput.c with the start of   *)
(* jdphuff.c, which follow the scans of a file as it is read.              *)
(*                                                                         *)
(* A scan is a record of its components comps, counted from 1, of the band *)
(* Ss .. Se of coefficients in it, and of the bit positions Ah and Al.     *)
(***************************************************************************)
EXTENDS Integers, Sequences, SequencesExt, FiniteSetsExt

CONSTANTS DCTSIZE,           \* 8
          DCTSIZE2,          \* coefficients in a block: 64
          MAX_COMPS_IN_SCAN, \* 4
          MAX_AH_AL,         \* 10
          MAX_SAMP_FACTOR,   \* 4
          MAX_BLOCKS_IN_MCU, \* 10
          JPEG_MAX_DIMENSION,
          MAX_INTERVAL       \* 65535

Lesser(a, b) == IF a < b THEN a ELSE b
jdiv_round_up(a, b) == (a + b - 1) \div b

-----------------------------------------------------------------------------
(* The geometry of an image.                                               *)

CanSetUp(image) ==
  /\ {image.width, image.height} \subseteq 1 .. JPEG_MAX_DIMENSION
  /\ \A ci \in DOMAIN image.comps :
       {image.comps[ci].h, image.comps[ci].v} \subseteq 1 .. MAX_SAMP_FACTOR

\* initial_setup, of the compressor and of the decompressor.
initial_setup(image) ==
  LET max_h == Max({image.comps[ci].h : ci \in DOMAIN image.comps})
      max_v == Max({image.comps[ci].v : ci \in DOMAIN image.comps})
  IN [width |-> image.width, height |-> image.height, max_h |-> max_h, max_v |-> max_v,
      total_iMCU_rows |-> jdiv_round_up(image.height, max_v * DCTSIZE),
      comp |-> [ci \in DOMAIN image.comps |->
        LET h == image.comps[ci].h
            v == image.comps[ci].v
        IN [h |-> h, v |-> v,
            width_in_blocks |-> jdiv_round_up(image.width * h, max_h * DCTSIZE),
            height_in_blocks |-> jdiv_round_up(image.height * v, max_v * DCTSIZE),
            downsampled_width |-> jdiv_round_up(image.width * h, max_h),
            downsampled_height |-> jdiv_round_up(image.height * v, max_v)]]]

\* What is left for the last of some groups of n.
LastOf(blocks, n) == IF blocks % n = 0 THEN n ELSE blocks % n

CanScan(g, comps) ==
  \/ Len(comps) = 1
  \/ /\ Len(comps) \in 2 .. MAX_COMPS_IN_SCAN
     /\ FoldLeft(LAMBDA n, ci : n + g.comp[ci].h * g.comp[ci].v, 0, comps) <= MAX_BLOCKS_IN_MCU

(***************************************************************************)
(* per_scan_setup, of both: an MCU has one block of a single component, or *)
(* as many of each as the sampling factors say.                            *)
(***************************************************************************)
per_scan_setup(g, comps) ==
  IF Len(comps) = 1
  THEN LET c == g.comp[comps[1]]
       IN [comps |-> comps, MCUs_per_row |-> c.width_in_blocks,
           MCU_rows_in_scan |-> c.height_in_blocks,
           comp |-> <<[ci |-> comps[1], v |-> c.v, MCU_width |-> 1, MCU_height |-> 1,
                       last_col_width |-> 1,
                       last_row_height |-> LastOf(c.height_in_blocks, c.v)]>>]
  ELSE [comps |-> comps,
        MCUs_per_row |-> jdiv_round_up(g.width, g.max_h * DCTSIZE),
        MCU_rows_in_scan |-> jdiv_round_up(g.height, g.max_v * DCTSIZE),
        comp |-> [i \in DOMAIN comps |->
          LET c == g.comp[comps[i]]
          IN [ci |-> comps[i], v |-> c.v, MCU_width |-> c.h, MCU_height |-> c.v,
              last_col_width |-> LastOf(c.width_in_blocks, c.h),
              last_row_height |-> LastOf(c.height_in_blocks, c.v)]]]

\* The restart interval, when it is given in rows.
RestartInterval(restart_in_rows, setup) ==
  Lesser(restart_in_rows * setup.MCUs_per_row, MAX_INTERVAL)

-----------------------------------------------------------------------------
(* The compressor's script.                                                *)

Sequential(scan) == scan.Ss = 0 /\ scan.Se = DCTSIZE2 - 1

ValidComponents(scan, num_components) ==
  /\ Len(scan.comps) \in 1 .. MAX_COMPS_IN_SCAN
  /\ \A i \in DOMAIN scan.comps :
       /\ scan.comps[i] \in 1 .. num_components
       /\ i > 1 => scan.comps[i] > scan.comps[i - 1]

\* last is last_bitpos: -1 until the coefficient has been seen.
NothingSent(num_components) == [ci \in 1 .. num_components |-> [k \in 0 .. DCTSIZE2 - 1 |-> -1]]
Send(last, scan) ==
  [ci \in DOMAIN last |-> [k \in DOMAIN last[ci] |->
     IF ci \in ToSet(scan.comps) /\ k \in scan.Ss .. scan.Se THEN scan.Al ELSE last[ci][k]]]

ValidProgression(last, scan) ==
  /\ scan.Ss <= scan.Se /\ scan.Se < DCTSIZE2
  /\ {scan.Ah, scan.Al} \subseteq 0 .. MAX_AH_AL
  /\ IF scan.Ss = 0 THEN scan.Se = 0 ELSE Len(scan.comps) = 1
  /\ \A ci \in ToSet(scan.comps) :
       /\ scan.Ss # 0 => last[ci][0] >= 0
       /\ \A k \in scan.Ss .. scan.Se :
            IF last[ci][k] < 0 THEN scan.Ah = 0
            ELSE scan.Ah = last[ci][k] /\ scan.Al = scan.Ah - 1

ValidSequential(last, scan) ==
  /\ Sequential(scan) /\ scan.Ah = 0 /\ scan.Al = 0
  /\ \A ci \in ToSet(scan.comps) : last[ci][0] < 0

ProgressiveScript(script) == ~Sequential(script[1])

\* The state of validate_script after each scan; a scan that is not valid
\* ends it.
ValidateScans(script, num_components) ==
  LET Valid(last, scan) ==
        /\ ValidComponents(scan, num_components)
        /\ IF ProgressiveScript(script) THEN ValidProgression(last, scan)
           ELSE ValidSequential(last, scan)
      Step(x, scan) == IF ~x.valid THEN x
                       ELSE IF Valid(x.last, scan) THEN [x EXCEPT !.last = Send(@, scan)]
                       ELSE [x EXCEPT !.valid = FALSE]
  IN FoldLeft(Step, [valid |-> TRUE, last |-> NothingSent(num_components)], script)

validate_script(script, num_components) ==
  LET end == ValidateScans(script, num_components)
  IN script # <<>> /\ end.valid /\ \A ci \in 1 .. num_components : end.last[ci][0] >= 0

-----------------------------------------------------------------------------
(* jpeg_simple_progression.                                                *)

fill_a_scan(ci, Ss, Se, Ah, Al) ==
  <<[comps |-> <<ci>>, Ss |-> Ss, Se |-> Se, Ah |-> Ah, Al |-> Al]>>
fill_scans(ncomps, Ss, Se, Ah, Al) ==
  FlattenSeq([ci \in 1 .. ncomps |-> fill_a_scan(ci, Ss, Se, Ah, Al)])
fill_dc_scans(ncomps, Ah, Al) ==
  IF ncomps <= MAX_COMPS_IN_SCAN
  THEN <<[comps |-> [ci \in 1 .. ncomps |-> ci], Ss |-> 0, Se |-> 0, Ah |-> Ah, Al |-> Al]>>
  ELSE fill_scans(ncomps, 0, 0, Ah, Al)

\* Split is the last coefficient of the first band: 5.
jpeg_simple_progression(ncomps, YCbCr, Split) ==
  LET Se == DCTSIZE2 - 1
  IN IF ncomps = 3 /\ YCbCr
     THEN fill_dc_scans(ncomps, 0, 1)
            \o fill_a_scan(1, 1, Split, 0, 2)
            \o fill_a_scan(3, 1, Se, 0, 1) \o fill_a_scan(2, 1, Se, 0, 1)
            \o fill_a_scan(1, Split + 1, Se, 0, 2)
            \o fill_a_scan(1, 1, Se, 2, 1)
            \o fill_dc_scans(ncomps, 1, 0)
            \o fill_a_scan(3, 1, Se, 1, 0) \o fill_a_scan(2, 1, Se, 1, 0)
            \o fill_a_scan(1, 1, Se, 1, 0)
     ELSE fill_dc_scans(ncomps, 0, 1)
            \o fill_scans(ncomps, 1, Split, 0, 2) \o fill_scans(ncomps, Split + 1, Se, 0, 2)
            \o fill_scans(ncomps, 1, Se, 2, 1)
            \o fill_dc_scans(ncomps, 1, 0)
            \o fill_scans(ncomps, 1, Se, 1, 0)

-----------------------------------------------------------------------------
(* The compressor's passes.  out is what they do, in its order.            *)

jinit_c_master_control(script, optimize_coding, transcode_only) ==
  LET optimize == optimize_coding \/ ProgressiveScript(script)
  IN [script |-> script, optimize_coding |-> optimize,
      pass_type |-> IF ~transcode_only THEN "main_pass"
                    ELSE IF optimize THEN "huff_opt_pass" ELSE "output_pass",
      scan_number |-> 0, pass_number |-> 0,
      total_passes |-> IF optimize THEN Len(script) * 2 ELSE Len(script),
      scan |-> <<>>, gather |-> FALSE, coef |-> "none", call_pass_startup |-> FALSE,
      is_last_pass |-> FALSE, out |-> <<>>]

select_scan_parameters(m) == [m EXCEPT !.scan = m.script[m.scan_number + 1]]

\* The entropy coder and the coefficient controller begin a pass.
StartPass(m, gather, coef) == [m EXCEPT !.gather = gather, !.coef = coef]

WriteHeaders(m, frame) ==
  [m EXCEPT !.out = @ \o (IF frame THEN <<<<"frame">>>> ELSE <<>>)
                      \o <<<<"scan header", m.scan>>>>,
            !.call_pass_startup = FALSE]

main_pass(m) ==
  [StartPass(select_scan_parameters(m), m.optimize_coding,
             IF m.total_passes > 1 THEN "SAVE_AND_PASS" ELSE "PASS_THRU")
     EXCEPT !.call_pass_startup = ~m.optimize_coding]

\* A pass that repeats a scan finds it set up.
output_pass(m) ==
  LET set == IF m.optimize_coding THEN m ELSE select_scan_parameters(m)
  IN WriteHeaders(StartPass(set, FALSE, "CRANK_DEST"), m.scan_number = 0)

\* Refinements of DC need no table and no statistics.
huff_opt_pass(m) ==
  LET set == select_scan_parameters(m)
  IN IF set.scan.Ss # 0 \/ set.scan.Ah = 0
     THEN [StartPass(set, TRUE, "CRANK_DEST") EXCEPT !.call_pass_startup = FALSE]
     ELSE output_pass([set EXCEPT !.pass_type = "output_pass", !.pass_number = @ + 1])

prepare_for_pass(m) ==
  LET p == CASE m.pass_type = "main_pass" -> main_pass(m)
             [] m.pass_type = "huff_opt_pass" -> huff_opt_pass(m)
             [] m.pass_type = "output_pass" -> output_pass(m)
  IN [p EXCEPT !.is_last_pass = (p.pass_number = p.total_passes - 1)]

\* The rows of the pass; the headers come before the first one if they were
\* put off (pass_startup).
PassData(m) ==
  LET started == IF m.call_pass_startup THEN WriteHeaders(m, TRUE) ELSE m
  IN [started EXCEPT !.out = @
        \o (IF m.pass_type = "main_pass" THEN <<<<"image", m.coef>>>> ELSE <<>>)
        \o <<<<IF m.gather THEN "statistics" ELSE "data", m.scan>>>>]

\* Variant: the next scan is the next pass, also after statistics.
finish_every_pass(m) ==
  [m EXCEPT !.pass_number = @ + 1, !.scan_number = @ + 1,
     !.pass_type = IF @ = "output_pass" /\ m.optimize_coding THEN "huff_opt_pass"
                   ELSE "output_pass"]

finish_pass_master(m) ==
  [m EXCEPT !.pass_number = @ + 1,
     !.pass_type = IF @ = "output_pass" /\ m.optimize_coding THEN "huff_opt_pass"
                   ELSE "output_pass",
     !.scan_number = IF m.pass_type = "output_pass"
                        \/ (m.pass_type = "main_pass" /\ ~m.optimize_coding)
                     THEN @ + 1 ELSE @]

\* jpeg_start_compress to jpeg_finish_compress: until the last pass is done.
Passes(script, optimize_coding, transcode_only) ==
  LET begun == jinit_c_master_control(script, optimize_coding, transcode_only)
      Pass(m, n) == IF m.is_last_pass THEN m
                    ELSE finish_pass_master(PassData(prepare_for_pass(m)))
  IN FoldLeft(Pass, begun, [n \in 1 .. 2 * Len(script) + 2 |-> n])

-----------------------------------------------------------------------------
(* The decompressor's view of the scans of a file.  bits is coef_bits.     *)

jinit_input_controller ==
  [inheaders |-> TRUE, has_multiple_scans |-> FALSE, eoi_reached |-> FALSE,
   quant_table |-> <<>>, bits |-> <<>>, warnings |-> 0, error |-> FALSE]

\* Start of the entropy decoder for a progressive scan.
BadProgression(scan) ==
  \/ IF scan.Ss = 0 THEN scan.Se # 0
     ELSE scan.Ss > scan.Se \/ scan.Se >= DCTSIZE2 \/ Len(scan.comps) # 1
  \/ scan.Ah # 0 /\ scan.Al # scan.Ah - 1
  \/ scan.Al > 13

Unexpected(bits, scan) ==
  {<<ci, k>> \in ToSet(scan.comps) \X (scan.Ss .. scan.Se) :
     scan.Ah # IF bits[ci][k] < 0 THEN 0 ELSE bits[ci][k]}
    \cup {<<ci, -1>> : ci \in {c \in ToSet(scan.comps) : scan.Ss # 0 /\ bits[c][0] < 0}}

StartEntropy(d, scan, progressive) ==
  IF ~progressive
  THEN [d EXCEPT !.warnings = IF Sequential(scan) /\ scan.Ah = 0 /\ scan.Al = 0
                              THEN @ ELSE @ + 1]
  ELSE IF BadProgression(scan) THEN [d EXCEPT !.error = TRUE]
  ELSE [d EXCEPT !.warnings = @ + Cardinality(Unexpected(d.bits, scan)),
                 !.bits = Send(@, scan)]

\* The table of a component is the one at its first scan, whatever comes in
\* its slot later.
latch_quant_tables(d, scan, slots, tables) ==
  IF \E ci \in ToSet(scan.comps) : d.quant_table[ci] = 0 /\ tables[slots[ci]] = 0
  THEN [d EXCEPT !.error = TRUE]
  ELSE [d EXCEPT !.quant_table = [ci \in DOMAIN @ |->
          IF ci \in ToSet(scan.comps) /\ @[ci] = 0 THEN tables[slots[ci]] ELSE @[ci]]]

start_input_pass(d, scan, progressive, slots, tables) ==
  LET latched == latch_quant_tables(d, scan, slots, tables)
  IN IF latched.error THEN latched ELSE StartEntropy(latched, scan, progressive)

\* consume_markers at an SOS.
ReachedSOS(d, scan, progressive, slots, tables) ==
  LET num == Len(slots)
      first == [d EXCEPT !.inheaders = FALSE, !.bits = NothingSent(num),
                         !.quant_table = [ci \in 1 .. num |-> 0],
                         !.has_multiple_scans = Len(scan.comps) < num \/ progressive]
  IN IF d.error THEN d
     ELSE IF d.inheaders THEN start_input_pass(first, scan, progressive, slots, tables)
     ELSE IF ~d.has_multiple_scans THEN [d EXCEPT !.error = TRUE]
     ELSE start_input_pass(d, scan, progressive, slots, tables)

\* All scans of a file; tables[n] are the quantization tables at the n'th.
ReadScans(script, progressive, slots, tables) ==
  FoldLeft(LAMBDA d, n : ReachedSOS(d, script[n], progressive, slots, tables[n]),
           jinit_input_controller, [n \in DOMAIN script |-> n])

=============================================================================
