-------------------------- MODULE JpegDecompressor --------------------------
(***************************************************************************)
(* The decompression object as its application sees it: the calls of       *)
(* jdapimin.c and jdapistd.c, the input controller (jdinput.c), which      *)
(* reads the markers and the scans of a datastream, and the output passes  *)
(* (jdmaster.c, jdcoefct.c).  A call may return before it is done when its *)
(* data source has nothing more (it is suspended), and is repeated; an     *)
(* application in buffered-image mode may output a scan while later ones   *)
(* are still coming.                                                       *)
(*                                                                         *)
(* Rows are iMCU rows.  The markers up to the next scan or the end, and    *)
(* the data of a row, are a unit of input each.                            *)
(***************************************************************************)
EXTENDS Integers, Sequences

CONSTANTS total_iMCU_rows,
          MaxScans,     \* in a file
          MaxUnread     \* units of input that the source holds

ASSUME DecompressorAssumption ==
  total_iMCU_rows \in Nat \ {0} /\ {MaxScans, MaxUnread} \subseteq Nat

VARIABLES
  datastream,      \* what is read: for each scan whether it has dc, and
                   \* whether the first header announces several scans
  unread,          \* how much of it the source has
  call,            \* the call that is being executed
  global_state,
  buffered_image, quantize, \* parameters; quantize takes two passes
  consume_input,   \* "markers" or "data"
  input_scan_number, input_iMCU_row, eoi_reached,
  output_scan_number, output_iMCU_row, output_scanline,
  pass,            \* "single", or the "dummy" and the "final" of two passes
  smoothing,
  coef_arrays,     \* how many scans there are in each row
  output           \* history: the scans in each row that was output in this
                   \* pass, and in the row behind it

inputVars == <<unread, consume_input, input_scan_number, input_iMCU_row, eoi_reached, coef_arrays>>
passVars == <<output_iMCU_row, output_scanline, pass, smoothing, output>>
parameters == <<datastream, buffered_image, quantize>>
decompressorVars == <<inputVars, passVars, parameters, call, global_state, output_scan_number>>

ImageRows == 0 .. total_iMCU_rows - 1
NumScans == Len(datastream.dc)
NoRows == [row \in ImageRows |-> [own |-> 0, next |-> 0]]

NoFile == [dc |-> <<>>, multi |-> FALSE]

\* jpeg_create_decompress.
DecompressorInit ==
  /\ datastream = NoFile /\ unread = 0
  /\ call = "none" /\ global_state = "START"
  /\ buffered_image = FALSE /\ quantize = FALSE
  /\ consume_input = "markers" /\ input_scan_number = 0 /\ input_iMCU_row = 0
  /\ eoi_reached = FALSE /\ coef_arrays = [row \in ImageRows |-> 0]
  /\ output_scan_number = 0 /\ output_iMCU_row = 0 /\ output_scanline = 0
  /\ pass = "single" /\ smoothing = FALSE /\ output = NoRows

\* jpeg_abort, and the reset when the next file is begun.
Fresh ==
  /\ datastream' = NoFile /\ unread' = 0
  /\ call' = "none" /\ global_state' = "START"
  /\ buffered_image' = FALSE /\ quantize' = FALSE
  /\ consume_input' = "markers" /\ input_scan_number' = 0 /\ input_iMCU_row' = 0
  /\ eoi_reached' = FALSE /\ coef_arrays' = [row \in ImageRows |-> 0]
  /\ output_scan_number' = 0 /\ output_iMCU_row' = 0 /\ output_scanline' = 0
  /\ pass' = "single" /\ smoothing' = FALSE /\ output' = NoRows

-----------------------------------------------------------------------------
(* Input.                                                                  *)

\* need_full_buffer: all coefficients are kept; otherwise each row goes from
\* the input to the output, and consume_data is a dummy.
has_multiple_scans == datastream.multi
full_buffer == has_multiple_scans \/ buffered_image

CanConsume == unread > 0 /\ (consume_input = "data" => full_buffer)
Suspended == ~eoi_reached /\ ~CanConsume

\* consume_data.
StoreRow ==
  /\ coef_arrays' = [coef_arrays EXCEPT ![input_iMCU_row] = @ + 1]
  /\ input_iMCU_row' = input_iMCU_row + 1
  /\ consume_input' = IF input_iMCU_row' = total_iMCU_rows THEN "markers" ELSE "data"

ConsumeData ==
  /\ StoreRow
  /\ UNCHANGED <<input_scan_number, eoi_reached, output_scan_number, global_state>>

\* consume_markers, at the header of a scan.  The first scan is begun when
\* the application starts to decompress.
ReachedSOS ==
  /\ input_scan_number < NumScans
  /\ input_scan_number' = input_scan_number + 1
  /\ IF input_scan_number = 0
     THEN /\ global_state' = "READY"
          /\ UNCHANGED <<consume_input, input_iMCU_row>>
     ELSE IF ~has_multiple_scans
     THEN /\ global_state' = "ERROR"
          /\ UNCHANGED <<consume_input, input_iMCU_row>>
     ELSE /\ consume_input' = "data" /\ input_iMCU_row' = 0
          /\ UNCHANGED global_state
  /\ UNCHANGED <<eoi_reached, output_scan_number, coef_arrays>>

\* No output waits for a scan that does not come.
\* Variant: the output may go on waiting for a scan behind the last.
KeepOutputScan == output_scan_number

LimitOutputScan ==
  IF output_scan_number > input_scan_number THEN input_scan_number ELSE output_scan_number

ReachedEOI ==
  /\ input_scan_number = NumScans
  /\ eoi_reached' = TRUE
  /\ output_scan_number' = LimitOutputScan
  /\ UNCHANGED <<consume_input, input_scan_number, input_iMCU_row, coef_arrays, global_state>>

\* The input controller's consume_input, when it is neither suspended nor at
\* the end.
Consume ==
  /\ ~eoi_reached /\ CanConsume
  /\ unread' = unread - 1
  /\ IF consume_input = "data" THEN ConsumeData ELSE ReachedSOS \/ ReachedEOI

\* The application has a source for a file.
SetSource ==
  /\ global_state = "START" /\ unread = 0 /\ input_scan_number = 0 /\ ~eoi_reached
  /\ \E n \in 0 .. MaxScans :
       datastream' \in [dc : [1 .. n -> BOOLEAN], multi : BOOLEAN]
  /\ UNCHANGED <<inputVars, passVars, buffered_image, quantize, call, global_state,
                 output_scan_number>>

\* The source gets more data.
Arrive ==
  /\ unread < MaxUnread /\ ~eoi_reached
  /\ unread' = unread + 1
  /\ UNCHANGED <<consume_input, input_scan_number, input_iMCU_row, eoi_reached, coef_arrays,
                 passVars, parameters, call, global_state, output_scan_number>>

Return == call' = "none"
Nowhere == UNCHANGED <<inputVars, passVars, parameters, global_state, output_scan_number>>

\* A call of the object goes on with input, or waits for more.
GoOn == Consume /\ UNCHANGED <<passVars, parameters, call>>
Suspend == Suspended /\ Return /\ Nowhere

-----------------------------------------------------------------------------
(* Headers, and input that the application asks for.                       *)

\* jpeg_consume_input, and jpeg_read_header.
ConsumeCall ==
  /\ call = "none" /\ global_state \notin {"READY", "ERROR"}
  /\ Consume \/ (Suspended /\ UNCHANGED <<inputVars, global_state, output_scan_number>>)
  /\ UNCHANGED <<passVars, parameters, call>>

\* A file with only tables: jpeg_read_header aborts.
TablesOnly == eoi_reached /\ input_scan_number = 0 /\ Fresh

-----------------------------------------------------------------------------
(* jpeg_start_decompress and jpeg_start_output.                            *)

\* Per output pass: prepare_for_output_pass and start_output_pass.  Whether
\* dc is smoothed depends on the coefficients that are known; and there are
\* two passes for a colormap if there is none yet.
PreparePass ==
  /\ pass' \in IF quantize THEN {"dummy", "single"} ELSE {"single"}
  /\ output_iMCU_row' = 0 /\ output_scanline' = 0 /\ output' = NoRows
  /\ smoothing' \in IF has_multiple_scans THEN BOOLEAN ELSE {FALSE}
  /\ global_state' = "PRESCAN" /\ call' = "prescan"

\* With jinit_master_decompress, which begins the first scan.
StartDecompress ==
  /\ call = "none" /\ global_state = "READY"
  /\ buffered_image' \in BOOLEAN /\ quantize' \in BOOLEAN
  /\ consume_input' = "data"
  /\ IF buffered_image' THEN global_state' = "BUFIMAGE" /\ UNCHANGED call
     ELSE global_state' = "PRELOAD" /\ call' = "start"
  /\ UNCHANGED <<datastream, unread, input_scan_number, input_iMCU_row, eoi_reached, coef_arrays,
                 passVars, output_scan_number>>

\* All scans are read before the output, if there are several.
Preload ==
  /\ call = "start" /\ global_state = "PRELOAD"
  /\ IF has_multiple_scans /\ ~eoi_reached THEN GoOn \/ Suspend
     ELSE /\ output_scan_number' = input_scan_number
          /\ PreparePass
          /\ UNCHANGED <<inputVars, parameters>>

\* A call is repeated after it was suspended.
StartAgain ==
  /\ call = "none" /\ ~buffered_image /\ global_state \in {"PRELOAD", "PRESCAN"}
  /\ call' = IF global_state = "PRELOAD" THEN "start" ELSE "prescan"
  /\ Nowhere

\* The application repeats a call with the same number.
StartOutput(scan_number) ==
  /\ call = "none"
  /\ output_scan_number' = IF eoi_reached /\ scan_number > input_scan_number
                           THEN input_scan_number ELSE scan_number
  /\ IF global_state = "BUFIMAGE" THEN PreparePass
     ELSE /\ global_state = "PRESCAN" /\ buffered_image /\ call' = "prescan"
          /\ scan_number = output_scan_number
          /\ UNCHANGED <<passVars, global_state>>
  /\ UNCHANGED <<inputVars, parameters>>

-----------------------------------------------------------------------------
(* Output of a row.                                                        *)

\* decompress_data waits for the row of its scan; with smoothing for one
\* row more, if the scan has dc.
MustConsume ==
  \/ input_scan_number < output_scan_number
  \/ input_scan_number = output_scan_number /\ input_iMCU_row <= output_iMCU_row

\* Variant: smoothing does not wait for the row behind.
NoRowAhead == 0

RowsAhead == IF datastream.dc[input_scan_number] THEN 1 ELSE 0
MustConsumeToSmooth ==
  /\ input_scan_number <= output_scan_number /\ ~eoi_reached
  /\ ~(input_scan_number = output_scan_number
       /\ input_iMCU_row > output_iMCU_row + RowsAhead)

WaitForInput == IF smoothing THEN MustConsumeToSmooth ELSE MustConsume

Emit(scans) ==
  /\ output' = [output EXCEPT ![output_iMCU_row] =
                  [own |-> scans[output_iMCU_row],
                   next |-> scans[IF output_iMCU_row + 1 \in ImageRows
                                  THEN output_iMCU_row + 1 ELSE output_iMCU_row]]]
  /\ output_iMCU_row' = output_iMCU_row + 1
  /\ output_scanline' = output_scanline + 1

\* process_data down to the coefficient controller.
OutputRow ==
  \/ /\ ~full_buffer /\ unread > 0
     /\ unread' = unread - 1
     /\ StoreRow /\ Emit(coef_arrays')
     /\ UNCHANGED <<input_scan_number, eoi_reached>>
  \/ /\ full_buffer /\ ~WaitForInput
     /\ Emit(coef_arrays)
     /\ UNCHANGED inputVars

SuspendedOutput == IF full_buffer THEN WaitForInput /\ Suspended ELSE unread = 0

\* output_pass_setup: the first of two passes is for the colors only.
Prescan ==
  /\ call = "prescan" /\ global_state = "PRESCAN"
  /\ \/ /\ pass = "dummy" /\ output_scanline < total_iMCU_rows
        /\ \/ OutputRow /\ UNCHANGED <<parameters, call, global_state, output_scan_number,
                                       pass, smoothing>>
           \/ full_buffer /\ WaitForInput /\ GoOn
           \/ SuspendedOutput /\ Return /\ Nowhere
     \/ /\ pass = "dummy" /\ output_scanline = total_iMCU_rows
        /\ pass' = "final" /\ output_scanline' = 0
        /\ UNCHANGED <<inputVars, parameters, call, global_state, output_scan_number,
                       output_iMCU_row, smoothing, output>>
     \/ /\ pass # "dummy"
        /\ global_state' = "SCANNING" /\ Return
        /\ UNCHANGED <<inputVars, passVars, parameters, output_scan_number>>

\* jpeg_read_scanlines.  After a dummy pass the rows come from a buffer.
ReadScanlines ==
  /\ call = "none" /\ global_state = "SCANNING" /\ output_scanline < total_iMCU_rows
  /\ call' = "read"
  /\ Nowhere

Read ==
  /\ call = "read" /\ global_state = "SCANNING"
  /\ \/ /\ pass = "final"
        /\ output_scanline' = output_scanline + 1 /\ Return
        /\ UNCHANGED <<inputVars, parameters, global_state, output_scan_number,
                       output_iMCU_row, pass, smoothing, output>>
     \/ /\ pass = "single" /\ OutputRow /\ Return
        /\ UNCHANGED <<parameters, global_state, output_scan_number, pass, smoothing>>
     \/ pass = "single" /\ full_buffer /\ WaitForInput /\ GoOn
     \/ pass = "single" /\ SuspendedOutput /\ Return /\ Nowhere

-----------------------------------------------------------------------------
(* The ends of a pass and of a datastream.                                 *)

\* jpeg_finish_output: a pass may be left early.
FinishOutput ==
  /\ call = "none" /\ buffered_image /\ global_state \in {"SCANNING", "BUFPOST"}
  /\ global_state' = "BUFPOST" /\ call' = "finish_output"
  /\ UNCHANGED <<inputVars, passVars, parameters, output_scan_number>>

ToNextScan ==
  /\ call = "finish_output" /\ global_state = "BUFPOST"
  /\ IF input_scan_number <= output_scan_number /\ ~eoi_reached THEN GoOn \/ Suspend
     ELSE /\ global_state' = "BUFIMAGE" /\ Return
          /\ UNCHANGED <<inputVars, passVars, parameters, output_scan_number>>

\* jpeg_finish_decompress.
FinishDecompress ==
  /\ call = "none"
  /\ \/ global_state = "SCANNING" /\ ~buffered_image /\ output_scanline = total_iMCU_rows
     \/ global_state \in {"BUFIMAGE", "STOPPING"}
  /\ global_state' = "STOPPING" /\ call' = "finish"
  /\ UNCHANGED <<inputVars, passVars, parameters, output_scan_number>>

ToEOI ==
  /\ call = "finish" /\ global_state = "STOPPING"
  /\ IF eoi_reached THEN Fresh ELSE GoOn \/ Suspend

jpeg_abort == call = "none" /\ global_state # "START" /\ Fresh

DecompressorNext ==
  \/ SetSource \/ Arrive \/ ConsumeCall \/ TablesOnly
  \/ StartDecompress \/ Preload \/ StartAgain \/ Prescan
  \/ \E scan_number \in 1 .. NumScans + 1 : StartOutput(scan_number)
  \/ ReadScanlines \/ Read
  \/ FinishOutput \/ ToNextScan
  \/ FinishDecompress \/ ToEOI
  \/ jpeg_abort

DecompressorSpec == DecompressorInit /\ [][DecompressorNext]_decompressorVars

-----------------------------------------------------------------------------

(***************************************************************************)
(* However the input is ahead of the output or behind it, every row that   *)
(* is output has the data of all scans up to the one that was asked for;   *)
(* when the dc of that scan is smoothed, so has the row behind, whose dc   *)
(* is used.  Without buffered-image mode that is the whole datastream.     *)
(***************************************************************************)
OutputIsCurrent ==
  \A row \in 0 .. output_iMCU_row - 1 :
    /\ output[row].own >= output_scan_number
    /\ smoothing /\ datastream.dc[output_scan_number] => output[row].next >= output_scan_number
    /\ ~buffered_image /\ has_multiple_scans => output[row].own = NumScans

(***************************************************************************)
(* At the end of the file nothing is left to wait for: the output loops,   *)
(* which ask for input until they have enough, would not end.              *)
(***************************************************************************)
NoWaitAtEnd ==
  eoi_reached /\ call \in {"prescan", "read"} /\ full_buffer /\ output_iMCU_row \in ImageRows
    => ~WaitForInput

\* All of the output comes, and with all of its data.
OutputArrives == OutputIsCurrent /\ NoWaitAtEnd

=============================================================================
