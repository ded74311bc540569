--------------------------- MODULE ShrinkService ---------------------------
(***************************************************************************)
(* The image service of the proxy: img_proc_2_svc in rpc.c downloads an    *)
(* image, change_res_JPEG_F in lowres.c reads it with the JPEG library,    *)
(* and write_JPEG_file in lowres-write.c writes it at a low quality into   *)
(* memory, which becomes the reply.  Calls are served one after another.   *)
(*                                                                         *)
(* An image file is the sequence of markers that the library meets in it;  *)
(* it is chosen while it is read, and its data between markers decodes to  *)
(* something always (missing data is filled up).  A row is what one call   *)
(* for scanlines moves.  The library's errors that depend on the data of a *)
(* marker, or on memory, may occur wherever the library is entered.        *)
(***************************************************************************)
EXTENDS Integers

CONSTANTS Height,      \* rows of an image
          MaxCalls,    \* calls of the service
          MaxMarkers,  \* markers in a file
          RawSize,     \* bytes of the image without compression
          SizeLimit,   \* 2^32 in the code: RawSize is computed modulo it
          Enlargement, \* 1024 in empty_output_buffer
          MaxBytes     \* bytes that compressing one row can emit

ASSUME SizeAssumption ==
  /\ {Height, RawSize, SizeLimit, Enlargement} \subseteq Nat \ {0}
  /\ {MaxCalls, MaxMarkers, MaxBytes} \subseteq Nat

VARIABLES
  pc,      \* where the service is
  calls,   \* calls begun
  hServer, \* "unset", "none", "open" or "closed"
  address, \* result of getaddrinfo: "unset", "held" or "freed"
  file,    \* what the socket still delivers
  d,       \* the decompressor, its input controller and marker reader
  c,       \* the compressor
  dest,    \* its destination: memory of total bytes, free of them not used
  output,  \* the buffer and final of the reply
  held,    \* what malloc returned to this call and was not freed
  misuse   \* first way in which the library was misused, or "none"

vars == <<pc, calls, hServer, address, file, d, c, dest, output, held, misuse>>
service == <<calls, hServer, address>>
result == <<output, held>>

-----------------------------------------------------------------------------

\* A struct on the stack before the library has set it up.
NoDecompressor ==
  [state |-> "none", pools |-> {}, consume |-> "markers", multi |-> FALSE,
   eoi |-> FALSE, inHeaders |-> TRUE, sawSOI |-> FALSE, sawSOF |-> "no",
   inputRow |-> 0, scanline |-> 0]

NoCompressor == [state |-> "none", pools |-> {}, scanline |-> 0]

NoDestination == [total |-> 0, free |-> 0, emitted |-> 0]

Init ==
  /\ pc = "waiting"
  /\ calls = 0
  /\ hServer = "unset"
  /\ address = "unset"
  /\ file = [left |-> 0, begun |-> FALSE]
  /\ d = NoDecompressor
  /\ c = NoCompressor
  /\ dest = NoDestination
  /\ output = [buffer |-> "unset", final |-> -1]
  /\ held = {}
  /\ misuse = "none"

\* svc_run hands over a call.  The locals and the reply are not set.
Call ==
  /\ pc = "waiting"
  /\ calls < MaxCalls
  /\ pc' = "resolve"
  /\ calls' = calls + 1
  /\ hServer' = "unset"
  /\ address' = "unset"
  /\ output' = [buffer |-> "unset", final |-> -1]
  /\ held' = {}
  /\ UNCHANGED <<file, d, c, dest, misuse>>

GetAddrInfo ==
  /\ pc = "resolve"
  /\ \/ pc' = "socket" /\ address' = "held"
     \/ pc' = "cleanup" /\ UNCHANGED address
  /\ UNCHANGED <<calls, hServer, file, d, c, dest, result, misuse>>

Socket ==
  /\ pc = "socket"
  /\ \/ pc' = "download" /\ hServer' = "open"
     \/ pc' = "cleanup" /\ hServer' = "none"
  /\ UNCHANGED <<calls, address, file, d, c, dest, result, misuse>>

\* connect, the request, and the header of the response, which has to tell
\* success and a length.  Whatever is wrong with them leads to the cleanup.
Exchange ==
  /\ pc = "download"
  /\ pc' \in {"allocate", "cleanup"}
  /\ UNCHANGED <<service, file, d, c, dest, result, misuse>>

\* malloc for the image as it is, and fdopen.  The file may have any markers.
Allocate ==
  /\ pc = "allocate"
  /\ \/ /\ pc' = "cleanup"
        /\ output' = [output EXCEPT !.buffer = "null"]
        /\ UNCHANGED <<held, file>>
     \/ /\ output' = [output EXCEPT !.buffer = "download"]
        /\ held' = held \cup {"download"}
        /\ \/ pc' = "create" /\ file' = [left |-> MaxMarkers, begun |-> FALSE]
           \/ pc' = "cleanup" /\ UNCHANGED file
  /\ UNCHANGED <<service, d, c, dest, misuse>>

-----------------------------------------------------------------------------
(* The JPEG object for reading.                                            *)

\* error_exit of lowres.c: longjmp to the clean-up of change_res_JPEG_F.
ErrorExit == pc' = "failed"

\* JERR_BAD_STATE, or a result that the caller does not expect.
Misuse(kind) == misuse' = IF misuse = "none" THEN kind ELSE misuse

InState(states) == d.state \in states

\* Any call can find a table missing or bad, or the memory used up.
LibraryError ==
  /\ pc \in {"create", "header", "start", "preload", "read", "stop"}
  /\ ErrorExit
  /\ UNCHANGED <<service, file, d, c, dest, result, misuse>>

BadState ==
  /\ ErrorExit
  /\ Misuse("state")
  /\ UNCHANGED <<service, file, d, c, dest, result>>

\* jpeg_create_decompress, jpeg_stdio_src, and the reset that begins
\* jpeg_read_header.
Create ==
  /\ pc = "create"
  /\ d' = [NoDecompressor EXCEPT !.state = "INHEADER", !.pools = {"permanent"}]
  /\ pc' = "header"
  /\ UNCHANGED <<service, file, c, dest, result, misuse>>

Markers == {"SOI", "SOF0", "SOF2", "SOFother", "SOS", "SOSpart", "EOI", "other"}

\* fill_input_buffer at the end of the file: its marker instead of data, as
\* often as it is asked for.  FillWithNothing gives bytes that are no marker.
FillWithNothing == "other"
FillAtEnd == "EOI"

(***************************************************************************)
(* The next marker: one of the file's; or what stands for the end of it,   *)
(* when there is no more, or when nothing has arrived for TIMEOUT_SEC,     *)
(* after which the next read may well find more.  An empty file, or one    *)
(* that did not arrive, is an error.                                       *)
(***************************************************************************)
NextMarker(m) ==
  \/ /\ file.left > 0
     /\ m \in Markers
     /\ file' = [left |-> file.left - 1, begun |-> TRUE]
  \/ /\ m = IF file.begun THEN FillAtEnd ELSE "empty"
     /\ UNCHANGED file

\* What read_markers and consume_markers do not accept.
Rejected(m) ==
  \/ m \in {"empty", "SOFother"}
  \/ (m = "SOI") = d.sawSOI
  \/ m \in {"SOF0", "SOF2"} /\ d.sawSOF # "no"
  \/ m \in {"SOS", "SOSpart"} /\ (d.sawSOF = "no" \/ (~d.inHeaders /\ ~d.multi))
  \/ m = "EOI" /\ d.inHeaders

\* start_input_pass: the entropy-coded data of a scan is next.
ScanData(x) == [x EXCEPT !.consume = "data", !.inputRow = 0]

(***************************************************************************)
(* consume_input when it reads markers.  At the first SOS it is known if   *)
(* the image comes in several scans; the scan is entered when the          *)
(* decompressor starts, and a later one at once.                           *)
(***************************************************************************)
AfterMarker(m) ==
  CASE m = "SOI" -> [d EXCEPT !.sawSOI = TRUE]
    [] m \in {"SOF0", "SOF2"} ->
         [d EXCEPT !.sawSOF = m, !.pools = @ \cup {"image"}]
    [] m \in {"SOS", "SOSpart"} /\ d.inHeaders ->
         [d EXCEPT !.inHeaders = FALSE, !.state = "READY",
                   !.multi = m = "SOSpart" \/ d.sawSOF = "SOF2"]
    [] m \in {"SOS", "SOSpart"} /\ ~d.inHeaders -> ScanData(d)
    [] m = "EOI" -> [d EXCEPT !.eoi = TRUE]
    [] OTHER -> d

ReadMarker(afterSOS, afterOther) ==
  \E m \in Markers \cup {"empty"} :
    /\ NextMarker(m)
    /\ IF Rejected(m) THEN ErrorExit /\ UNCHANGED d
       ELSE /\ d' = AfterMarker(m)
            /\ pc' = IF m \in {"SOS", "SOSpart"} THEN afterSOS ELSE afterOther

\* finish_input_pass, when the last row of a scan is there.  StayInScan does
\* not go back to the markers.
StayInScan(x) == x
FinishInputPass(x) == [x EXCEPT !.consume = "markers"]

RowRead(x) ==
  LET y == [x EXCEPT !.inputRow = @ + 1]
  IN IF y.inputRow = Height THEN FinishInputPass(y) ELSE y

(***************************************************************************)
(* One call of the input controller's consume_input, in a loop that ends   *)
(* when EOI was reached.  Between scans it reads markers.  In a scan the   *)
(* coefficient controller reads a row if it has the buffer for several     *)
(* scans, and says that nothing was done if it has none.                   *)
(***************************************************************************)
ConsumeInput ==
  IF d.eoi THEN UNCHANGED <<pc, file, d, misuse>>
  ELSE IF d.consume = "markers"
       THEN ReadMarker(pc, pc) /\ UNCHANGED misuse
  ELSE IF d.multi
       THEN d' = RowRead(d) /\ UNCHANGED <<pc, file, misuse>>
  ELSE Misuse("suspended") /\ ErrorExit /\ UNCHANGED <<file, d>>

ReadHeader ==
  /\ pc = "header"
  /\ ReadMarker("start", "header")
  /\ UNCHANGED <<service, c, dest, result, misuse>>

\* jpeg_start_decompress: jinit_master_decompress enters the first scan.
StartDecompress ==
  /\ pc = "start"
  /\ IF InState({"READY"})
     THEN /\ d' = [ScanData(d) EXCEPT !.state = "PRELOAD"]
          /\ pc' = "preload"
          /\ UNCHANGED <<service, file, c, dest, result, misuse>>
     ELSE BadState

\* The rest of it: all scans are absorbed, if there are several, then
\* output_pass_setup.  change_res_JPEG_F allocates its rows of output.
Preload ==
  /\ pc = "preload"
  /\ IF d.multi /\ ~d.eoi
     THEN ConsumeInput
     ELSE /\ d' = [d EXCEPT !.state = "SCANNING", !.scanline = 0,
                            !.pools = @ \cup {"image"}]
          /\ pc' = "read"
          /\ UNCHANGED <<file, misuse>>
  /\ UNCHANGED <<service, c, dest, result>>

(***************************************************************************)
(* jpeg_read_scanlines, while there are rows.  With one scan a row is      *)
(* decoded now; with several the coefficients are there already.           *)
(***************************************************************************)
ReadScanlines ==
  /\ pc = "read"
  /\ d.scanline < Height
  /\ IF ~InState({"SCANNING"}) THEN BadState
     ELSE IF d.multi /\ d.inputRow <= d.scanline
     THEN /\ ConsumeInput
          /\ UNCHANGED <<service, c, dest, result>>
     ELSE /\ d' = [IF d.multi THEN d ELSE RowRead(d) EXCEPT !.scanline = @ + 1]
          /\ UNCHANGED <<pc, service, file, c, dest, result, misuse>>

AllRead ==
  /\ pc = "read"
  /\ d.scanline = Height
  /\ pc' = "compress"
  /\ UNCHANGED <<service, file, d, c, dest, result, misuse>>

-----------------------------------------------------------------------------
(* write_JPEG_file, and the JPEG object for writing.  Its error_exit ends  *)
(* the process.                                                            *)

Exit ==
  /\ pc \in {"compress", "write", "end"}
  /\ pc' = "down"
  /\ UNCHANGED <<service, file, d, c, dest, result, misuse>>

\* empty_output_buffer.  LoseCount forgets to count what it has added.
LoseCount(x) == [x EXCEPT !.free = Enlargement]
EmptyOutputBuffer(x) == [x EXCEPT !.total = @ + Enlargement, !.free = Enlargement]

\* init_destination multiplies in 32 bits: of a very large image less memory
\* is allocated, and perhaps none.
Allocated == RawSize % SizeLimit

\* emit_byte: a full buffer is emptied at once.  If there was no room at all,
\* it writes beyond the memory, and free goes on below 0 (a size_t, from its
\* largest value); the process may end then.
EmitByte(x) ==
  LET y == [x EXCEPT !.free = @ - 1, !.emitted = @ + 1]
  IN IF y.free = 0 THEN EmptyOutputBuffer(y) ELSE y

Emit(x, bytes) ==
  LET after[n \in 0 .. bytes] == IF n = 0 THEN x ELSE EmitByte(after[n - 1])
  IN after[bytes]

\* From jpeg_create_compress to jpeg_start_compress, with init_destination.
StartCompress ==
  /\ pc = "compress"
  /\ c' = [state |-> "SCANNING", pools |-> {"permanent", "image"}, scanline |-> 0]
  /\ dest' = [total |-> Allocated, free |-> Allocated, emitted |-> 0]
  /\ held' = held \cup {"picture"}
  /\ pc' = "write"
  /\ UNCHANGED <<service, file, d, output, misuse>>

\* jpeg_write_scanlines takes a row that was read into the image pool of d.
WriteScanline ==
  /\ pc = "write"
  /\ c.scanline < Height
  /\ IF c.state = "SCANNING" /\ "image" \in d.pools THEN UNCHANGED misuse
     ELSE Misuse("freed rows")
  /\ c' = [c EXCEPT !.scanline = @ + 1]
  /\ \E bytes \in 0 .. MaxBytes : dest' = Emit(dest, bytes)
  /\ UNCHANGED <<pc, service, file, d, result>>

\* jpeg_abort and jpeg_destroy: the pools with what they hold.
\* KeepPermanent destroys what jpeg_abort does.
Abort(x) == [x EXCEPT !.state = "START", !.pools = @ \ {"image"}]
KeepPermanent(x) == [x EXCEPT !.state = "none", !.pools = @ \ {"image"}]
Destroy(x) == [x EXCEPT !.state = "none", !.pools = {}]

\* jpeg_finish_compress with the trailer, and the results.  The caller's
\* pointer to the download is overwritten, and nobody frees it.
FinishCompress ==
  /\ pc = "write"
  /\ c.scanline = Height
  /\ \E bytes \in 0 .. MaxBytes :
       LET end == Emit(dest, bytes)
       IN /\ dest' = end
          /\ output' = [buffer |-> "picture", final |-> end.total - end.free]
  /\ c' = Abort(c)
  /\ pc' = "end"
  /\ UNCHANGED <<service, file, d, held, misuse>>

DestroyCompress ==
  /\ pc = "end"
  /\ c' = Destroy(c)
  /\ pc' = "finish"
  /\ UNCHANGED <<service, file, d, dest, result, misuse>>

-----------------------------------------------------------------------------

\* jpeg_finish_decompress reads the rest of the file up to EOI, and then
\* releases the image's memory as jpeg_abort does.
FinishDecompress ==
  /\ pc = "finish"
  /\ IF InState({"SCANNING"}) /\ d.scanline = Height
     THEN /\ d' = [d EXCEPT !.state = "STOPPING"]
          /\ pc' = "stop"
          /\ UNCHANGED <<service, file, c, dest, result, misuse>>
     ELSE BadState

ReadToEOI ==
  /\ pc = "stop"
  /\ IF d.eoi THEN d' = Abort(d) /\ pc' = "destroy" /\ UNCHANGED <<file, misuse>>
     ELSE ConsumeInput
  /\ UNCHANGED <<service, c, dest, result>>

\* The end of change_res_JPEG_F, and the end of it after an error.
CloseImage ==
  /\ pc \in {"destroy", "failed"}
  /\ d' = Destroy(d)
  /\ hServer' = "closed"
  /\ pc' = "cleanup"
  /\ UNCHANGED <<calls, address, file, c, dest, result, misuse>>

(***************************************************************************)
(* freeaddrinfo(result) and close(hServer) on every way.  After fclose the *)
(* descriptor is closed twice, which nothing can come between; of values   *)
(* that were never set the outcome is open: the process may end.           *)
(***************************************************************************)
CloseSocket == IF hServer = "open" THEN "closed" ELSE hServer

Cleanup ==
  /\ pc = "cleanup"
  /\ address' = IF address = "held" THEN "freed" ELSE address
  /\ hServer' = CloseSocket
  /\ \/ pc' = "returned"
     \/ pc' = "down" /\ "unset" \in {address, hServer}
  /\ UNCHANGED <<calls, file, d, c, dest, result, misuse>>

\* The generated stub sends the reply, and img_prog_2_freeresult frees its
\* buffer, which xdr_free then frees again: the process may end.
SendReply ==
  /\ pc = "returned"
  /\ pc' \in {"waiting", "down"}
  /\ held' = held \ {output.buffer}
  /\ UNCHANGED <<service, file, d, c, dest, output, misuse>>

Step ==
  \/ GetAddrInfo \/ Socket \/ Exchange \/ Allocate
  \/ Create \/ ReadHeader \/ StartDecompress \/ Preload
  \/ ReadScanlines \/ AllRead
  \/ StartCompress \/ WriteScanline \/ FinishCompress \/ DestroyCompress
  \/ FinishDecompress \/ ReadToEOI \/ CloseImage \/ Cleanup \/ SendReply

Next == Call \/ Step \/ LibraryError \/ Exit

\* The thread goes on; nothing makes the library fail.
Spec == Init /\ [][Next]_vars /\ WF_vars(Step)

-----------------------------------------------------------------------------

(***************************************************************************)
(* Whatever markers a file has, the service calls the library only in      *)
(* states that allow the call, reads rows of output only while they are    *)
(* allocated, and none of its calls is suspended, which it does not look   *)
(* at (lowres.c: "suspension is not possible with the stdio data source"). *)
(***************************************************************************)
NeverMisused == misuse = "none"

(***************************************************************************)
(* When a call returns, well or not, both JPEG objects are destroyed, the  *)
(* socket and the addresses are released, and of the memory the call has   *)
(* allocated only the buffer of the reply remains, besides the download    *)
(* when a picture took its place in the reply.                             *)
(***************************************************************************)
NothingHeld ==
  pc = "returned" =>
    /\ d.pools = {} /\ c.pools = {}
    /\ hServer # "open" /\ address # "held"
    /\ "picture" \in held => output.buffer = "picture"
    /\ "download" \in held => output.buffer \in {"download", "picture"}

(***************************************************************************)
(* The length of the picture in the reply is the number of bytes that the  *)
(* compressor has emitted, however often the memory had to be enlarged,    *)
(* and it is set exactly when the buffer is the picture.                   *)
(***************************************************************************)
FinalIsLength ==
  /\ (output.buffer = "picture") = (output.final # -1)
  /\ output.final # -1 => output.final = dest.emitted

\* Every call ends: in its reply, or with the process.  A file that stops
\* short, or never gets to its end marker, does not keep the service.
CallEnds == pc = "resolve" ~> pc \in {"waiting", "down"}

=============================================================================
