------------------------ MODULE ShrinkServiceProofs ------------------------
(***************************************************************************)
(* For images of any height and files with any markers: the image service  *)
(* never misuses the JPEG library, a call that returns has released what   *)
(* it took, and the reply has the length of its picture.                   *)
(*                                                                         *)
(* The first two follow from how far a call has come.  Reading says at     *)
(* each point of change_res_JPEG_F what the decompressor is ready for: in  *)
(* particular, an image with one scan is between markers again when its    *)
(* last row is there, so that the calls that follow are never suspended.   *)
(* Releases says what each point still holds.                              *)
(*                                                                         *)
(* That the reply has the length of the picture takes an induction over    *)
(* the bytes that are emitted at a time; Writable is what a byte keeps.    *)
(***************************************************************************)
EXTENDS ShrinkService, TLAPS, WellFoundedInduction

Points ==
  {"waiting", "resolve", "socket", "download", "allocate", "create", "header", "start", "preload",
   "read", "compress", "write", "end", "finish", "stop", "destroy", "failed", "cleanup",
   "returned", "down"}

Decompressors ==
  [state : {"none", "INHEADER", "READY", "PRELOAD", "SCANNING", "STOPPING", "START"},
   pools : SUBSET {"permanent", "image"}, consume : {"markers", "data"}, multi : BOOLEAN,
   eoi : BOOLEAN, inHeaders : BOOLEAN, sawSOI : BOOLEAN, sawSOF : {"no", "SOF0", "SOF2"},
   inputRow : Int, scanline : Int]

Compressors ==
  [state : {"none", "START", "SCANNING"}, pools : SUBSET {"permanent", "image"}, scanline : Int]

Buffers == {"unset", "null", "download", "picture"}

Types ==
  /\ pc \in Points
  /\ d \in Decompressors
  /\ c \in Compressors
  /\ output.buffer \in Buffers
  /\ held \subseteq {"download", "picture"}

\* The points of a call, from jpeg_start_decompress on, that follow the output.
AfterOutput == {"compress", "write", "end", "finish", "stop"}

\* What the decompressor is ready for.
Reading ==
  /\ pc = "header" => d.consume = "markers" /\ d.inHeaders
  /\ pc = "start" => d.state = "READY"
  /\ pc \in {"start", "preload", "read"} \cup AfterOutput => ~d.inHeaders
  /\ pc = "preload" /\ ~d.multi => d.consume = "data" /\ d.inputRow = 0
  /\ pc \in {"read", "compress", "write", "end", "finish"} => d.state = "SCANNING"
  /\ pc = "read" /\ ~d.multi =>
       /\ d.inputRow = d.scanline /\ d.scanline <= Height
       /\ d.consume = IF d.scanline = Height THEN "markers" ELSE "data"
  /\ pc \in AfterOutput /\ ~d.multi => d.consume = "markers"
  /\ pc \in {"compress", "write", "end", "finish"} => d.scanline = Height
  /\ pc \in {"read", "compress", "write"} => "image" \in d.pools
  /\ pc = "write" => c.state = "SCANNING"

\* Where there is no JPEG object, for reading or for writing.
NotReading ==
  {"waiting", "resolve", "socket", "download", "allocate", "create", "cleanup", "returned"}
NotWriting == Points \ {"write", "end", "down"}

\* What a call still holds.
Releases ==
  /\ pc \in {"resolve", "socket", "download", "allocate"} =>
       held = {} /\ output = [buffer |-> "unset", final |-> -1]
  /\ pc \in NotReading => d.pools = {}
  /\ pc \in NotWriting => c.pools = {}
  /\ pc = "returned" => hServer # "open" /\ address # "held"
  /\ "picture" \in held => output.buffer = "picture" \/ pc \in {"write", "down"}
  /\ "download" \in held => output.buffer \in {"download", "picture"}

Inv == Types /\ Reading /\ Releases /\ NeverMisused

ReadingStep ==
  \/ Create \/ ReadHeader \/ StartDecompress \/ Preload \/ ReadScanlines \/ AllRead
  \/ FinishDecompress \/ ReadToEOI \/ CloseImage

WritingStep == StartCompress \/ WriteScanline \/ FinishCompress \/ DestroyCompress

\* Steps that do not touch the JPEG objects.
PlainStep ==
  \/ Call \/ GetAddrInfo \/ Socket \/ Exchange \/ Allocate \/ Cleanup \/ SendReply
  \/ LibraryError \/ Exit

-----------------------------------------------------------------------------
(* The JPEG object for reading.                                            *)

LEMMA InitInv == Init => Inv
<1> SUFFICES ASSUME Init PROVE Inv
  OBVIOUS
<1>1. d \in Decompressors /\ d.pools = {}
  BY DEF Init, NoDecompressor, Decompressors
<1>2. c \in Compressors /\ c.pools = {}
  BY DEF Init, NoCompressor, Compressors
<1>3. Types
  BY <1>1, <1>2 DEF Init, Types, Points, Buffers
<1>4. Reading /\ Releases /\ NeverMisused
  BY <1>1, <1>2 DEF Init, Reading, Releases, AfterOutput, NotReading, NotWriting, NeverMisused
<1> QED
  BY <1>3, <1>4 DEF Inv

\* start_input_pass turns to the data of a scan.
LEMMA ScanDataKeeps ==
  ASSUME NEW x \in Decompressors
  PROVE  /\ ScanData(x) \in Decompressors
         /\ ScanData(x).consume = "data" /\ ScanData(x).inputRow = 0
         /\ ScanData(x).state = x.state /\ ScanData(x).inHeaders = x.inHeaders
         /\ ScanData(x).multi = x.multi /\ ScanData(x).pools = x.pools
         /\ ScanData(x).scanline = x.scanline
<1>1. ASSUME NEW k \in Int, NEW y, y = [x EXCEPT !.consume = "data", !.inputRow = k]
      PROVE  /\ y \in Decompressors /\ y.consume = "data" /\ y.inputRow = k
             /\ y.state = x.state /\ y.inHeaders = x.inHeaders /\ y.multi = x.multi
             /\ y.pools = x.pools /\ y.scanline = x.scanline
  BY <1>1 DEF Decompressors
<1>2. PICK k \in Int : k = 0
  OBVIOUS
<1>3. ScanData(x) = [x EXCEPT !.consume = "data", !.inputRow = k]
  BY ONLY <1>2 DEF ScanData
<1> QED
  BY <1>1, <1>2, <1>3

\* A marker that is accepted leaves a decompressor of the same kind.
LEMMA AfterMarkerKeeps ==
  ASSUME d \in Decompressors, NEW m \in Markers \cup {"empty"}, ~Rejected(m)
  PROVE  /\ AfterMarker(m) \in Decompressors
         /\ d.pools \subseteq AfterMarker(m).pools
         /\ AfterMarker(m).scanline = d.scanline
         /\ m \notin {"SOS", "SOSpart"} =>
              /\ AfterMarker(m).state = d.state
              /\ AfterMarker(m).inHeaders = d.inHeaders
              /\ AfterMarker(m).consume = d.consume
              /\ AfterMarker(m).multi = d.multi
              /\ AfterMarker(m).inputRow = d.inputRow
         /\ m \in {"SOS", "SOSpart"} /\ d.inHeaders =>
              /\ AfterMarker(m).state = "READY"
              /\ ~AfterMarker(m).inHeaders
         /\ m \in {"SOS", "SOSpart"} /\ ~d.inHeaders =>
              /\ d.multi
              /\ AfterMarker(m).state = d.state
              /\ AfterMarker(m).inHeaders = d.inHeaders
              /\ AfterMarker(m).multi = d.multi
<1>1. CASE m = "SOI"
  BY <1>1 DEF AfterMarker, Decompressors
<1>2. CASE m \in {"SOF0", "SOF2"}
  BY <1>2 DEF AfterMarker, Decompressors
<1>3. CASE m \in {"SOS", "SOSpart"} /\ d.inHeaders
  BY <1>3 DEF AfterMarker, Decompressors
<1>4. CASE m \in {"SOS", "SOSpart"} /\ ~d.inHeaders
  <2>1. AfterMarker(m) = ScanData(d)
    BY <1>4 DEF AfterMarker
  <2>2. d.multi
    BY <1>4 DEF Rejected
  <2> QED
    BY <1>4, <2>1, <2>2, ScanDataKeeps
<1>5. CASE m = "EOI"
  BY <1>5 DEF AfterMarker, Decompressors
<1>6. CASE m \in {"SOFother", "other", "empty"}
  BY <1>6 DEF AfterMarker, Decompressors
<1> QED
  BY <1>1, <1>2, <1>3, <1>4, <1>5, <1>6 DEF Markers

\* A row that is read leaves a decompressor of the same kind.
LEMMA RowReadKeeps ==
  ASSUME d \in Decompressors
  PROVE  /\ RowRead(d) \in Decompressors
         /\ RowRead(d).state = d.state
         /\ RowRead(d).inHeaders = d.inHeaders
         /\ RowRead(d).multi = d.multi
         /\ RowRead(d).pools = d.pools
         /\ RowRead(d).scanline = d.scanline
         /\ RowRead(d).inputRow = d.inputRow + 1
         /\ RowRead(d).consume = IF d.inputRow + 1 = Height THEN "markers" ELSE d.consume
<1> DEFINE y == [d EXCEPT !.inputRow = @ + 1]
<1>1. /\ y \in Decompressors /\ y.state = d.state /\ y.inHeaders = d.inHeaders
      /\ y.multi = d.multi /\ y.pools = d.pools /\ y.scanline = d.scanline
      /\ y.inputRow = d.inputRow + 1 /\ y.consume = d.consume
  BY DEF Decompressors
<1>2. RowRead(d) = IF y.inputRow = Height THEN [y EXCEPT !.consume = "markers"] ELSE y
  BY DEF RowRead, FinishInputPass
<1> HIDE DEF y
<1> QED
  BY <1>1, <1>2 DEF Decompressors

\* Once the header is read, consume_input reads on, or ends in the clean-up;
\* it suspends only inside the one scan of an image.
LEMMA ConsumeInputKeeps ==
  ASSUME d \in Decompressors, ~d.inHeaders, NeverMisused, ConsumeInput,
         ~d.multi => d.consume = "markers"
  PROVE  /\ d' \in Decompressors
         /\ pc' = pc \/ pc' = "failed"
         /\ NeverMisused'
         /\ d'.state = d.state
         /\ d'.scanline = d.scanline
         /\ d'.inHeaders = d.inHeaders
         /\ d.pools \subseteq d'.pools
         /\ d'.multi = d.multi
         /\ ~d'.multi => d'.consume = "markers"
<1>1. CASE d.eoi
  BY <1>1 DEF ConsumeInput, NeverMisused
<1>2. CASE ~d.eoi /\ d.consume = "markers"
  <2>1. PICK m \in Markers \cup {"empty"} :
          IF Rejected(m) THEN ErrorExit /\ UNCHANGED d ELSE d' = AfterMarker(m) /\ pc' = pc
    BY <1>2 DEF ConsumeInput, ReadMarker
  <2>2. NeverMisused'
    BY <1>2 DEF ConsumeInput, NeverMisused
  <2>3. CASE Rejected(m)
    BY <1>2, <2>1, <2>2, <2>3 DEF ErrorExit
  <2>4. CASE ~Rejected(m)
    BY <1>2, <2>1, <2>2, <2>4, AfterMarkerKeeps
  <2> QED
    BY <2>3, <2>4
<1>3. CASE ~d.eoi /\ d.consume # "markers"
  <2>1. d.multi /\ d' = RowRead(d) /\ pc' = pc /\ misuse' = misuse
    BY <1>3 DEF ConsumeInput
  <2> QED
    BY <2>1, RowReadKeeps DEF NeverMisused
<1> QED
  BY <1>1, <1>2, <1>3

(***************************************************************************)
(* The steps of the decompressor: each finds it in the state it needs and  *)
(* leaves it in the one the next needs.                                    *)
(***************************************************************************)
LEMMA ReadingKeeps ==
  ASSUME Inv, ReadingStep
  PROVE  /\ pc' \in Points /\ d' \in Decompressors
         /\ Reading' /\ NeverMisused'
         /\ pc' \in NotReading => d'.pools = {}
<1>0. /\ d \in Decompressors /\ Reading /\ NeverMisused /\ Height \in Nat \ {0}
      /\ pc \in NotReading => d.pools = {}
  BY SizeAssumption DEF Inv, Types, Releases
<1> USE DEF Points, AfterOutput, NotReading
<1>1. CASE Create
  <2>1. d' = [NoDecompressor EXCEPT !.state = "INHEADER", !.pools = {"permanent"}]
        /\ pc' = "header" /\ misuse' = misuse
    BY <1>1 DEF Create
  <2>2. d' \in Decompressors /\ d'.consume = "markers" /\ d'.inHeaders
    <3>1. d' = [state |-> "INHEADER", pools |-> {"permanent"}, consume |-> "markers",
                multi |-> FALSE, eoi |-> FALSE, inHeaders |-> TRUE, sawSOI |-> FALSE,
                sawSOF |-> "no", inputRow |-> 0, scanline |-> 0]
      BY <2>1 DEF NoDecompressor
    <3> QED
      BY <3>1 DEF Decompressors
  <2> QED
    BY <1>0, <2>1, <2>2 DEF Reading, NeverMisused
<1>2. CASE ReadHeader
  <2>1. PICK m \in Markers \cup {"empty"} :
          IF Rejected(m) THEN ErrorExit /\ UNCHANGED d
          ELSE d' = AfterMarker(m) /\ pc' = IF m \in {"SOS", "SOSpart"} THEN "start" ELSE "header"
    BY <1>2 DEF ReadHeader, ReadMarker
  <2>2. pc = "header" /\ misuse' = misuse
    BY <1>2 DEF ReadHeader
  <2>3. CASE Rejected(m)
    BY <1>0, <2>1, <2>2, <2>3 DEF ErrorExit, Reading, NeverMisused
  <2>4. CASE ~Rejected(m) /\ m \in {"SOS", "SOSpart"}
    <3>1. d' = AfterMarker(m) /\ pc' = "start"
      BY <2>1, <2>4
    <3>2. d' \in Decompressors
      BY <1>0, <2>4, <3>1, AfterMarkerKeeps
    <3>3. d'.state = "READY" /\ ~d'.inHeaders
      BY <1>0, <2>2, <2>4, <3>1, AfterMarkerKeeps DEF Reading
    <3> QED
      BY <1>0, <2>2, <3>1, <3>2, <3>3 DEF Reading, NeverMisused
  <2>5. CASE ~Rejected(m) /\ m \notin {"SOS", "SOSpart"}
    BY <1>0, <2>1, <2>2, <2>5, AfterMarkerKeeps DEF Reading, NeverMisused
  <2> QED
    BY <2>3, <2>4, <2>5
<1>3. CASE StartDecompress
  <2>1. pc = "start" /\ d.state = "READY" /\ ~d.inHeaders
    BY <1>0, <1>3 DEF StartDecompress, Reading
  <2>2. d' = [ScanData(d) EXCEPT !.state = "PRELOAD"] /\ pc' = "preload" /\ misuse' = misuse
    BY <1>3, <2>1 DEF StartDecompress, InState
  <2>3. d' \in Decompressors /\ d'.consume = "data" /\ d'.inputRow = 0 /\ ~d'.inHeaders
    <3> DEFINE x == ScanData(d)
    <3>1. x \in Decompressors /\ x.consume = "data" /\ x.inputRow = 0 /\ ~x.inHeaders
      BY <1>0, <2>1, ScanDataKeeps
    <3>2. d' = [x EXCEPT !.state = "PRELOAD"]
      BY <2>2
    <3> HIDE DEF x
    <3> QED
      BY <3>1, <3>2 DEF Decompressors
  <2> QED
    BY <1>0, <2>2, <2>3 DEF Reading, NeverMisused
<1>4. CASE Preload
  <2>1. pc = "preload" /\ ~d.inHeaders /\ (~d.multi => d.consume = "data" /\ d.inputRow = 0)
    BY <1>0, <1>4 DEF Preload, Reading
  <2>2. CASE d.multi /\ ~d.eoi
    <3>1. ConsumeInput
      BY <1>4, <2>2 DEF Preload
    <3> QED
      BY <1>0, <2>1, <2>2, <3>1, ConsumeInputKeeps DEF Reading
  <2>3. CASE ~(d.multi /\ ~d.eoi)
    <3>1. d' = [d EXCEPT !.state = "SCANNING", !.scanline = 0, !.pools = @ \cup {"image"}]
          /\ pc' = "read" /\ misuse' = misuse
      BY <1>4, <2>3 DEF Preload
    <3>2. ASSUME NEW k \in Int, NEW y,
                 y = [d EXCEPT !.state = "SCANNING", !.scanline = k, !.pools = @ \cup {"image"}]
          PROVE  /\ y \in Decompressors /\ y.state = "SCANNING" /\ y.scanline = k
                 /\ "image" \in y.pools /\ y.multi = d.multi /\ y.inHeaders = d.inHeaders
                 /\ y.inputRow = d.inputRow /\ y.consume = d.consume
      BY <1>0, <3>2 DEF Decompressors
    <3>3. /\ d' \in Decompressors /\ d'.state = "SCANNING" /\ d'.scanline = 0
          /\ "image" \in d'.pools /\ d'.multi = d.multi /\ d'.inHeaders = d.inHeaders
          /\ d'.inputRow = d.inputRow /\ d'.consume = d.consume
      <4>1. PICK k \in Int : k = 0
        OBVIOUS
      <4>2. d' = [d EXCEPT !.state = "SCANNING", !.scanline = k, !.pools = @ \cup {"image"}]
        BY ONLY <3>1, <4>1
      <4> QED
        BY <3>2, <4>1, <4>2
    <3> QED
      BY <1>0, <2>1, <2>3, <3>1, <3>3 DEF Reading, NeverMisused
  <2> QED
    BY <2>2, <2>3
<1>5. CASE ReadScanlines
  <2>1. /\ pc = "read" /\ d.scanline < Height /\ d.state = "SCANNING" /\ ~d.inHeaders
        /\ "image" \in d.pools
        /\ ~d.multi => d.inputRow = d.scanline /\ d.consume = "data"
    BY <1>0, <1>5 DEF ReadScanlines, Reading, Decompressors
  <2>2. CASE d.multi /\ d.inputRow <= d.scanline
    <3>1. ConsumeInput
      BY <1>5, <2>1, <2>2 DEF ReadScanlines, InState
    <3> QED
      BY <1>0, <2>1, <2>2, <3>1, ConsumeInputKeeps DEF Reading
  <2>3. CASE d.multi /\ ~(d.inputRow <= d.scanline)
    <3>1. d' = [d EXCEPT !.scanline = @ + 1] /\ pc' = pc /\ misuse' = misuse
      BY <1>5, <2>1, <2>3 DEF ReadScanlines, InState
    <3>2. /\ d' \in Decompressors /\ d'.state = d.state /\ d'.multi = d.multi
          /\ d'.inHeaders = d.inHeaders /\ d'.pools = d.pools
      BY <1>0, <3>1 DEF Decompressors
    <3> QED
      BY <1>0, <2>1, <2>3, <3>1, <3>2 DEF Reading, NeverMisused
  <2>4. CASE ~d.multi
    <3>1. d' = [RowRead(d) EXCEPT !.scanline = @ + 1] /\ pc' = pc /\ misuse' = misuse
      BY <1>5, <2>1, <2>4 DEF ReadScanlines, InState
    <3>2. /\ d' \in Decompressors /\ d'.state = RowRead(d).state /\ d'.multi = RowRead(d).multi
          /\ d'.inHeaders = RowRead(d).inHeaders /\ d'.pools = RowRead(d).pools
          /\ d'.inputRow = RowRead(d).inputRow /\ d'.consume = RowRead(d).consume
          /\ d'.scanline = RowRead(d).scanline + 1
      BY <1>0, <3>1, RowReadKeeps DEF Decompressors
    <3>3. d'.inputRow = d'.scanline /\ d'.scanline = d.scanline + 1 /\ d'.scanline <= Height
      BY <1>0, <2>1, <2>4, <3>2, RowReadKeeps DEF Decompressors
    <3>4. d'.consume = IF d'.scanline = Height THEN "markers" ELSE "data"
      BY <1>0, <2>1, <2>4, <3>2, <3>3, RowReadKeeps
    <3> QED
      BY <1>0, <2>1, <3>1, <3>2, <3>3, <3>4, RowReadKeeps DEF Reading, NeverMisused
  <2> QED
    BY <2>2, <2>3, <2>4
<1>6. CASE AllRead
  BY <1>0, <1>6 DEF AllRead, Reading, NeverMisused
<1>7. CASE FinishDecompress
  <2>1. pc = "finish" /\ d.state = "SCANNING" /\ d.scanline = Height /\ ~d.inHeaders
        /\ (~d.multi => d.consume = "markers")
    BY <1>0, <1>7 DEF FinishDecompress, Reading
  <2>2. d' = [d EXCEPT !.state = "STOPPING"] /\ pc' = "stop" /\ misuse' = misuse
    BY <1>7, <2>1 DEF FinishDecompress, InState
  <2>3. /\ d' \in Decompressors /\ d'.multi = d.multi /\ d'.consume = d.consume
        /\ d'.inHeaders = d.inHeaders
    BY <1>0, <2>2 DEF Decompressors
  <2> QED
    BY <1>0, <2>1, <2>2, <2>3 DEF Reading, NeverMisused
<1>8. CASE ReadToEOI
  <2>1. pc = "stop" /\ ~d.inHeaders /\ (~d.multi => d.consume = "markers")
    BY <1>0, <1>8 DEF ReadToEOI, Reading
  <2>2. CASE d.eoi
    <3>1. d' = Abort(d) /\ pc' = "destroy" /\ misuse' = misuse
      BY <1>8, <2>2 DEF ReadToEOI
    <3>2. d' \in Decompressors
      BY <1>0, <3>1 DEF Abort, Decompressors
    <3> QED
      BY <1>0, <3>1, <3>2 DEF Reading, NeverMisused
  <2>3. CASE ~d.eoi
    <3>1. ConsumeInput
      BY <1>8, <2>3 DEF ReadToEOI
    <3> QED
      BY <1>0, <2>1, <3>1, ConsumeInputKeeps DEF Reading
  <2> QED
    BY <2>2, <2>3
<1>9. CASE CloseImage
  <2>1. d' = Destroy(d) /\ pc' = "cleanup" /\ misuse' = misuse
    BY <1>9 DEF CloseImage
  <2>2. d' \in Decompressors /\ d'.pools = {}
    BY <1>0, <2>1 DEF Destroy, Decompressors
  <2> QED
    BY <1>0, <2>1, <2>2 DEF Reading, NeverMisused
<1> QED
  BY <1>1, <1>2, <1>3, <1>4, <1>5, <1>6, <1>7, <1>8, <1>9 DEF ReadingStep

\* Such a step leads to another point of change_res_JPEG_F, or out of it.
LEMMA ReadingLeads ==
  ASSUME Inv, ReadingStep
  PROVE  /\ UNCHANGED <<c, output, held>>
         /\ pc \in {"create", "header", "start", "preload", "read", "finish", "stop", "destroy",
                    "failed"}
         /\ pc' \in {"header", "start", "preload", "read", "compress", "stop", "destroy",
                     "failed", "cleanup"}
<1>1. ASSUME ConsumeInput PROVE pc' = pc \/ pc' = "failed"
  BY <1>1 DEF ConsumeInput, ReadMarker, ErrorExit
<1>2. UNCHANGED <<c, output, held>>
  BY DEF ReadingStep, Create, ReadHeader, StartDecompress, BadState, Preload, ReadScanlines,
    AllRead, FinishDecompress, ReadToEOI, CloseImage, result
<1>3. CASE Create \/ AllRead \/ CloseImage
  BY <1>2, <1>3 DEF Create, AllRead, CloseImage
<1>4. CASE ReadHeader
  BY <1>2, <1>4 DEF ReadHeader, ReadMarker, ErrorExit
<1>5. CASE StartDecompress \/ FinishDecompress
  BY <1>2, <1>5 DEF StartDecompress, FinishDecompress, BadState, ErrorExit
<1>6. CASE Preload \/ ReadScanlines \/ ReadToEOI
  BY <1>1, <1>2, <1>6 DEF Preload, ReadScanlines, ReadToEOI, BadState, ErrorExit
<1> QED
  BY <1>2, <1>3, <1>4, <1>5, <1>6 DEF ReadingStep

-----------------------------------------------------------------------------
(* The steps that write the picture, and those outside the library.        *)

\* write_JPEG_file takes its rows while they are allocated, and destroys the
\* object it has created.
LEMMA WritingKeeps == Inv /\ WritingStep => Inv'
<1> SUFFICES ASSUME Inv, WritingStep PROVE Inv'
  OBVIOUS
<1>0. Types /\ Reading /\ Releases /\ NeverMisused
  BY DEF Inv
<1> USE DEF Points, AfterOutput, NotReading, NotWriting, Buffers
<1>1. CASE StartCompress
  <2>1. /\ pc = "compress" /\ pc' = "write"
        /\ c' = [state |-> "SCANNING", pools |-> {"permanent", "image"}, scanline |-> 0]
        /\ held' = held \cup {"picture"} /\ UNCHANGED <<d, output, misuse>>
    BY <1>1 DEF StartCompress
  <2>2. c' \in Compressors /\ c'.state = "SCANNING"
    BY <2>1 DEF Compressors
  <2>3. Types'
    BY <1>0, <2>1, <2>2 DEF Types
  <2>4. Reading'
    BY <1>0, <2>1, <2>2 DEF Reading
  <2>5. Releases'
    BY <1>0, <2>1 DEF Releases
  <2> QED
    BY <1>0, <2>1, <2>3, <2>4, <2>5 DEF Inv, NeverMisused
<1>2. CASE WriteScanline
  <2>1. pc = "write" /\ c.state = "SCANNING" /\ "image" \in d.pools
    BY <1>0, <1>2 DEF WriteScanline, Reading
  <2>2. /\ pc' = "write" /\ c' = [c EXCEPT !.scanline = @ + 1]
        /\ UNCHANGED <<d, output, held, misuse>>
    BY <1>2, <2>1 DEF WriteScanline, result
  <2>3. c' \in Compressors /\ c'.state = c.state
    BY <1>0, <2>2 DEF Types, Compressors
  <2>4. Types'
    BY <1>0, <2>2, <2>3 DEF Types
  <2>5. Reading'
    BY <1>0, <2>1, <2>2, <2>3 DEF Reading
  <2>6. Releases'
    BY <1>0, <2>1, <2>2 DEF Releases
  <2> QED
    BY <1>0, <2>2, <2>4, <2>5, <2>6 DEF Inv, NeverMisused
<1>3. CASE FinishCompress
  <2>1. /\ pc = "write" /\ pc' = "end" /\ c' = Abort(c) /\ output'.buffer = "picture"
        /\ UNCHANGED <<d, held, misuse>>
    BY <1>3 DEF FinishCompress
  <2>2. c' \in Compressors
    BY <1>0, <2>1 DEF Types, Compressors, Abort
  <2>3. Types'
    BY <1>0, <2>1, <2>2 DEF Types
  <2>4. Reading'
    BY <1>0, <2>1 DEF Reading
  <2>5. Releases'
    BY <1>0, <2>1 DEF Releases
  <2> QED
    BY <1>0, <2>1, <2>3, <2>4, <2>5 DEF Inv, NeverMisused
<1>4. CASE DestroyCompress
  <2>1. /\ pc = "end" /\ pc' = "finish" /\ c' = Destroy(c)
        /\ UNCHANGED <<d, output, held, misuse>>
    BY <1>4 DEF DestroyCompress, result
  <2>2. c' \in Compressors /\ c'.pools = {}
    BY <1>0, <2>1 DEF Types, Compressors, Destroy
  <2>3. Types'
    BY <1>0, <2>1, <2>2 DEF Types
  <2>4. Reading'
    BY <1>0, <2>1 DEF Reading
  <2>5. Releases'
    BY <1>0, <2>1, <2>2 DEF Releases
  <2> QED
    BY <1>0, <2>1, <2>3, <2>4, <2>5 DEF Inv, NeverMisused
<1> QED
  BY <1>1, <1>2, <1>3, <1>4 DEF WritingStep

\* The rest of the call touches no JPEG object.
LEMMA PlainKeeps == Inv /\ PlainStep => Inv'
<1> SUFFICES ASSUME Inv, PlainStep PROVE Inv'
  OBVIOUS
<1>0. Types /\ Reading /\ Releases /\ NeverMisused
  BY DEF Inv
<1> USE DEF Points, AfterOutput, NotReading, NotWriting, Buffers
<1>1. UNCHANGED <<d, c, misuse>>
  BY DEF PlainStep, Call, GetAddrInfo, Socket, Exchange, Allocate, Cleanup, SendReply,
    LibraryError, Exit
<1>2. /\ pc' \in {"waiting", "resolve", "socket", "download", "allocate", "create", "cleanup",
                  "returned", "failed", "down"}
      /\ pc' \in NotReading => pc \in NotReading
      /\ pc' # "down" => pc \in NotWriting
  BY DEF PlainStep, Call, GetAddrInfo, Socket, Exchange, Allocate, Cleanup, SendReply,
    LibraryError, Exit, ErrorExit
<1>3. Reading'
  BY <1>0, <1>1, <1>2 DEF Reading
<1>4. Types' /\ (/\ pc' \in {"resolve", "socket", "download", "allocate"} =>
                      held' = {} /\ output' = [buffer |-> "unset", final |-> -1]
                 /\ "picture" \in held' => output'.buffer = "picture" \/ pc' \in {"write", "down"}
                 /\ "download" \in held' => output'.buffer \in {"download", "picture"})
  <2>1. CASE Call
    BY <1>0, <1>1, <2>1 DEF Call, Types
  <2>2. CASE Allocate
    <3>1. pc = "allocate" /\ held = {} /\ output = [buffer |-> "unset", final |-> -1]
      BY <1>0, <2>2 DEF Allocate, Releases
    <3>2. \/ output'.buffer = "null" /\ held' = {}
          \/ output'.buffer = "download" /\ held' = {"download"}
      BY <2>2, <3>1 DEF Allocate
    <3>3. pc' \in {"create", "cleanup"}
      BY <2>2 DEF Allocate
    <3> QED
      BY <1>0, <1>1, <3>2, <3>3 DEF Types
  <2>3. CASE SendReply
    <3>1. pc = "returned" /\ pc' \in {"waiting", "down"} /\ held' = held \ {output.buffer}
          /\ output' = output
      BY <2>3 DEF SendReply
    <3> QED
      BY <1>0, <1>1, <3>1 DEF Types, Releases
  <2>4. CASE GetAddrInfo \/ Socket \/ Exchange \/ Cleanup \/ LibraryError \/ Exit
    <3>1. UNCHANGED <<output, held>>
      BY <2>4 DEF GetAddrInfo, Socket, Exchange, Cleanup, LibraryError, Exit, result
    <3>2. pc' \in {"socket", "download", "allocate"} => pc \in {"resolve", "socket", "download"}
      BY <2>4 DEF GetAddrInfo, Socket, Exchange, Cleanup, LibraryError, Exit, ErrorExit
    <3>3. pc' # "resolve" /\ (pc' # "down" => pc \notin {"write", "down"})
      BY <2>4 DEF GetAddrInfo, Socket, Exchange, Cleanup, LibraryError, Exit, ErrorExit
    <3> QED
      BY <1>0, <1>1, <1>2, <3>1, <3>2, <3>3 DEF Types, Releases
  <2> QED
    BY <2>1, <2>2, <2>3, <2>4 DEF PlainStep
<1>5. pc' = "returned" => hServer' # "open" /\ address' # "held"
  BY DEF PlainStep, Call, GetAddrInfo, Socket, Exchange, Allocate, Cleanup, SendReply,
    LibraryError, Exit, ErrorExit, CloseSocket
<1>6. Releases'
  BY <1>0, <1>1, <1>2, <1>4, <1>5 DEF Releases
<1> QED
  BY <1>0, <1>1, <1>3, <1>4, <1>6 DEF Inv, NeverMisused

-----------------------------------------------------------------------------
(* The theorems.                                                           *)

LEMMA InvStep == Inv /\ [Next]_vars => Inv'
<1> SUFFICES ASSUME Inv, [Next]_vars PROVE Inv'
  OBVIOUS
<1>1. CASE ReadingStep
  <2>1. Types'
    BY <1>1, ReadingKeeps, ReadingLeads DEF Inv, Types
  <2>2. Releases'
    BY <1>1, ReadingKeeps, ReadingLeads DEF Inv, Releases, NotWriting, Points
  <2> QED
    BY <1>1, <2>1, <2>2, ReadingKeeps DEF Inv
<1>2. CASE WritingStep \/ PlainStep
  BY <1>2, WritingKeeps, PlainKeeps
<1>3. CASE UNCHANGED vars
  BY <1>3 DEF vars, Inv, Types, Reading, Releases, NeverMisused
<1> QED
  BY <1>1, <1>2, <1>3 DEF Next, Step, ReadingStep, WritingStep, PlainStep

LEMMA InvHolds == Spec => []Inv
BY InitInv, InvStep, PTL DEF Spec

\* Whatever markers a file has and wherever the library fails, rpc.c, lowres.c
\* and lowres-write.c call it only as its states allow, and no call suspends.
THEOREM LibraryIsUsedWell == Spec => []NeverMisused
BY InvHolds, PTL DEF Inv

\* On every way to its return, img_proc_2_svc has destroyed both JPEG objects,
\* closed the socket and released the addresses and the memory, but for the
\* reply's buffer and the download that a picture has replaced.
THEOREM ReleasedOnReturn == Spec => []NothingHeld
<1>1. Inv => NothingHeld
  BY DEF Inv, Releases, NothingHeld, NotReading, NotWriting, Points
<1> QED
  BY InvHolds, <1>1, PTL

-----------------------------------------------------------------------------
(* The bytes of the picture.                                               *)

\* Induction on the numbers of a set: the least number outside would be a
\* successor of one inside.
LEMMA SetInduction ==
  ASSUME NEW S, 0 \in S, \A n \in Nat : n \in S => n + 1 \in S
  PROVE  \A n \in Nat : n \in S
<1> DEFINE Outside == {n \in Nat : n \notin S}
           Less == OpToRel(<, Nat)
<1>1. \A m, n \in Nat : m < n => <<m, n>> \in Less
  BY DEF OpToRel
<1>2. IsWellFoundedOn(Less, Nat)
  BY NatLessThanWellFounded
<1> SUFFICES ASSUME Outside # {} PROVE FALSE
  OBVIOUS
<1> HIDE DEF Less
<1>3. PICK n \in Outside : \A m \in Outside : <<m, n>> \notin Less
  <2>1. Outside \subseteq Nat
    OBVIOUS
  <2> HIDE DEF Outside
  <2> QED
    BY <1>2, <2>1, WFMin
<1>4. n \in Nat /\ n # 0 /\ n - 1 \in Nat /\ n - 1 < n /\ n = (n - 1) + 1
  OBVIOUS
<1>5. n - 1 \in S
  BY <1>1, <1>3, <1>4
<1> QED
  BY <1>4, <1>5

\* Emitting bytes one after another keeps what emitting a byte keeps.
LEMMA EmitKeeps ==
  ASSUME NEW S, NEW x \in S, \A y \in S : EmitByte(y) \in S, NEW bytes \in Nat
  PROVE  Emit(x, bytes) \in S
<1> DEFINE Row(f, k) == f = [n \in 0 .. k |-> IF n = 0 THEN x ELSE EmitByte(f[n - 1])]
           Defined == {k \in Nat : \E f : Row(f, k)}
<1>1. \A k \in Nat : k \in Defined
  <2>1. 0 \in Defined
    <3>1. Row([n \in 0 .. 0 |-> x], 0)
      OBVIOUS
    <3> QED
      BY <3>1
  <2>2. ASSUME NEW k \in Nat, k \in Defined PROVE k + 1 \in Defined
    <3>1. PICK f : Row(f, k)
      BY <2>2
    <3> DEFINE g == [n \in 0 .. k + 1 |-> IF n = k + 1 THEN EmitByte(f[k]) ELSE f[n]]
    <3>2. ASSUME NEW n \in 0 .. k + 1 PROVE g[n] = IF n = 0 THEN x ELSE EmitByte(g[n - 1])
      <4>1. CASE n = k + 1
        <5>1. k \in 0 .. k + 1 /\ k # k + 1 /\ n - 1 = k /\ n # 0
          BY <4>1
        <5>2. g[k] = f[k] /\ g[n] = EmitByte(f[k])
          BY <4>1, <5>1
        <5> QED
          BY <5>1, <5>2
      <4>2. CASE n # k + 1 /\ n # 0
        <5>1. n \in 0 .. k /\ n - 1 \in 0 .. k + 1 /\ n - 1 # k + 1
          BY <4>2
        <5>2. f[n] = EmitByte(f[n - 1])
          BY <3>1, <4>2, <5>1
        <5>3. g[n] = f[n] /\ g[n - 1] = f[n - 1]
          BY <4>2, <5>1
        <5> QED
          BY <4>2, <5>2, <5>3
      <4>3. CASE n = 0
        <5>1. 0 \in 0 .. k /\ 0 # k + 1
          OBVIOUS
        <5>2. f[0] = x
          BY <3>1, <5>1
        <5> QED
          BY <4>3, <5>1, <5>2
      <4> QED
        BY <4>1, <4>2, <4>3
    <3>3. Row(g, k + 1)
      BY <3>2
    <3>4. k + 1 \in Nat
      OBVIOUS
    <3> HIDE DEF g, Row
    <3> QED
      BY <3>3, <3>4
  <2> HIDE DEF Defined
  <2> QED
    BY <2>1, <2>2, SetInduction
<1> DEFINE after == CHOOSE f : Row(f, bytes)
<1>2. Emit(x, bytes) = after[bytes]
  BY DEF Emit
<1>3. Row(after, bytes)
  BY <1>1
<1>4. \A n \in 0 .. bytes : after[n] = IF n = 0 THEN x ELSE EmitByte(after[n - 1])
  BY <1>3
<1> HIDE DEF after
<1> DEFINE Inside == {n \in Nat : n <= bytes => after[n] \in S}
<1>5. 0 \in Inside
  BY <1>4
<1>6. ASSUME NEW n \in Nat, n \in Inside PROVE n + 1 \in Inside
  <2> SUFFICES ASSUME n + 1 <= bytes PROVE after[n + 1] \in S
    OBVIOUS
  <2>1. n + 1 \in 0 .. bytes /\ n + 1 # 0 /\ (n + 1) - 1 = n /\ n <= bytes
    OBVIOUS
  <2>2. after[n + 1] = EmitByte(after[n])
    BY <1>4, <2>1
  <2> QED
    BY <1>6, <2>1, <2>2
<1>7. bytes \in Inside
  <2> HIDE DEF Inside
  <2> QED
    BY <1>5, <1>6, SetInduction
<1> QED
  BY <1>2, <1>7

\* The destination while a picture is written: what is not free was emitted,
\* and there is room for a byte, unless no memory was allocated at all.
Writable ==
  {x \in [total : Int, free : Int, emitted : Nat] :
     /\ x.total - x.free = x.emitted
     /\ IF Allocated = 0 THEN x.total = 0 ELSE x.free > 0}

LEMMA EmitByteKeeps == \A x \in Writable : EmitByte(x) \in Writable
<1> SUFFICES ASSUME NEW x \in Writable PROVE EmitByte(x) \in Writable
  OBVIOUS
<1> DEFINE Destinations == [total : Int, free : Int, emitted : Nat]
<1>0. /\ x \in Destinations /\ x.total - x.free = x.emitted
      /\ IF Allocated = 0 THEN x.total = 0 ELSE x.free > 0
  BY DEF Writable
<1> DEFINE y == [x EXCEPT !.free = @ - 1, !.emitted = @ + 1]
<1>1. /\ y \in Destinations
      /\ y.free = x.free - 1 /\ y.emitted = x.emitted + 1 /\ y.total = x.total
  <2>1. PICK k \in Int, m \in Nat : k = x.free - 1 /\ m = x.emitted + 1
    BY <1>0
  <2>2. y = [x EXCEPT !.free = k, !.emitted = m]
    BY <2>1
  <2> HIDE DEF y
  <2>3. y \in Destinations /\ y.free = k /\ y.emitted = m /\ y.total = x.total
    BY <1>0, <2>2
  <2> QED
    BY ONLY <2>1, <2>3
<1>2. Enlargement \in Nat \ {0}
  BY SizeAssumption
<1> DEFINE z == [y EXCEPT !.total = @ + Enlargement, !.free = Enlargement]
<1>3. /\ z \in Destinations
      /\ z.free = Enlargement /\ z.emitted = y.emitted /\ z.total = y.total + Enlargement
  <2> HIDE DEF y
  <2>1. PICK k \in Int, m \in Int : k = y.total + Enlargement /\ m = Enlargement
    BY <1>1, <1>2
  <2>2. z = [y EXCEPT !.total = k, !.free = m]
    BY <2>1
  <2> HIDE DEF z
  <2>3. z \in Destinations /\ z.total = k /\ z.free = m /\ z.emitted = y.emitted
    BY <1>1, <2>2
  <2> QED
    BY ONLY <2>1, <2>3
<1>4. EmitByte(x) = IF y.free = 0 THEN z ELSE y
  BY DEF EmitByte, EmptyOutputBuffer
<1> HIDE DEF y, z
<1>5. CASE y.free = 0
  \* Without memory free is below 0.
  <2>1. Allocated # 0
    BY <1>0, <1>1, <1>5
  <2> QED
    BY <1>0, <1>1, <1>2, <1>3, <1>4, <1>5, <2>1 DEF Writable
<1>6. CASE y.free # 0
  BY <1>0, <1>1, <1>4, <1>6 DEF Writable
<1> QED
  BY <1>5, <1>6

\* The points of a call before its picture is complete.
Unwritten ==
  {"resolve", "socket", "download", "allocate", "create", "header", "start", "preload", "read",
   "compress", "write"}

Counting ==
  /\ pc = "write" => dest \in Writable
  /\ pc \in Unwritten => output.final = -1
  /\ FinalIsLength

LEMMA CountingStep == Inv /\ Counting /\ [Next]_vars => Counting'
<1> SUFFICES ASSUME Inv, Counting, [Next]_vars PROVE Counting'
  OBVIOUS
<1> USE DEF Unwritten
<1>0. /\ pc = "write" => dest \in Writable
      /\ pc \in Unwritten => output.final = -1
      /\ FinalIsLength
  BY DEF Counting
<1>1. ASSUME UNCHANGED <<dest, output>>, pc' # "write" \/ pc = "write",
             pc' \in Unwritten => pc \in Unwritten
      PROVE  Counting'
  BY <1>0, <1>1 DEF Counting, FinalIsLength
<1>2. CASE ReadingStep
  <2>1. UNCHANGED <<dest, output>>
    BY <1>2 DEF ReadingStep, Create, ReadHeader, StartDecompress, BadState, Preload, ReadScanlines,
      AllRead, FinishDecompress, ReadToEOI, CloseImage, result
  <2>2. pc' \in Unwritten => pc \in Unwritten
    BY <1>2 DEF ReadingStep, Create, ReadHeader, ReadMarker, ErrorExit, StartDecompress, BadState,
      Preload, ReadScanlines, AllRead, ConsumeInput, FinishDecompress, ReadToEOI, CloseImage
  <2> QED
    BY <1>1, <1>2, <2>1, <2>2, ReadingLeads
<1>3. CASE StartCompress
  <2>1. /\ pc = "compress" /\ pc' = "write" /\ UNCHANGED output
        /\ dest' = [total |-> Allocated, free |-> Allocated, emitted |-> 0]
    BY <1>3 DEF StartCompress
  <2>2. Allocated \in Nat
    BY SizeAssumption DEF Allocated
  <2>3. dest' \in Writable
    BY <2>1, <2>2 DEF Writable
  <2> QED
    BY <1>0, <2>1, <2>3 DEF Counting, FinalIsLength
<1>4. CASE WriteScanline
  <2>1. pc = "write" /\ pc' = "write" /\ UNCHANGED output
    BY <1>4 DEF WriteScanline, result
  <2>2. PICK bytes \in 0 .. MaxBytes : dest' = Emit(dest, bytes)
    BY <1>4 DEF WriteScanline
  <2>3. bytes \in Nat
    BY SizeAssumption
  <2>4. dest' \in Writable
    BY <1>0, <2>1, <2>2, <2>3, EmitKeeps, EmitByteKeeps
  <2> QED
    BY <1>0, <2>1, <2>4 DEF Counting, FinalIsLength
<1>5. CASE FinishCompress
  <2>1. PICK bytes \in 0 .. MaxBytes :
          /\ dest' = Emit(dest, bytes)
          /\ output' = [buffer |-> "picture", final |-> dest'.total - dest'.free]
    BY <1>5 DEF FinishCompress
  <2>2. pc = "write" /\ pc' = "end"
    BY <1>5 DEF FinishCompress
  <2>3. bytes \in Nat
    BY SizeAssumption
  <2>4. dest' \in Writable
    BY <1>0, <2>1, <2>2, <2>3, EmitKeeps, EmitByteKeeps
  <2>5. output'.buffer = "picture" /\ output'.final = dest'.emitted /\ output'.final # -1
    BY <2>1, <2>4 DEF Writable
  <2> QED
    BY <2>2, <2>5 DEF Counting, FinalIsLength
<1>6. CASE DestroyCompress
  BY <1>1, <1>6 DEF DestroyCompress, result
<1>7. CASE Call
  <2>1. pc' = "resolve" /\ output' = [buffer |-> "unset", final |-> -1]
    BY <1>7 DEF Call
  <2> QED
    BY <2>1 DEF Counting, FinalIsLength
<1>8. CASE Allocate
  <2>1. pc = "allocate" /\ output = [buffer |-> "unset", final |-> -1]
    BY <1>8 DEF Allocate, Inv, Releases
  <2>2. PICK b \in {"null", "download"} : output' = [output EXCEPT !.buffer = b]
    BY <1>8 DEF Allocate
  <2>3. output'.buffer # "picture" /\ output'.final = -1 /\ pc' # "write"
    BY <1>8, <2>1, <2>2 DEF Allocate
  <2> QED
    BY <2>3 DEF Counting, FinalIsLength
<1>9. CASE GetAddrInfo \/ Socket \/ Exchange \/ Cleanup \/ SendReply \/ LibraryError \/ Exit
  BY <1>1, <1>9 DEF GetAddrInfo, Socket, Exchange, Cleanup, SendReply, LibraryError, Exit,
    ErrorExit, result
<1>10. CASE UNCHANGED vars
  BY <1>1, <1>10 DEF vars
<1> QED
  BY <1>2, <1>3, <1>4, <1>5, <1>6, <1>7, <1>8, <1>9, <1>10 DEF Next, Step, ReadingStep

LEMMA CountingHolds == Spec => []Counting
<1>1. Init => Counting
  BY DEF Init, Counting, Unwritten, FinalIsLength
<1> QED
  BY <1>1, CountingStep, InvHolds, PTL DEF Spec

\* The reply says for the picture how many bytes write_JPEG_file has emitted,
\* for pictures of any size for which init_destination allocates anything, and
\* however often empty_output_buffer has to enlarge the memory.
THEOREM LengthOfThePicture ==
  ASSUME Allocated # 0
  PROVE  Spec => []FinalIsLength
BY CountingHolds, PTL DEF Counting

\* While a picture is written, the destination has room for the next byte
\* (emit_byte stores first and looks at free_in_buffer after), and the bytes
\* emitted so far and the free ones make up all of its memory.  That is so of
\* every image but those whose size is a multiple of 2^32, as 32768 rows of
\* 32768 pixels of four bytes: init_destination asks for no memory then, and
\* from the first byte on everything is written beyond it.
THEOREM ByteHasRoom ==
  Spec => [](pc = "write" =>
               /\ dest.emitted = dest.total - dest.free
               /\ IF RawSize % SizeLimit = 0 THEN dest.total = 0
                  ELSE dest.free \in 1 .. dest.total)
<1>1. ASSUME Counting, pc = "write"
      PROVE  /\ dest.emitted = dest.total - dest.free
             /\ IF RawSize % SizeLimit = 0 THEN dest.total = 0
                ELSE dest.free \in 1 .. dest.total
  <2>1. dest \in Writable
    BY <1>1 DEF Counting
  <2> QED
    BY <2>1 DEF Writable, Allocated
<1> QED
  BY <1>1, CountingHolds, PTL

=============================================================================
