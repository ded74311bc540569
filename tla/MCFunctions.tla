---------------------------- MODULE MCFunctions ----------------------------
(***************************************************************************)
(* The functions of ProxyHttp, ServerUrl, ClientRequest, JpegRestart and   *)
(* JpegHuffman, each checked on all short inputs against a definition of   *)
(* what it is to compute; and those of MCJpeg, MCJpegBlocks and            *)
(* MCJpegPalette.                                                          *)
(***************************************************************************)
EXTENDS ProxyHttp, ServerUrl, ClientRequest, JpegRestart, JpegHuffman, MCJpeg,
        MCJpegBlocks, MCJpegPalette

CONSTANTS MaxRest,   \* characters behind "GET http://"
          MaxUri,    \* characters of a uri for ml_http_isJpeg
          MaxUrl,    \* characters of a url for resolveURL
          RAND_MAX,
          MaxSegments, \* segments of a scan
          Intervals    \* intervals of the image

Strings(chars, n) == UNION {[1 .. k -> chars] : k \in 0 .. n}
Paths(chars, n) == {<<"/">> \o s : s \in Strings(chars, n)}

\* Codes for six symbols: runs of up to RUN = 2, and sizes of up to two bits.
Tables == {bits \in [1 .. MAX_LENGTH -> 0 .. 4] : SumFunction(bits) = 6 /\ Legal(bits)}
Blocks == {b \in [1 .. DCTSIZE2 -> {-3, 0, 1}] : b[1] # 1}

Init == InputInit /\ ArrayInit /\ DecompressorInit

FunctionsNext ==
  \/ Choose
  \/ Give("parse", Strings({"/", ":", "a", "1", "0", " "}, MaxRest))
  \/ Give("jpeg", Paths({"/", ".", "j", "p", "g"}, MaxUri))
  \/ Give("url", Paths({"/", ".", "a"}, MaxUrl))
  \/ Give("index", {<<n>> : n \in 1 .. RAND_MAX})
  \/ Give("blocks", Tables \X Blocks)
  \/ Give("scan", Strings(-1 .. 4, MaxSegments))
  \/ JpegNext
  \/ PixelsNext
  \/ BlocksNext
  \/ PaletteNext

inputs == <<function, argument, given>>

Next ==
  \/ FunctionsNext /\ UNCHANGED <<arrayVars, decompressorVars>>
  \/ function = "array" /\ ArrayNext /\ UNCHANGED <<inputs, decompressorVars>>
  \/ function = "decompressor" /\ DecompressorNext /\ UNCHANGED <<inputs, arrayVars>>

Spec == Init /\ [][Next]_<<inputs, arrayVars, decompressorVars>>

-----------------------------------------------------------------------------
(* A request to the proxy: a text behind a fixed beginning, and what the   *)
(* buffer holds behind the request.                                        *)

Opening == <<"G", "E", "T", " ", "H", "t", "T", "p", ":", "/", "/">>

Parsed(text, stale) ==
  processConnection(Opening \o text \o stale, Len(Opening) + Len(text))

\* The port of the request leaves no room in ascii for the end of the text.
PortFillsBuffer(text) ==
  \E colon \in DOMAIN text :
    /\ text[colon] = ":"
    /\ {":", "/"} \cap ToSet(SubSeq(text, 1, colon - 1)) = {}
    /\ colon + PORT_SIZE <= Len(text)
    /\ "/" \notin ToSet(SubSeq(text, colon + 1, colon + PORT_SIZE))

\* All ways to read a request as host, port and uri, the uri up to a space.
Readings(text) ==
  {r \in [host : 0 .. Len(text), port : 0 .. Len(text), uri : 1 .. Len(text)] :
     /\ {":", "/"} \cap ToSet(SubSeq(text, 1, r.host)) = {}
     /\ \/ r.port = r.host
        \/ r.port > r.host /\ text[r.host + 1] = ":"
             /\ "/" \notin ToSet(SubSeq(text, r.host + 1, r.port))
             /\ Atoi(SubSeq(text, r.host + 2, r.port)) \in 1 .. MAX_PORT
     /\ r.uri > r.port
     /\ text[r.port + 1] = "/"
     /\ " " \notin ToSet(SubSeq(text, r.port + 1, r.uri))
     /\ r.uri = Len(text) \/ text[r.uri + 1] = " "}

(***************************************************************************)
(* A request is parsed into its parts: as the one way to read it says, and *)
(* one that cannot be read in any way is refused.  What the buffer holds   *)
(* behind the bytes of this request does not matter, wherever the request  *)
(* ends, though the parser looks at the character behind the last one to   *)
(* tell a port from a uri.  All this as long as the port has fewer         *)
(* characters than ascii: of one that has more nothing can be said.        *)
(***************************************************************************)
RequestIsParsed ==
  Given("parse") /\ ~PortFillsBuffer(argument) =>
    LET readings == Readings(argument)
        right == IF readings = {} THEN {Refused("failed to parse")}
                 ELSE {[by |-> "processProxyRequest",
                        host |-> SubSeq(argument, 1, r.host),
                        port |-> IF r.port = r.host THEN 80
                                 ELSE Atoi(SubSeq(argument, r.host + 2, r.port)),
                        uri |-> SubSeq(argument, r.port + 1, r.uri)] : r \in readings}
    IN \A stale \in {<<" ", " ">>, <<"/", " ">>, <<":", "1">>} : Parsed(argument, stale) \in right

-----------------------------------------------------------------------------

Dot(name) == SelectInSeq(name, LAMBDA c : c = ".")
Extension(name) == SubSeq(name, Dot(name) + 1, Len(name))
HasOneDot(name) == Dot(name) > 0 /\ Dot(Extension(name)) = 0

(***************************************************************************)
(* In a request that goes on behind its uri: of the names with one dot and *)
(* at most three characters behind it, those that end in .jpg are sent to  *)
(* the rpc server, and no others.  No name at all is, that has no .jpg in  *)
(* it, whatever the directories are called.                                *)
(*                                                                         *)
(* In a request that ends with its uri the same holds whatever an earlier  *)
(* one has left behind it, with one exception: of a name that ends in .jp  *)
(* the byte behind the request may make an image.                          *)
(***************************************************************************)
JpegByName ==
  Given("jpeg") =>
    LET Shrunk(text, stale) ==
          Parsed(<<"h">> \o text, stale \o <<"j", "p", "g">>).by = "processJPG"
        isJpeg == Shrunk(argument \o <<" ">>, <<>>)
        name == SubSeq(argument, SelectLastInSeq(argument, LAMBDA c : c = "/") + 1,
                       Len(argument))
        jp == <<".", "j", "p">>
        jpg == <<"j", "p", "g">>
    IN /\ HasOneDot(name) /\ Len(Extension(name)) <= 3 =>
            isJpeg = (Extension(name) = jpg)
       /\ isJpeg => \E k \in DOMAIN name : SubSeq(name, k, k + 3) = <<".">> \o jpg
       /\ \A stale \in {" ", ".", "/", "g"} :
            \/ Shrunk(argument, <<stale>>) = isJpeg
            \/ IsSuffix(jp, name) /\ stale = "g"

\* What the proxy reads, it reads right: a request, and the name of an image.
HttpIsRead == RequestIsParsed /\ JpegByName

-----------------------------------------------------------------------------

RootDir == <<"/", "r", "/", "s", "/", "t", "/", "u">>

\* The names between the slashes of a path.
Names(path) ==
  LET slashes == SelectSeq([k \in DOMAIN path |-> k], LAMBDA k : path[k] = "/")
  IN [i \in DOMAIN slashes |->
        SubSeq(path, slashes[i] + 1,
               IF i = Len(slashes) THEN Len(path) ELSE slashes[i + 1] - 1)]

\* Walking down from the top; the last name is not a directory's.
Walk(directories, name) ==
  CASE name = <<".">> -> directories
    [] name = <<".", ".">> -> IF directories = <<>> THEN <<>> ELSE Front(directories)
    [] OTHER -> Append(directories, name)

Resolved(url) ==
  LET names == Names(RootDir \o url)
      kept == Append(FoldLeft(Walk, <<>>, Front(names)), Last(names))
  IN FlattenSeq([i \in DOMAIN kept |-> <<"/">> \o kept[i]])

Memory(character) == [k \in 1 .. Len(RootDir) + MaxUrl + 11 |-> character]

(***************************************************************************)
(* A url leads where walking from the root directory leads, however "/./"  *)
(* and "/../" follow each other and empty names: as long as the memory for *)
(* the result held no '/' before.                                          *)
(***************************************************************************)
ResolvesOverFreshMemory ==
  Given("url") => resolveURL(RootDir, argument, Memory("NUL")) = Resolved(argument)

\* resolveURL handles directory changes (http.c: "resolve the url, handling
\* directory changes"), whatever its memory was used for before.
HandlesDirectoryChanges ==
  Given("url") =>
    \A old \in {"NUL", "a", "/"} :
      resolveURL(RootDir, argument, Memory(old)) = Resolved(argument)

-----------------------------------------------------------------------------

(***************************************************************************)
(* The files that are asked for are among numFiles, counted from 0; and    *)
(* all of them are when there are not too many for the generator.          *)
(***************************************************************************)
FilesAskedFor ==
  Given("index") =>
    LET n == argument[1]
        asked == {FileIndex(r, RAND_MAX, n) : r \in 0 .. RAND_MAX}
    IN /\ asked \subseteq 0 .. n - 1
       /\ n - 1 <= RAND_MAX \div n => asked = 0 .. n - 1

\* Requests, urls and the client's choice: what the programs do with text.
TextIsRead == HttpIsRead /\ ResolvesOverFreshMemory /\ FilesAskedFor

-----------------------------------------------------------------------------
(* A damaged scan.  Interval 0 is there.  The argument tells how far each  *)
(* segment is from the last interval before it: 1 in a whole scan, 2 or 3  *)
(* when one or two segments are lost with their markers, 0 or -1 when      *)
(* segments that were there already come again.  Stray is a marker that    *)
(* belongs to nothing.                                                     *)

Stray == 4
Furthest(jumps) == FoldLeft(LAMBDA far, j : IF j \in 1 .. 3 THEN far + j ELSE far, 0, jumps)

Present ==
  {0} \cup {Furthest(SubSeq(argument, 1, k)) :
            k \in {i \in DOMAIN argument : argument[i] \in 1 .. 3}}

Segments ==
  FlattenSeq([k \in DOMAIN argument |->
    LET interval == Furthest(SubSeq(argument, 1, k - 1)) + argument[k]
    IN IF argument[k] = Stray THEN <<Marker(Reserved)>>
       ELSE IF interval < 1 THEN <<>>
       ELSE <<Marker((interval - 1) % 8), Data(interval)>>])

(***************************************************************************)
(* With up to two restart markers in a row lost, or segments repeated from *)
(* up to two back, and strays between the segments, everything that has    *)
(* arrived is decoded into its own place and the rest is filled, also      *)
(* where the numbers of the markers wrap around; and the marker behind the *)
(* scan is still to be read.                                               *)
(***************************************************************************)
DecodedInPlace ==
  Given("scan") =>
    LET end == DecodeScan(<<Data(0)>> \o Segments, Intervals)
    IN /\ end.image = [k \in 1 .. Intervals |->
                         IF k - 1 \in Present THEN k - 1 ELSE Filled]
       /\ Furthest(argument) < Intervals - 1 => end.unread = EOI

-----------------------------------------------------------------------------

\* Two blocks in a row; `one' is the first as it was decoded.
SecondComesThrough(table, one, second) ==
  DecodeBlock(table, one.rest, one.block[1]).block = second
ComeThrough(table, first, second) ==
  LET data == FillBitBuffer(EmitBits(EncodeBlock(table, first, 0) \o EncodeBlock(table, second, first[1])))
      Decoded(one) == one.block = first /\ SecondComesThrough(table, one, second)
  IN Decoded(DecodeBlock(table, data, 0))

(***************************************************************************)
(* Blocks of coefficients come through the encoder and the decoder as they *)
(* were, for every code table: with values below zero, runs of zeros that  *)
(* are too long for a symbol, bytes that look like a marker, and a last    *)
(* code for which there are not enough bits to look ahead.                 *)
(***************************************************************************)
BlocksComeThrough ==
  Given("blocks") =>
    \A second \in {Zeros(DCTSIZE2), [Zeros(DCTSIZE2) EXCEPT ![DCTSIZE2] = -1]} :
      ComeThrough(DeriveTable(argument[1]), argument[2], second)

\* What a scan says, in its segments, in its blocks and in its bands.
ScanIsDecoded == DecodedInPlace /\ BlocksComeThrough /\ BandsComeThrough

=============================================================================
