----------------------------- MODULE ProxyHttp -----------------------------
(***************************************************************************)
(* How the proxy reads a request: ml_http_parseStatus and ml_http_isJpeg   *)
(* in http.c, and the tests processConnection in worker.c makes of their   *)
(* results.                                                                *)
(*                                                                         *)
(* A buffer is a sequence of characters; the C position p is buffer[p+1].  *)
(* The first count of them came with this request; behind them the buffer  *)
(* holds what an earlier one left, and the code does look there: to tell a *)
(* port from a uri, which comes to nothing, and to tell an image from      *)
(* another resource, which may (UriEndsRequest).                           *)
(***************************************************************************)
EXTENDS Integers, Sequences, SequencesExt, FiniteSetsExt

CONSTANTS MAX_PORT,   \* 65535 in the code
          PORT_SIZE,  \* sizeof(ascii), 10 in the code
          OPTIMIZE    \* main.c: the proxy was started to shrink images

ASSUME PortAssumption == MAX_PORT \in Nat /\ PORT_SIZE \in Nat /\ OPTIMIZE \in BOOLEAN

Digits == <<"0", "1", "2", "3", "4", "5", "6", "7", "8", "9">>
Space == {" ", "\r", "\n", "\t"}

Char(buffer, p) == buffer[p + 1]
Slice(buffer, from, to) == SubSeq(buffer, from + 1, to)

\* while (search - input < count && *search is none of stop) ++search
Until(buffer, from, count, stop) ==
  Min({p \in from .. (IF count > from THEN count ELSE from) :
         p >= count \/ Char(buffer, p) \in stop})

\* strncmp(word, ..., n) == 0 where the n characters are text: text may be
\* shorter than word, and even empty.
Matches(text, word) == IsPrefix(text, word)

\* toLower, as far as the comparison with "http" can see it.
Lower(c) == CASE c = "H" -> "h" [] c = "T" -> "t" [] c = "P" -> "p" [] OTHER -> c

\* atoi reads white space, perhaps a sign, and digits, and stops behind them.  Of
\* the texts it is asked for, none has more digits than there is room for in an int.
ReadNumber(text) ==
  LET NotIn(set) == ToSet(text) \ set
      space == Until(text, 0, Len(text), NotIn(Space))
      Signed(signs) == space < Len(text) /\ Char(text, space) \in signs
      first == space + (IF Signed({"+", "-"}) THEN 1 ELSE 0)
      last == Until(text, first, Len(text), NotIn(ToSet(Digits)))
      value == FoldLeft(LAMBDA n, c : 10 * n + (CHOOSE d \in 0 .. 9 : Digits[d + 1] = c),
                        0, Slice(text, first, last))
  IN [value |-> IF Signed({"-"}) THEN -value ELSE value, end |-> last]

Atoi(text) == ReadNumber(text).value

(***************************************************************************)
(* The text of a port is copied to ascii without a limit: it may run over  *)
(* its end, or fill it, so that atoi finds no end of the digits in it.     *)
(* What the code does then is not defined.                                 *)
(***************************************************************************)
Overruns(text) ==
  \/ Len(text) > PORT_SIZE
  \/ Len(text) = PORT_SIZE /\ ReadNumber(text).end = PORT_SIZE

Rejected == [status |-> "ERROR"]
Undefined == [status |-> "UNDEFINED"]

(***************************************************************************)
(* The end of host or port has to be inside of the request and a '/'.      *)
(* UriStartsAnywhere believes the character alone.                         *)
(***************************************************************************)
UriStartsAnywhere(buffer, p, count) == Char(buffer, p) = "/"
UriStartsAt(buffer, p, count) == p < count /\ Char(buffer, p) = "/"

ParseUri(buffer, count, method, schema, host, port, p) ==
  [status |-> "SUCCESS", method |-> method, schema |-> schema, host |-> host,
   port |-> port, at |-> p, uri |-> Slice(buffer, p, Until(buffer, p, count, Space))]

HostEnd == {":", "/"}

ParseAbsolute(buffer, count, method, p) ==
  LET colon == Until(buffer, p, count, {":"})
      schema == [k \in 1 .. colon - p |-> Lower(Char(buffer, p + k - 1))]
      host == colon + 3
      hostEnd == Until(buffer, host, count, HostEnd)
      hasPort == Char(buffer, hostEnd) = ":"
      portEnd == Until(buffer, hostEnd + 1, count, {"/"})
      ascii == IF hasPort THEN Slice(buffer, hostEnd + 1, portEnd) ELSE <<>>
      port == IF hasPort THEN Atoi(ascii) ELSE 0
      uri == IF hasPort THEN portEnd ELSE hostEnd
  IN IF host >= count \/ (hasPort /\ hostEnd + 1 >= count) THEN Rejected
     ELSE IF hasPort /\ Overruns(ascii) THEN Undefined
     ELSE IF (hasPort /\ port \notin 1 .. MAX_PORT) \/ ~UriStartsAt(buffer, uri, count)
     THEN Rejected
     ELSE ParseUri(buffer, count, method,
                   IF Matches(schema, <<"h", "t", "t", "p">>) THEN "HTTP" ELSE "UNKNOWN",
                   Slice(buffer, host, hostEnd), port, uri)

ml_http_parseStatus(buffer, count) ==
  LET methodEnd == Until(buffer, 0, count, {" "})
      method == IF Matches(Slice(buffer, 0, methodEnd), <<"G", "E", "T">>)
                THEN "GET" ELSE "UNKNOWN"
      p == methodEnd + 1
  IN IF p >= count THEN Rejected
     ELSE IF Char(buffer, p) = "/"
          THEN ParseUri(buffer, count, method, "UNKNOWN", <<>>, 0, p)
          ELSE ParseAbsolute(buffer, count, method, p)

(***************************************************************************)
(* From the last '/' the first '.', or three characters before the end;    *)
(* and "jpg" behind it, of which the "g" may be the character behind the   *)
(* resource.                                                               *)
(***************************************************************************)
ml_http_isJpeg(buffer, start, length) ==
  LET slash == Max({p \in 0 .. length - 1 : p = 0 \/ Char(buffer, start + p) = "/"})
      dot == Until(buffer, start + slash, start + length - 3, {"."})
  IN /\ Char(buffer, dot) = "."
     /\ Char(buffer, dot + 1) = "j"
     /\ Char(buffer, dot + 2) = "p"
     /\ Char(buffer, dot + 3) = "g"

Refused(message) == [answer |-> message]

\* processConnection, after the read: what is to be done for this request.
processConnection(buffer, count) ==
  LET request == ml_http_parseStatus(buffer, count)
  IN IF request.status = "ERROR" THEN Refused("failed to parse")
     ELSE IF request.status = "UNDEFINED" THEN Refused("undefined")
     ELSE IF request.method # "GET" THEN Refused("invalid method")
     ELSE IF request.schema # "HTTP" THEN Refused("invalid schema")
     ELSE [by |-> IF OPTIMIZE /\ ml_http_isJpeg(buffer, request.at, Len(request.uri))
                  THEN "processJPG" ELSE "processProxyRequest",
           host |-> request.host,
           port |-> IF request.port = 0 THEN 80 ELSE request.port,
           uri |-> request.uri]

\* The uri is the end of what was received, not of a line: the byte behind it is
\* of an earlier request.
UriEndsRequest(buffer, count) ==
  LET request == ml_http_parseStatus(buffer, count)
  IN request.status = "SUCCESS" /\ request.at + Len(request.uri) = count

=============================================================================
