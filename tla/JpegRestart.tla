---------------------------- MODULE JpegRestart ----------------------------
(***************************************************************************)
(* How the JPEG decoder keeps its place in a scan with restart markers:    *)
(* decode_mcu, process_restart and jpeg_fill_bit_buffer in jdhuff.c,       *)
(* next_marker, read_restart_marker and jpeg_resync_to_restart in          *)
(* jdmarker.c.                                                             *)
(*                                                                         *)
(* The scan is a sequence of items: the data of an interval of the image,  *)
(* and markers.  Restart markers have the numbers 0 .. 7, over and over;   *)
(* Reserved is no legal marker and stands for all of them, EOI for all     *)
(* other markers that end the scan, and for the end of the file.           *)
(***************************************************************************)
EXTENDS Integers, Sequences, SequencesExt

Marker(number) == [kind |-> "marker", value |-> number]
Data(interval) == [kind |-> "data", value |-> interval]

None == -1
Reserved == 8
EOI == 9

\* The interval is filled up, as its data is not known.
Filled == -1

\* next_marker: the first marker from here on, past any data.
next_marker(s) ==
  LET at == SelectInSeq(s.rest, LAMBDA item : item.kind = "marker")
  IN IF at = 0 THEN [s EXCEPT !.rest = <<>>, !.unread = EOI]
     ELSE [s EXCEPT !.rest = SubSeq(@, at + 1, Len(@)), !.unread = s.rest[at].value]

(***************************************************************************)
(* What to do about a marker that was not expected: go on behind it,       *)
(* advance to the next one, or leave it, so that the interval gets no      *)
(* data.  OneAhead takes one lost marker into account, the code two.       *)
(***************************************************************************)
OneAhead(desired) == {(desired + 1) % 8}
Ahead(desired) == {(desired + 1) % 8, (desired + 2) % 8}
Behind(desired) == {(desired - 1) % 8, (desired - 2) % 8}

Action(marker, desired) ==
  CASE marker = Reserved -> "advance"
    [] marker = EOI -> "leave"
    [] marker \in Ahead(desired) -> "leave"
    [] marker \in Behind(desired) -> "advance"
    [] OTHER -> "discard"

\* Each advance takes at least one item away, and the end of the scan is left.
jpeg_resync_to_restart(state, desired) ==
  LET resync[n \in 0 .. Len(state.rest) + 1] ==
        IF n = 0 THEN state
        ELSE IF Action(resync[n - 1].unread, desired) = "advance"
             THEN next_marker(resync[n - 1]) ELSE resync[n - 1]
      there == resync[Len(state.rest) + 1]
  IN IF Action(there.unread, desired) = "discard"
     THEN [there EXCEPT !.unread = None] ELSE there

read_restart_marker(s) ==
  LET found == IF s.unread = None THEN next_marker(s) ELSE s
      past == IF found.unread = s.nextRestart THEN [found EXCEPT !.unread = None]
              ELSE jpeg_resync_to_restart(found, s.nextRestart)
  IN [past EXCEPT !.nextRestart = (@ + 1) % 8]

\* The flag that the data has run out stays when a marker was left.
process_restart(s) ==
  LET past == read_restart_marker(s)
  IN IF past.unread = None THEN [past EXCEPT !.insufficient = FALSE] ELSE past

\* The MCUs of an interval: from the data that is next, if there is any before
\* a marker; zeroes when there is none.
decode_interval(s) ==
  IF s.insufficient THEN [s EXCEPT !.image = Append(@, Filled)]
  ELSE IF s.unread = None /\ s.rest # <<>> /\ Head(s.rest).kind = "data"
  THEN [s EXCEPT !.rest = Tail(@), !.image = Append(@, Head(s.rest).value)]
  ELSE [IF s.unread = None THEN next_marker(s) ELSE s EXCEPT
          !.insufficient = TRUE, !.image = Append(@, Filled)]

StartOfScan(items) ==
  [rest |-> items, unread |-> None, nextRestart |-> 0, insufficient |-> FALSE,
   image |-> <<>>]

\* decode_mcu for a scan of so many intervals.
DecodeScan(items, intervals) ==
  LET after[n \in 1 .. intervals] ==
        IF n = 1 THEN decode_interval(StartOfScan(items))
        ELSE decode_interval(process_restart(after[n - 1]))
  IN after[intervals]

=============================================================================
