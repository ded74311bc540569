---------------------------- MODULE JpegMarkers ----------------------------
(***************************************************************************)
(* The markers of a JPEG file: how jcmarker.c writes the headers of a file *)
(* with their tables, each table once, and how jdmarker.c reads them from  *)
(* a source that may have to wait for more data anywhere.                  *)
(*                                                                         *)
(* A block has DCTSIZE rows here, and a Huffman code CODE_LENGTHS lengths. *)
(***************************************************************************)
EXTENDS Integers, Sequences, SequencesExt, TLC

CONSTANTS DCTSIZE, CODE_LENGTHS, NUM_TBLS

NumValues == DCTSIZE * DCTSIZE

SOF0 == 192
SOF1 == 193
SOF2 == 194
SOF9 == 201
SOF10 == 202
DHT == 196
DAC == 204
RST0 == 208
SOI == 216
EOI == 217
SOS == 218
DQT == 219
DNL == 220
DRI == 221
APP0 == 224
APP14 == 238
COM == 254
TEM == 1

JFIF == <<74, 70, 73, 70, 0>>
Adobe == <<65, 100, 111, 98, 101>>

\* The places of a block along its diagonals, up and down by turns.
Diagonal(p) == (p \div DCTSIZE) + (p % DCTSIZE)
ComesBefore(p, q) ==
  \/ Diagonal(p) < Diagonal(q)
  \/ Diagonal(p) = Diagonal(q) /\ (p < q) = (Diagonal(p) % 2 = 1) /\ p # q
jpeg_natural_order == SortSeq([k \in 1 .. NumValues |-> k - 1], ComesBefore)

TwoBytes(value) == <<(value \div 256) % 256, value % 256>>
Number(b, k) == b[k] * 256 + b[k + 1]
Lesser(a, b) == IF a < b THEN a ELSE b

-----------------------------------------------------------------------------
(* The writer.  c is the compress object; out has a segment per marker.    *)

Emit(c, segment) == [c EXCEPT !.out = Append(@, segment)]
Segment(marker, data) == <<255, marker>> \o TwoBytes(Len(data) + 2) \o data

Prec(table) == IF \E k \in DOMAIN table.quantval : table.quantval[k] > 255 THEN 1 ELSE 0

\* Tables that were sent are not sent again.
emit_dqt(c, index) ==
  LET table == c.quant[index]
      Value(k) == LET q == table.quantval[jpeg_natural_order[k]]
                  IN IF Prec(table) = 1 THEN TwoBytes(q) ELSE <<q>>
  IN IF table.sent_table THEN c
     ELSE Emit([c EXCEPT !.quant[index].sent_table = TRUE],
               Segment(DQT, <<index + 16 * Prec(table)>>
                              \o FlattenSeq([k \in 1 .. NumValues |-> Value(k)])))

emit_dht(c, index, is_ac) ==
  LET class == IF is_ac THEN "ac" ELSE "dc"
      table == c[class][index]
  IN IF table.sent_table THEN c
     ELSE Emit([c EXCEPT ![class][index].sent_table = TRUE],
               Segment(DHT, <<IF is_ac THEN index + 16 ELSE index>>
                              \o table.bits \o table.huffval))

emit_dri(c) == Emit(c, Segment(DRI, TwoBytes(c.restart_interval)))

emit_sof(c, code) ==
  Emit(c, Segment(code,
    <<c.data_precision>> \o TwoBytes(c.image_height) \o TwoBytes(c.image_width)
    \o <<Len(c.comp_info)>>
    \o FlattenSeq([ci \in DOMAIN c.comp_info |->
         LET comp == c.comp_info[ci]
         IN <<comp.id, comp.h * 16 + comp.v, comp.quant>>])))

\* In progressive mode a scan uses tables of one kind, and a refinement of DC
\* none; the fields of the others are 0.
UsesDC(c) == ~c.progressive_mode \/ (c.Ss = 0 /\ c.Ah = 0)
UsesAC(c) == ~c.progressive_mode \/ c.Ss # 0

emit_sos(c) ==
  Emit(c, Segment(SOS,
    <<Len(c.cur_comp_info)>>
    \o FlattenSeq([i \in DOMAIN c.cur_comp_info |->
         LET comp == c.comp_info[c.cur_comp_info[i]]
         IN <<comp.id, (IF UsesDC(c) THEN comp.dc * 16 ELSE 0)
                        + (IF UsesAC(c) THEN comp.ac ELSE 0)>>])
    \o <<c.Ss, c.Se, c.Ah * 16 + c.Al>>))

emit_jfif_app0(c) ==
  Emit(c, Segment(APP0, JFIF \o <<c.jfif.major, c.jfif.minor, c.jfif.unit>>
                          \o TwoBytes(c.jfif.X) \o TwoBytes(c.jfif.Y) \o <<0, 0>>))

emit_adobe_app14(c) ==
  Emit(c, Segment(APP14, Adobe \o TwoBytes(100) \o TwoBytes(0) \o TwoBytes(0)
                           \o <<c.Adobe_transform>>))

write_file_header(c) ==
  LET soi == [Emit(c, <<255, SOI>>) EXCEPT !.last_restart_interval = 0]
      app0 == IF c.write_JFIF_header THEN emit_jfif_app0(soi) ELSE soi
  IN IF c.write_Adobe_marker THEN emit_adobe_app14(app0) ELSE app0

IsBaseline(c) ==
  /\ ~c.progressive_mode /\ c.data_precision = 8
  /\ \A ci \in DOMAIN c.comp_info :
       /\ c.comp_info[ci].dc <= 1 /\ c.comp_info[ci].ac <= 1
       /\ Prec(c.quant[c.comp_info[ci].quant]) = 0

write_frame_header(c) ==
  LET tables == FoldLeft(LAMBDA x, comp : emit_dqt(x, comp.quant), c, c.comp_info)
  IN emit_sof(tables, IF c.progressive_mode THEN SOF2
                      ELSE IF IsBaseline(c) THEN SOF0 ELSE SOF1)

write_scan_header(c) ==
  LET Tables(x, ci) ==
        LET comp == c.comp_info[ci]
            dc == IF UsesDC(c) THEN emit_dht(x, comp.dc, FALSE) ELSE x
        IN IF UsesAC(c) THEN emit_dht(dc, comp.ac, TRUE) ELSE dc
      tables == FoldLeft(Tables, c, c.cur_comp_info)
      dri == IF c.restart_interval # c.last_restart_interval
             THEN [emit_dri(tables) EXCEPT !.last_restart_interval = c.restart_interval]
             ELSE tables
  IN emit_sos(dri)

write_file_trailer(c) == Emit(c, <<255, EOI>>)

\* Every table that is there, for a file with only these.
write_tables_only(c) ==
  LET indices == [k \in 1 .. NUM_TBLS |-> k - 1]
      quant == FoldLeft(emit_dqt, Emit(c, <<255, SOI>>), indices)
      huff == FoldLeft(LAMBDA x, i : emit_dht(emit_dht(x, i, FALSE), i, TRUE), quant, indices)
  IN Emit(huff, <<255, EOI>>)

-----------------------------------------------------------------------------
(* The reader.  d is the decompress object, d.src the bytes that its       *)
(* source holds, from the restart point on.  A routine for a marker works  *)
(* on as much as is there; if it is not all, what it has assigned stays    *)
(* assigned, but the restart point does not move, and it runs again from   *)
(* there.                                                                  *)

Suspend(d) == [d EXCEPT !.result = "suspended"]
Fail(d) == [d EXCEPT !.result = "error"]
Done(d, n) == [d EXCEPT !.src = SubSeq(@, n + 1, Len(@)), !.result = "done"]

\* A field that is assigned from the byte at k, or from two, if they are there.
Byte(b, k, old) == IF Len(b) < k THEN old ELSE b[k]
Word(b, k, old) == IF Len(b) < k + 1 THEN old ELSE Number(b, k)

NoMarker == [marker |-> 0]
NoJFIF == [seen |-> FALSE, major |-> 1, minor |-> 1, unit |-> 0, X |-> 1, Y |-> 1]

get_soi(d) ==
  IF d.saw_SOI THEN Fail(d)
  ELSE Done([d EXCEPT !.saw_SOI = TRUE, !.restart_interval = 0,
                      !.jfif = NoJFIF, !.Adobe_transform = -1], 0)

NewComponent == [id |-> -1, h |-> -1, v |-> -1, quant |-> -1, dc |-> -1, ac |-> -1]

get_sof(d, is_prog, is_arith) ==
  LET b == d.src
      frame == [d EXCEPT !.progressive_mode = is_prog, !.arith_code = is_arith,
                         !.data_precision = Byte(b, 3, @), !.image_height = Word(b, 4, @),
                         !.image_width = Word(b, 6, @), !.num_components = Byte(b, 8, @)]
      num == frame.num_components
      Component(comp, at) ==
        [comp EXCEPT !.id = Byte(b, at, @), !.quant = Byte(b, at + 2, @),
                     !.h = IF Len(b) > at THEN b[at + 1] \div 16 ELSE @,
                     !.v = IF Len(b) > at THEN b[at + 1] % 16 ELSE @]
      old == IF d.comp_info = <<>> THEN [ci \in 1 .. num |-> NewComponent] ELSE d.comp_info
      all == [frame EXCEPT !.comp_info =
                [ci \in 1 .. num |-> Component(old[ci], 9 + 3 * (ci - 1))]]
  IN IF Len(b) < 8 THEN Suspend(frame)
     ELSE IF d.saw_SOF \/ 0 \in {frame.image_height, frame.image_width, num}
                       \/ Number(b, 1) - 8 # 3 * num THEN Fail(frame)
     ELSE IF Len(b) < 8 + 3 * num THEN Suspend(all)
     ELSE Done([all EXCEPT !.saw_SOF = TRUE], 8 + 3 * num)

get_sos(d) ==
  LET b == d.src
      n == b[3]
      known == {i \in 1 .. n : Len(b) >= 3 + 2 * i}
      IndexOf(i) == SelectInSeq(d.comp_info, LAMBDA comp : comp.id = b[2 + 2 * i])
      scan == [d EXCEPT !.cur_comp_info = [i \in 1 .. Cardinality(known) |-> IndexOf(i)]]
      Tables(x, i) == [x EXCEPT !.comp_info[IndexOf(i)].dc = b[3 + 2 * i] \div 16,
                                !.comp_info[IndexOf(i)].ac = b[3 + 2 * i] % 16]
      tables == FoldLeft(Tables, scan, [i \in 1 .. Cardinality(known) |-> i])
      last == 3 + 2 * n
  IN IF ~d.saw_SOF THEN Fail(d)
     ELSE IF Len(b) < 3 THEN Suspend(d)
     ELSE IF Number(b, 1) # 2 * n + 6 \/ n \notin 1 .. 4 THEN Fail(d)
     ELSE IF \E i \in known : IndexOf(i) = 0 THEN Fail(d)
     ELSE IF Len(b) < last + 3 THEN Suspend(tables)
     ELSE Done([tables EXCEPT !.Ss = b[last + 1], !.Se = b[last + 2],
                              !.Ah = b[last + 3] \div 16, !.Al = b[last + 3] % 16,
                              !.next_restart_num = 0, !.input_scan_number = @ + 1],
               last + 3)

\* The tables of a DHT, one after another from byte `at' on; each is put in
\* its place when it is complete.
RECURSIVE DefineHuff(_, _, _)
DefineHuff(d, at, end) ==
  LET b == d.src
      counts == SubSeq(b, at + 1, at + CODE_LENGTHS)
      count == FoldLeft(+, 0, counts)
      values == at + CODE_LENGTHS
      class == IF b[at] \div 16 = 1 THEN "ac" ELSE "dc"
      index == b[at] - (IF class = "ac" THEN 16 ELSE 0)
  IN IF end - at < CODE_LENGTHS THEN IF at = end THEN Done(d, end - 1) ELSE Fail(d)
     ELSE IF Len(b) < values THEN Suspend(d)
     ELSE IF count > 256 \/ values + count >= end THEN Fail(d)
     ELSE IF Len(b) < values + count THEN Suspend(d)
     ELSE IF index >= NUM_TBLS THEN Fail(d)
     ELSE DefineHuff([d EXCEPT ![class][index] =
                        [bits |-> counts, huffval |-> SubSeq(b, values + 1, values + count)]],
                     values + count + 1, end)

get_dht(d) ==
  IF Len(d.src) < 2 THEN Suspend(d) ELSE DefineHuff(d, 3, Number(d.src, 1) + 1)

\* The tables of a DQT; the entries are assigned as they are read.
RECURSIVE DefineQuant(_, _, _)
DefineQuant(d, at, end) ==
  LET b == d.src
      prec == b[at] \div 16
      n == b[at] % 16
      size == IF prec > 0 THEN 2 ELSE 1
      next == at + 1 + size * NumValues
      Zigzag(k) == SelectInSeq(jpeg_natural_order, LAMBDA p : p = k)
      Entry(k, old) == LET place == at + 1 + size * (Zigzag(k) - 1)
                       IN IF size = 2 THEN Word(b, place, old) ELSE Byte(b, place, old)
      table == [d EXCEPT !.quant[n] = [k \in 0 .. NumValues - 1 |-> Entry(k, d.quant[n][k])]]
  IN IF at >= end THEN IF at = end THEN Done(d, end - 1) ELSE Fail(d)
     ELSE IF Len(b) < at THEN Suspend(d)
     ELSE IF n >= NUM_TBLS THEN Fail(d)
     ELSE IF Len(b) < next - 1 THEN Suspend(table)
     ELSE DefineQuant(table, next, end)

get_dqt(d) ==
  IF Len(d.src) < 2 THEN Suspend(d) ELSE DefineQuant(d, 3, Number(d.src, 1) + 1)

get_dri(d) ==
  IF Len(d.src) < 2 THEN Suspend(d)
  ELSE IF Number(d.src, 1) # 4 THEN Fail(d)
  ELSE IF Len(d.src) < 4 THEN Suspend(d)
  ELSE Done([d EXCEPT !.restart_interval = Number(d.src, 3)], 4)

-----------------------------------------------------------------------------

APP0_DATA_LEN == 14
APP14_DATA_LEN == 12
APPN_DATA_LEN == 14

examine_app0(d, data) ==
  IF Len(data) >= APP0_DATA_LEN /\ IsPrefix(JFIF, data)
  THEN [d EXCEPT !.jfif = [seen |-> TRUE, major |-> data[6], minor |-> data[7],
                           unit |-> data[8], X |-> Number(data, 9), Y |-> Number(data, 11)]]
  ELSE d

examine_app14(d, data) ==
  IF Len(data) >= APP14_DATA_LEN /\ IsPrefix(Adobe, data)
  THEN [d EXCEPT !.Adobe_transform = data[12]] ELSE d

Examine(d, data) ==
  CASE d.unread_marker = APP0 -> examine_app0(d, data)
    [] d.unread_marker = APP14 -> examine_app14(d, data)
    [] OTHER -> d

\* What is not there yet is left out when it comes.
skip_input_data(d, n) ==
  IF n <= Len(d.src) THEN [d EXCEPT !.src = SubSeq(@, n + 1, Len(@))]
  ELSE [d EXCEPT !.src = <<>>, !.skip = n - Len(d.src)]

get_interesting_appn(d) ==
  LET length == Number(d.src, 1) - 2
      numtoread == IF length >= APPN_DATA_LEN THEN APPN_DATA_LEN
                   ELSE IF length > 0 THEN length ELSE 0
  IN IF Len(d.src) < 2 \/ Len(d.src) < 2 + numtoread THEN Suspend(d)
     ELSE skip_input_data(Done(Examine(d, SubSeq(d.src, 3, 2 + numtoread)), 2 + numtoread),
                          length - numtoread)

(***************************************************************************)
(* save_marker keeps what it has read of a marker when it is suspended,    *)
(* and the restart point moves along.                                      *)
(***************************************************************************)
BeginMarker(d) ==
  LET length == Number(d.src, 1) - 2
      limit == d.length_limit[d.unread_marker]
  IN [Done(d, 2) EXCEPT !.cur_marker =
        [marker |-> d.unread_marker, original_length |-> length,
         data_length |-> Lesser(length, limit), data |-> <<>>]]

\* Variant: what was read before the source ran dry is read over.
ContinueAnew(d) ==
  LET cur == d.cur_marker
      piece == SubSeq(d.src, 1, Lesser(cur.data_length, Len(d.src)))
      read == [Done(d, Len(piece)) EXCEPT !.cur_marker.data = piece]
  IN IF Len(piece) < cur.data_length THEN Suspend(read)
     ELSE skip_input_data(
            Examine([read EXCEPT !.marker_list = Append(@, read.cur_marker),
                                 !.cur_marker = NoMarker], piece),
            cur.original_length - cur.data_length)

ContinueMarker(d) ==
  LET cur == d.cur_marker
      missing == cur.data_length - Len(cur.data)
      piece == SubSeq(d.src, 1, Lesser(missing, Len(d.src)))
      data == cur.data \o piece
      read == [Done(d, Len(piece)) EXCEPT !.cur_marker.data = data]
  IN IF Len(piece) < missing THEN Suspend(read)
     ELSE skip_input_data(
            Examine([read EXCEPT !.marker_list = Append(@, read.cur_marker),
                                 !.cur_marker = NoMarker], data),
            cur.original_length - cur.data_length)

save_marker(d) ==
  IF d.cur_marker # NoMarker THEN ContinueMarker(d)
  ELSE IF Len(d.src) < 2 THEN Suspend(d)
  ELSE IF Number(d.src, 1) < 2 THEN Done(d, 2)
  ELSE ContinueMarker(BeginMarker(d))

skip_variable(d) ==
  IF Len(d.src) < 2 THEN Suspend(d)
  ELSE skip_input_data(Done(d, 2), IF Number(d.src, 1) > 2 THEN Number(d.src, 1) - 2 ELSE 0)

\* jpeg_save_markers: at least what is looked at here is saved.
jpeg_save_markers(d, marker_code, length_limit) ==
  [d EXCEPT !.length_limit[marker_code] =
     CASE length_limit = 0 -> 0
       [] marker_code = APP0 /\ length_limit < APP0_DATA_LEN -> APP0_DATA_LEN
       [] marker_code = APP14 /\ length_limit < APP14_DATA_LEN -> APP14_DATA_LEN
       [] OTHER -> length_limit]

Processor(d) ==
  IF d.length_limit[d.unread_marker] > 0 THEN save_marker(d)
  ELSE IF d.unread_marker \in {APP0, APP14} THEN get_interesting_appn(d)
  ELSE skip_variable(d)

-----------------------------------------------------------------------------

\* Past all that is no marker.  FFs may repeat; FF 00 is data.
RECURSIVE next_marker(_)
next_marker(d) ==
  LET b == d.src
      start == SelectInSeq(b, LAMBDA c : c = 255)
      from == [d EXCEPT !.src = SubSeq(@, start, Len(@)),
                        !.discarded_bytes = @ + start - 1]
      code == SelectInSeq(from.src, LAMBDA c : c # 255)
  IN IF start = 0
     THEN Suspend([d EXCEPT !.src = <<>>, !.discarded_bytes = @ + Len(b)])
     ELSE IF code = 0 THEN Suspend(from)
     ELSE IF from.src[code] = 0
     THEN next_marker([Done(from, code) EXCEPT !.discarded_bytes = @ + 2])
     ELSE [Done(from, code) EXCEPT !.unread_marker = from.src[code], !.discarded_bytes = 0]

first_marker(d) ==
  IF Len(d.src) < 2 THEN Suspend(d)
  ELSE IF SubSeq(d.src, 1, 2) # <<255, SOI>> THEN Fail(d)
  ELSE [Done(d, 2) EXCEPT !.unread_marker = SOI]

ProcessMarker(d) ==
  LET m == d.unread_marker
  IN CASE m = SOI -> get_soi(d)
       [] m \in {SOF0, SOF1} -> get_sof(d, FALSE, FALSE)
       [] m = SOF2 -> get_sof(d, TRUE, FALSE)
       [] m = SOF9 -> get_sof(d, FALSE, TRUE)
       [] m = SOF10 -> get_sof(d, TRUE, TRUE)
       [] m = SOS -> get_sos(d)
       [] m = DHT -> get_dht(d)
       [] m = DQT -> get_dqt(d)
       [] m = DRI -> get_dri(d)
       [] m \in {DAC, DNL} -> skip_variable(d)
       [] m \in (APP0 .. APP0 + 15) \cup {COM} -> Processor(d)
       [] m \in (RST0 .. RST0 + 7) \cup {TEM, EOI} -> Done(d, 0)
       [] OTHER -> Fail(d)

\* Until a scan or the end is reached, or more data is needed.
RECURSIVE read_markers(_)
read_markers(d) ==
  LET Processed(x) ==
        CASE x.result # "done" -> x
          [] x.result = "done" /\ x.unread_marker = SOS -> [x EXCEPT !.unread_marker = 0, !.result = "SOS"]
          [] x.result = "done" /\ x.unread_marker = EOI -> [x EXCEPT !.unread_marker = 0, !.result = "EOI"]
          [] OTHER -> read_markers([x EXCEPT !.unread_marker = 0])
      Found(x) == IF x.unread_marker = 0 THEN x ELSE Processed(ProcessMarker(x))
  IN Found(IF d.unread_marker # 0 THEN d
           ELSE IF d.saw_SOI THEN next_marker(d) ELSE first_marker(d))

reset_marker_reader(d) ==
  [d EXCEPT !.comp_info = <<>>, !.input_scan_number = 0, !.unread_marker = 0,
            !.saw_SOI = FALSE, !.saw_SOF = FALSE, !.discarded_bytes = 0,
            !.cur_marker = NoMarker]

NoValues == [k \in 0 .. NumValues - 1 |-> -1]
NoTable == [bits |-> <<>>, huffval |-> <<>>]

\* jpeg_create_decompress, with jinit_marker_reader.
jinit_marker_reader ==
  [quant |-> [i \in 0 .. NUM_TBLS - 1 |-> NoValues],
   dc |-> [i \in 0 .. NUM_TBLS - 1 |-> NoTable], ac |-> [i \in 0 .. NUM_TBLS - 1 |-> NoTable],
   progressive_mode |-> FALSE, arith_code |-> FALSE, data_precision |-> -1,
   image_height |-> -1, image_width |-> -1, num_components |-> -1,
   comp_info |-> <<>>, cur_comp_info |-> <<>>, Ss |-> -1, Se |-> -1, Ah |-> -1, Al |-> -1,
   restart_interval |-> -1, next_restart_num |-> -1, input_scan_number |-> 0,
   jfif |-> NoJFIF, Adobe_transform |-> -1,
   unread_marker |-> 0, saw_SOI |-> FALSE, saw_SOF |-> FALSE, discarded_bytes |-> 0,
   length_limit |-> [m \in (APP0 .. APP0 + 15) \cup {COM} |-> 0],
   cur_marker |-> NoMarker, marker_list |-> <<>>,
   src |-> <<>>, skip |-> 0, result |-> "done"]

=============================================================================
