---------------------------- MODULE JpegHuffman ----------------------------
(***************************************************************************)
(* How coefficients become bytes and bytes coefficients again: the Huffman *)
(* encoder in jchuff.c and the decoder in jdhuff.c, which both derive      *)
(* their codes from a count of the codes of each length.                   *)
(*                                                                         *)
(* bits[l] is the number of symbols with codes of l bits; a symbol is      *)
(* named by its place in huffval, from 1.  A string of bits is a sequence  *)
(* of 0 and 1.  The sizes that the format fixes are constants.             *)
(***************************************************************************)
EXTENDS Integers, Sequences, SequencesExt, FiniteSetsExt

CONSTANTS MAX_LENGTH,     \* of a code: 16 bits
          HUFF_LOOKAHEAD, \* 8 bits
          BYTE,           \* 8 bits
          DCTSIZE2,       \* 64 coefficients in a block
          RUN             \* 16 zeros in a run

ASSUME HuffmanAssumption ==
  {MAX_LENGTH, HUFF_LOOKAHEAD, BYTE, DCTSIZE2, RUN} \subseteq Nat \ {0}

Zeros(n) == [k \in 1 .. n |-> 0]
Ones(n) == [k \in 1 .. n |-> 1]
Number(s) == FoldLeft(LAMBDA n, b : 2 * n + b, 0, s)
\* The n low bits of v.
LowBits(v, n) == [k \in 1 .. n |-> (v \div 2 ^ (n - k)) % 2]

-----------------------------------------------------------------------------
(* The derived tables.                                                     *)

\* The first code of each length, and one length more.
FirstCode(bits) ==
  LET first[l \in 1 .. MAX_LENGTH + 1] ==
        IF l = 1 THEN 0 ELSE 2 * (first[l - 1] + bits[l - 1])
  IN first

\* JERR_BAD_HUFF_TABLE otherwise: no code may be all ones.
Legal(bits) ==
  \A l \in 1 .. MAX_LENGTH : bits[l] > 0 => FirstCode(bits)[l] + bits[l] < 2 ^ l

\* huffsize and huffcode, by the place of the symbol.
Sizes(bits) == FlattenSeq([l \in 1 .. MAX_LENGTH |-> [k \in 1 .. bits[l] |-> l]])
FirstPlace(bits, l) == 1 + Cardinality({p \in DOMAIN Sizes(bits) : Sizes(bits)[p] < l})

DeriveTable(bits) ==
  LET size == Sizes(bits)
      first == FirstCode(bits)
      code == [p \in DOMAIN size |-> first[size[p]] + p - FirstPlace(bits, size[p])]
      Covers(p, look) ==
        /\ size[p] <= HUFF_LOOKAHEAD
        /\ look \div 2 ^ (HUFF_LOOKAHEAD - size[p]) = code[p]
  IN [size |-> size,
      code |-> code,
      maxcode |-> [l \in 1 .. MAX_LENGTH |->
                     IF bits[l] > 0 THEN first[l] + bits[l] - 1 ELSE -1],
      valoffset |-> [l \in 1 .. MAX_LENGTH |-> FirstPlace(bits, l) - first[l]],
      lookahead |-> [look \in 0 .. 2 ^ HUFF_LOOKAHEAD - 1 |->
                       {p \in DOMAIN size : Covers(p, look)}]]

-----------------------------------------------------------------------------
(* Encoding.                                                               *)

Code(table, p) == LowBits(table.code[p], table.size[p])

Abs(v) == IF v < 0 THEN -v ELSE v
\* The fewest bits that hold it: it is shifted until it is zero.
Magnitude(v) ==
  CHOOSE n \in 0 .. Abs(v) : Abs(v) < 2 ^ n /\ \A k \in 0 .. n - 1 : 2 ^ k <= Abs(v)

\* A negative value is sent as the complement of its magnitude.
ValueBits(v) == LowBits(IF v < 0 THEN v - 1 ELSE v, Magnitude(v))

\* The places of the symbols: a size, or a run of zeros and a size.
DCPlace(size) == size + 1
ACPlace(run, size) == run + size * RUN + 1

\* encode_one_block: the change of the first coefficient, and runs of zeros
\* before each other one.
EncodeBlock(table, block, last_dc_val) ==
  LET diff == block[1] - last_dc_val
      Coefficient(state, v) ==
        IF v = 0 THEN [state EXCEPT !.run = @ + 1]
        ELSE [run |-> 0,
              out |-> state.out
                \o FlattenSeq([k \in 1 .. state.run \div RUN |->
                                 Code(table, ACPlace(RUN - 1, 0))])
                \o Code(table, ACPlace(state.run % RUN, Magnitude(v)))
                \o ValueBits(v)]
      end == FoldLeft(Coefficient, [run |-> 0, out |-> <<>>], Tail(block))
  IN Code(table, DCPlace(Magnitude(diff))) \o ValueBits(diff) \o end.out
       \o IF end.run > 0 THEN Code(table, ACPlace(0, 0)) ELSE <<>>

\* emit_bits: a byte of ones is followed by one of zeros, so that it is no
\* marker.  NotStuffed leaves that out.
NotStuffed(byte) == byte
Stuffed(byte) == IF byte = Ones(BYTE) THEN byte \o Zeros(BYTE) ELSE byte

\* With flush_bits, which fills the last byte with ones.
EmitBits(s) ==
  LET padded == s \o Ones(BYTE - 1)
      Byte(k) == SubSeq(padded, (k - 1) * BYTE + 1, k * BYTE)
  IN FlattenSeq([k \in 1 .. Len(padded) \div BYTE |-> Stuffed(Byte(k))])

-----------------------------------------------------------------------------
(* Decoding.                                                               *)

\* jpeg_fill_bit_buffer: the data up to the marker that ends it.  Any number
\* of bytes of ones and one of zeros are one byte of ones.
FillBitBuffer(bytes) ==
  LET Take(state, byte) ==
        CASE state.marker -> state
          [] ~state.marker /\ state.ones /\ byte = Zeros(BYTE) ->
               [state EXCEPT !.ones = FALSE, !.data = @ \o Ones(BYTE)]
          [] ~state.marker /\ byte = Ones(BYTE) -> [state EXCEPT !.ones = TRUE]
          [] ~state.marker /\ state.ones /\ byte \notin {Zeros(BYTE), Ones(BYTE)} ->
               [state EXCEPT !.marker = TRUE]
          [] OTHER -> [state EXCEPT !.data = @ \o byte]
  IN FoldLeft(Take, [marker |-> FALSE, ones |-> FALSE, data |-> <<>>],
              [k \in 1 .. Len(bytes) \div BYTE |->
                 SubSeq(bytes, (k - 1) * BYTE + 1, k * BYTE)]).data

\* GET_BITS: zeros when the data has run out.
GetBits(rest, n) == SubSeq(rest \o Zeros(n), 1, n)
DropBits(rest, n) == SubSeq(rest, n + 1, Len(rest))

\* jpeg_huff_decode: bit by bit from codes of min_bits on.  A code that is
\* too long stands for the first symbol.
HuffDecodeSlow(table, rest, min_bits) ==
  LET Fits(l) == Number(GetBits(rest, l)) <= table.maxcode[l]
      Decoded(l) ==
        IF l > MAX_LENGTH THEN [place |-> 1, rest |-> DropBits(rest, l)]
        ELSE [place |-> Number(GetBits(rest, l)) + table.valoffset[l], rest |-> DropBits(rest, l)]
  IN Decoded(Min({l \in min_bits .. MAX_LENGTH : Fits(l)} \cup {MAX_LENGTH + 1}))

\* HUFF_DECODE: with the lookahead table if there are bits enough for it.
HuffDecode(table, rest) ==
  LET Found(places) ==
        IF places = {} THEN HuffDecodeSlow(table, rest, HUFF_LOOKAHEAD + 1)
        ELSE [place |-> Max(places), rest |-> DropBits(rest, table.size[Max(places)])]
  IN IF Len(rest) < HUFF_LOOKAHEAD THEN HuffDecodeSlow(table, rest, 1)
     ELSE Found(table.lookahead[Number(GetBits(rest, HUFF_LOOKAHEAD))])

\* HUFF_EXTEND.
Extend(x, size) == IF x < 2 ^ (size - 1) THEN x - 2 ^ size + 1 ELSE x

Value(rest, size) ==
  [value |-> IF size = 0 THEN 0 ELSE Extend(Number(GetBits(rest, size)), size),
   rest |-> DropBits(rest, size)]

\* decode_mcu, for one block that was zeroed before.
PutValue(state, run, v) ==
  [k |-> state.k + run + 1, rest |-> v.rest,
   block |-> [j \in 1 .. DCTSIZE2 |-> IF j = state.k + run THEN v.value ELSE state.block[j]]]
Coefficients(state, symbol, run, size) ==
  IF size > 0 THEN PutValue(state, run, Value(symbol.rest, size))
  ELSE [state EXCEPT !.rest = symbol.rest,
                     !.k = IF run = RUN - 1 THEN @ + RUN ELSE DCTSIZE2 + 1]

DecodeBlock(table, data, last_dc_val) ==
  LET Difference(dc) == Value(dc.rest, dc.place - 1)
      Begin(diff) == [k |-> 2, rest |-> diff.rest,
                      block |-> [Zeros(DCTSIZE2) EXCEPT ![1] = last_dc_val + diff.value]]
      Act(state, symbol) ==
        Coefficients(state, symbol, (symbol.place - 1) % RUN, (symbol.place - 1) \div RUN)
      Go(state, n) ==
        IF state.k > DCTSIZE2 THEN state ELSE Act(state, HuffDecode(table, state.rest))
  IN FoldLeft(Go, Begin(Difference(HuffDecode(table, data))), [n \in 1 .. DCTSIZE2 - 1 |-> n])

=============================================================================
