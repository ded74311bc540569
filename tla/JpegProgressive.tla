-------------------------- MODULE JpegProgressive --------------------------
(***************************************************************************)
(* The scans of a progressive JPEG file: a few coefficients of each block  *)
(* at a time, or a bit of them, as jcphuff.c writes them and jdphuff.c     *)
(* reads them, from a source that may have to wait for data.               *)
(*                                                                         *)
(* A scan is a sequence of symbols, bits and restart markers; how symbols  *)
(* and bits are packed is a matter of JpegHuffman.  A block is a sequence  *)
(* of coefficients in zigzag order, numbered from 0.                       *)
(***************************************************************************)
EXTENDS Integers, Sequences, SequencesExt, FiniteSetsExt

CONSTANTS DCTSIZE2,      \* coefficients of a block
          RUN,           \* 16: one more than the longest run in a symbol
          MAX_CORR_BITS  \* correction bits that can wait

Symbol(run, size) == <<"symbol", run, size>>
Bit(b) == <<"bit", b, 0>>
Restart(number) == <<"restart", number, 0>>

\* The n low bits of v, as tokens.
Bits(v, n) == [k \in 1 .. n |-> Bit((v \div 2 ^ (n - k)) % 2)]
AbsValue(v) == IF v < 0 THEN -v ELSE v
NBits(v) == CHOOSE n \in 0 .. v : v < 2 ^ n /\ (n = 0 \/ v >= 2 ^ (n - 1))
Band(scan) == [i \in 1 .. scan.Se - scan.Ss + 1 |-> scan.Ss + i - 1]

\* The longest run of blocks without further coefficients in one symbol.
MAX_EOBRUN == 2 ^ (RUN - 1) - 1

-----------------------------------------------------------------------------
(* The encoder.  BE are the correction bits that wait for an EOBRUN, BR    *)
(* those of this block that wait for a symbol; most is a history of how    *)
(* many there were at a time.                                              *)

start_pass_phuff(scan) ==
  [EOBRUN |-> 0, BE |-> <<>>, last_dc_val |-> [ci \in 1 .. scan.comps |-> 0],
   restarts_to_go |-> scan.restart_interval, next_restart_num |-> 0,
   out |-> <<>>, most |-> 0]

Put(e, tokens) == [e EXCEPT !.out = @ \o tokens]

emit_eobrun(e) ==
  LET nbits == NBits(e.EOBRUN) - 1
  IN IF e.EOBRUN = 0 THEN e
     ELSE [Put(e, <<Symbol(nbits, 0)>> \o Bits(e.EOBRUN, nbits) \o e.BE)
             EXCEPT !.EOBRUN = 0, !.BE = <<>>]

emit_restart(e) ==
  [Put(emit_eobrun(e), <<Restart(e.next_restart_num)>>)
     EXCEPT !.last_dc_val = [ci \in DOMAIN @ |-> 0]]

RestartIfNeeded(scan, e) ==
  IF scan.restart_interval = 0 \/ e.restarts_to_go > 0 THEN e ELSE emit_restart(e)

CountRestart(scan, e) ==
  IF scan.restart_interval = 0 THEN e
  ELSE IF e.restarts_to_go = 0
  THEN [e EXCEPT !.restarts_to_go = scan.restart_interval - 1,
                 !.next_restart_num = (@ + 1) % 8]
  ELSE [e EXCEPT !.restarts_to_go = @ - 1]

\* A value, or the complement of its magnitude.
ValueTokens(v, n) == Bits(IF v < 0 THEN v - 1 ELSE v, n)

\* An MCU has one block of each component here; only AC scans have one block.
encode_mcu_DC_first(scan, e, mcu) ==
  FoldLeft(LAMBDA x, ci :
             LET dc == mcu[ci][0] \div 2 ^ scan.Al
                 diff == dc - x.last_dc_val[ci]
                 nbits == NBits(AbsValue(diff))
             IN [Put(x, <<Symbol(0, nbits)>> \o ValueTokens(diff, nbits))
                   EXCEPT !.last_dc_val[ci] = dc],
           e, [ci \in 1 .. scan.comps |-> ci])

encode_mcu_DC_refine(scan, e, mcu) ==
  FoldLeft(LAMBDA x, ci : Put(x, Bits(mcu[ci][0] \div 2 ^ scan.Al, 1)),
           e, [ci \in 1 .. scan.comps |-> ci])

Transformed(scan, v) == AbsValue(v) \div 2 ^ scan.Al

\* Symbols for as many whole runs of zeros as there are.
ZeroRuns(r) == [k \in 1 .. r \div RUN |-> Symbol(RUN - 1, 0)]

\* A block that ends in zeros is counted in the EOBRUN, with its bits.
CountEOB(e, r, BR) ==
  LET counted == [e EXCEPT !.EOBRUN = @ + 1, !.BE = @ \o BR]
  IN IF r = 0 /\ BR = <<>> THEN e
     ELSE IF counted.EOBRUN = MAX_EOBRUN \/ Len(counted.BE) > MAX_CORR_BITS - DCTSIZE2 + 1
     THEN emit_eobrun(counted) ELSE counted

encode_mcu_AC_first(scan, e, mcu) ==
  LET Coefficient(x, k) ==
        LET temp == Transformed(scan, mcu[1][k])
            v == IF mcu[1][k] < 0 THEN -temp ELSE temp
            nbits == NBits(temp)
        IN IF temp = 0 THEN [x EXCEPT !.r = @ + 1]
           ELSE [r |-> 0,
                 e |-> Put(emit_eobrun(x.e),
                           ZeroRuns(x.r) \o <<Symbol(x.r % RUN, nbits)>>
                             \o ValueTokens(v, nbits))]
      end == FoldLeft(Coefficient, [r |-> 0, e |-> e], Band(scan))
  IN CountEOB(end.e, end.r, <<>>)

(***************************************************************************)
(* Coefficients that were nonzero before get a correction bit; it waits    *)
(* for the next symbol.  Runs of zeros behind the last newly nonzero one   *)
(* (EOB) need no symbols.                                                  *)
(***************************************************************************)
encode_mcu_AC_refine(scan, e, mcu) ==
  LET absvalue == [k \in ToSet(Band(scan)) |-> Transformed(scan, mcu[1][k])]
      EOB == SelectLastInSeq(Band(scan), LAMBDA k : absvalue[k] = 1) + scan.Ss - 1
      Runs(x, k) ==
        IF x.r < RUN \/ k > EOB THEN x
        ELSE [e |-> Put(emit_eobrun(x.e), <<Symbol(RUN - 1, 0)>> \o x.BR
                          \o ZeroRuns(x.r - RUN)),
              r |-> x.r % RUN, BR |-> <<>>]
      Coefficient(x, k) ==
        LET y == Runs(x, k)
        IN IF absvalue[k] = 0 THEN [x EXCEPT !.r = @ + 1]
           ELSE IF absvalue[k] > 1
           THEN [y EXCEPT !.BR = Append(@, Bit(absvalue[k] % 2)),
                          !.e.most = Max({@, Len(y.e.BE) + Len(y.BR) + 1})]
           ELSE [e |-> Put(emit_eobrun(y.e),
                           <<Symbol(y.r, 1), Bit(IF mcu[1][k] < 0 THEN 0 ELSE 1)>> \o y.BR),
                 r |-> 0, BR |-> <<>>]
      end == FoldLeft(Coefficient, [e |-> e, r |-> 0, BR |-> <<>>], Band(scan))
  IN CountEOB(end.e, end.r, end.BR)

encode_mcu(scan, e, mcu) ==
  CASE scan.Ss = 0 /\ scan.Ah = 0 -> encode_mcu_DC_first(scan, e, mcu)
    [] scan.Ss = 0 /\ scan.Ah > 0 -> encode_mcu_DC_refine(scan, e, mcu)
    [] scan.Ss > 0 /\ scan.Ah = 0 -> encode_mcu_AC_first(scan, e, mcu)
    [] scan.Ss > 0 /\ scan.Ah > 0 -> encode_mcu_AC_refine(scan, e, mcu)

\* A whole scan, with finish_pass_phuff.
EncodeScan(scan, mcus) ==
  emit_eobrun(FoldLeft(LAMBDA e, mcu : CountRestart(scan, encode_mcu(scan, RestartIfNeeded(scan, e), mcu)),
                       start_pass_phuff(scan), mcus))

-----------------------------------------------------------------------------
(* The decoder, for one MCU.  x.rest is the data that is there; when it    *)
(* does not suffice, x is stuck, and what was assigned to the blocks stays *)
(* assigned, but for newly nonzero coefficients of a refinement.           *)

start_pass_phuff_decoder(scan) ==
  [EOBRUN |-> 0, last_dc_val |-> [ci \in 1 .. scan.comps |-> 0],
   restarts_to_go |-> scan.restart_interval, next_restart_num |-> 0, rest |-> <<>>]

Has(x, kind, n) == Len(x.rest) >= n /\ \A i \in 1 .. n : x.rest[i][1] = kind
NextBits(x, n) == FoldLeft(LAMBDA v, i : 2 * v + x.rest[i][2], 0, [i \in 1 .. n |-> i])
Drop(x, n) == [x EXCEPT !.rest = SubSeq(@, n + 1, Len(@))]
Stuck(x) == [x EXCEPT !.stuck = TRUE]

HUFF_EXTEND(v, size) ==
  IF size = 0 THEN 0 ELSE IF v < 2 ^ (size - 1) THEN v - 2 ^ size + 1 ELSE v

\* A symbol and the bits that belong to it: of a value, or of an EOBRUN.
ExtraBits(run, size) == IF size = 0 /\ run < RUN - 1 THEN run ELSE size
HasSymbol(x) ==
  /\ Has(x, "symbol", 1)
  /\ Has(Drop(x, 1), "bit", ExtraBits(x.rest[1][2], x.rest[1][3]))

process_restart(scan, x) ==
  IF scan.restart_interval = 0 \/ x.restarts_to_go > 0 THEN x
  ELSE IF ~Has(x, "restart", 1) \/ x.rest[1][2] # x.next_restart_num THEN Stuck(x)
  ELSE [Drop(x, 1) EXCEPT !.last_dc_val = [ci \in DOMAIN @ |-> 0], !.EOBRUN = 0,
                          !.restarts_to_go = scan.restart_interval,
                          !.next_restart_num = (@ + 1) % 8]

decode_mcu_DC_first(scan, d) ==
  FoldLeft(LAMBDA x, ci :
             LET size == x.rest[1][3]
                 y == Drop(x, 1)
                 v == HUFF_EXTEND(NextBits(y, size), size) + x.last_dc_val[ci]
             IN IF x.stuck THEN x
                ELSE IF ~HasSymbol(x) THEN Stuck(x)
                ELSE [Drop(y, size) EXCEPT !.last_dc_val[ci] = v,
                                           !.mcu[ci][0] = v * 2 ^ scan.Al],
           d, [ci \in 1 .. scan.comps |-> ci])

\* Or-ing the bit in once more does not matter.
decode_mcu_DC_refine(scan, d) ==
  FoldLeft(LAMBDA x, ci :
             LET unset == (x.mcu[ci][0] \div 2 ^ scan.Al) % 2 = 0
             IN IF x.stuck THEN x
                ELSE IF ~Has(x, "bit", 1) THEN Stuck(x)
                ELSE [Drop(x, 1) EXCEPT !.mcu[ci][0] =
                        IF x.rest[1][2] = 1 /\ unset THEN @ + 2 ^ scan.Al ELSE @],
           d, [ci \in 1 .. scan.comps |-> ci])

\* EOBr: 2^r blocks and as many as r bits tell.
EOBRun(x, r) == 2 ^ r + NextBits(Drop(x, 1), r)

RECURSIVE ACFirst(_, _)
ACFirst(scan, x) ==
  LET r == x.rest[1][2]
      s == x.rest[1][3]
      v == HUFF_EXTEND(NextBits(Drop(x, 1), s), s)
  IN IF x.k > scan.Se THEN x
     ELSE IF ~HasSymbol(x) THEN Stuck(x)
     ELSE IF s > 0
     THEN ACFirst(scan, [Drop(x, 1 + s) EXCEPT !.mcu[1][x.k + r] = v * 2 ^ scan.Al,
                                               !.k = @ + r + 1])
     ELSE IF r = RUN - 1 THEN ACFirst(scan, [Drop(x, 1) EXCEPT !.k = @ + RUN])
     ELSE [Drop(x, 1 + r) EXCEPT !.EOBRUN = EOBRun(x, r) - 1]

decode_mcu_AC_first(scan, d) ==
  IF d.EOBRUN > 0 THEN [d EXCEPT !.EOBRUN = @ - 1] ELSE ACFirst(scan, d)

(***************************************************************************)
(* A correction bit for the coefficient at k, unless an earlier attempt    *)
(* has applied it.                                                         *)
(***************************************************************************)
Correct(scan, x) ==
  LET v == x.mcu[1][x.k]
      p1 == 2 ^ scan.Al
      applied == (v \div p1) % 2 = 1
  IN [Drop(x, 1) EXCEPT !.k = @ + 1,
        !.mcu[1][x.k] = IF x.rest[1][2] = 0 \/ applied THEN @
                        ELSE IF v >= 0 THEN @ + p1 ELSE @ - p1]

\* Past the nonzero coefficients and r zeros, up to the next zero.
RECURSIVE Advance(_, _, _)
Advance(scan, x, r) ==
  IF x.k > scan.Se \/ x.stuck THEN x
  ELSE IF x.mcu[1][x.k] # 0
  THEN IF Has(x, "bit", 1) THEN Advance(scan, Correct(scan, x), r) ELSE Stuck(x)
  ELSE IF r = 0 THEN x ELSE Advance(scan, [x EXCEPT !.k = @ + 1], r - 1)

RECURSIVE ACRefine(_, _)
ACRefine(scan, x) ==
  LET r == x.rest[1][2]
      s == x.rest[1][3]
      sign == IF x.rest[2][2] = 1 THEN 1 ELSE -1
      Arrived(there) ==
        IF there.stuck THEN there
        ELSE IF s = 0 THEN ACRefine(scan, [there EXCEPT !.k = @ + 1])
        ELSE ACRefine(scan, [there EXCEPT !.mcu[1][there.k] = sign * 2 ^ scan.Al,
                                          !.newnz = @ \cup {there.k}, !.k = @ + 1])
  IN IF x.k > scan.Se \/ x.stuck THEN x
     ELSE IF ~HasSymbol(x) THEN Stuck(x)
     ELSE IF s = 0 /\ r < RUN - 1 THEN [Drop(x, 1 + r) EXCEPT !.EOBRUN = EOBRun(x, r)]
     ELSE Arrived(Advance(scan, Drop(x, 1 + s), r))

\* All zeros of the rest are passed when a block ends in an EOBRUN.
FinishBand(scan, x) ==
  LET Finished(end) == IF end.stuck THEN end ELSE [end EXCEPT !.EOBRUN = @ - 1]
  IN IF x.EOBRUN = 0 \/ x.stuck THEN x ELSE Finished(Advance(scan, x, DCTSIZE2))

\* Variant: what a suspended attempt has set stays set.
LeaveIt(x) == x

\* undoit: newly nonzero coefficients are zero for the next attempt.
UndoIt(x) ==
  IF ~x.stuck THEN x
  ELSE [x EXCEPT !.mcu[1] = [k \in DOMAIN @ |-> IF k \in x.newnz THEN 0 ELSE @[k]]]

decode_mcu_AC_refine(scan, d) ==
  UndoIt(FinishBand(scan, IF d.EOBRUN > 0 THEN d ELSE ACRefine(scan, d)))

DecodeBlocks(scan, x) ==
  CASE x.stuck -> x
    [] ~x.stuck /\ scan.Ss = 0 /\ scan.Ah = 0 -> decode_mcu_DC_first(scan, x)
    [] ~x.stuck /\ scan.Ss = 0 /\ scan.Ah > 0 -> decode_mcu_DC_refine(scan, x)
    [] ~x.stuck /\ scan.Ss > 0 /\ scan.Ah = 0 -> decode_mcu_AC_first(scan, x)
    [] ~x.stuck /\ scan.Ss > 0 /\ scan.Ah > 0 -> decode_mcu_AC_refine(scan, x)

\* The state is saved when the MCU is complete; a restart stays done.
SaveState(d, x, y) ==
  [done |-> ~y.stuck, mcu |-> y.mcu,
   d |-> IF x.stuck THEN d
         ELSE [rest |-> IF y.stuck THEN x.rest ELSE y.rest,
               EOBRUN |-> IF y.stuck THEN x.EOBRUN ELSE y.EOBRUN,
               last_dc_val |-> IF y.stuck THEN x.last_dc_val ELSE y.last_dc_val,
               restarts_to_go |-> IF y.stuck THEN x.restarts_to_go ELSE x.restarts_to_go - 1,
               next_restart_num |-> x.next_restart_num]]

DecodeMCU(scan, d, mcu) ==
  LET Decoded(x) == SaveState(d, x, DecodeBlocks(scan, x))
  IN Decoded(process_restart(scan,
       [rest |-> d.rest, EOBRUN |-> d.EOBRUN, last_dc_val |-> d.last_dc_val,
        restarts_to_go |-> d.restarts_to_go, next_restart_num |-> d.next_restart_num,
        mcu |-> mcu, k |-> scan.Ss, newnz |-> {}, stuck |-> FALSE]))

=============================================================================
