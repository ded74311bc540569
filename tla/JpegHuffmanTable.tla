-------------------------- MODULE JpegHuffmanTable --------------------------
(***************************************************************************)
(* The best Huffman table for the symbols of an image: how jchuff.c makes  *)
(* it from the counts of the symbols, by Huffman's procedure and a limit   *)
(* on the lengths of the codes.                                            *)
(*                                                                         *)
(* A pseudo-symbol, behind the real ones, takes the code that is all ones. *)
(***************************************************************************)
EXTENDS Integers, Sequences, SequencesExt, FiniteSetsExt, TLC

CONSTANTS NumSymbols, \* 256
          MAX_CLEN,   \* 32: the longest code before the limit
          MaxCode     \* 16: the longest code there may be

PseudoSymbol == NumSymbols
AllSymbols == 0 .. NumSymbols
MostCounted == 1000000000

\* The smallest nonzero count; in case of ties, the larger symbol.
Rarest(freq, symbols) ==
  LET counts == {freq[i] : i \in symbols} \cap 1 .. MostCounted
  IN IF counts = {} THEN -1 ELSE Max({i \in symbols : freq[i] = Min(counts)})

\* others: what is chained to a symbol that stands for its branch.
Branch(x, c) == {c} \cup x.others[c]

Merge(x, c1, c2) ==
  LET both == Branch(x, c1) \cup Branch(x, c2)
  IN [freq |-> (c1 :> x.freq[c1] + x.freq[c2]) @@ (c2 :> 0) @@ x.freq,
      others |-> (c1 :> x.others[c1] \cup Branch(x, c2)) @@ x.others,
      codesize |-> [i \in both |-> x.codesize[i] + 1] @@ x.codesize]

\* Until everything is in one branch.
RECURSIVE HuffmanProcedure(_)
HuffmanProcedure(x) ==
  LET Second(c1) == Rarest(x.freq, AllSymbols \ {c1})
      Take(c1, c2) == IF c2 < 0 THEN x ELSE HuffmanProcedure(Merge(x, c1, c2))
      First(c1) == Take(c1, Second(c1))
  IN First(Rarest(x.freq, AllSymbols))

CodeSizes(freq) ==
  HuffmanProcedure([freq |-> [i \in AllSymbols |-> IF i = PseudoSymbol THEN 1 ELSE freq[i]],
                    others |-> [i \in AllSymbols |-> {}],
                    codesize |-> [i \in AllSymbols |-> 0]]).codesize

CountSizes(codesize) ==
  [l \in 0 .. MAX_CLEN |-> IF l = 0 THEN 0 ELSE Cardinality({i \in AllSymbols : codesize[i] = l})]

\* A pair of codes of length i gives way: one gets their prefix, the other
\* one half of a shorter code.
ShortenPair(bits, i) ==
  LET j == Max({l \in 1 .. i - 2 : bits[l] > 0})
  IN [l \in DOMAIN bits |->
        bits[l] + (IF l = i THEN -2 ELSE 0) + (IF l = i - 1 THEN 1 ELSE 0)
                + (IF l = j + 1 THEN 2 ELSE 0) + IF l = j THEN -1 ELSE 0]

RECURSIVE LimitLengths(_, _)
LimitLengths(bits, i) ==
  IF i = MaxCode THEN bits
  ELSE IF bits[i] > 0 THEN LimitLengths(ShortenPair(bits, i), i)
  ELSE LimitLengths(bits, i - 1)

\* Variant: the pseudo-symbol keeps its code.
KeepPseudoSymbol(bits) == bits
RemovePseudoSymbol(bits) == [bits EXCEPT ![Max({l \in 1 .. MaxCode : bits[l] > 0})] = @ - 1]

\* The symbols by the lengths they had before the limit.
SortedSymbols(codesize) ==
  FlattenSeq([l \in 1 .. MAX_CLEN |->
    SelectSeq([i \in 1 .. NumSymbols |-> i - 1], LAMBDA i : codesize[i] = l)])

\* Some symbol must have been counted.
jpeg_gen_optimal_table(freq) ==
  LET Made(codesize) ==
        [bits |-> [l \in 1 .. MaxCode |->
                     RemovePseudoSymbol(LimitLengths(CountSizes(codesize), MAX_CLEN))[l]],
         huffval |-> SortedSymbols(codesize), sent_table |-> FALSE]
  IN Made(CodeSizes(freq))

=============================================================================
