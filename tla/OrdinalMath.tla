---------------------------- MODULE OrdinalMath ----------------------------
(* Ordinal arithmetic (packages/core/src/ordinalMath.js): "the nth satoshi    *)
(* input to the transaction is transferred to the nth satoshi output of the   *)
(* transaction".                                                              *)
(*                                                                            *)
(* A transaction is [inputs, outputs]: the outpoints it spends, or Coinbase,   *)
(* and the satoshis its outputs hold. An outpoint is <<txid, position>>;       *)
(* positions count from 1 here and from 0 in the code, offsets from 0 in both. *)
EXTENDS Naturals, SequencesExt

CONSTANT Coinbase

\* The first n of some amounts, added up.
SumOf(amounts, n) ==
  LET sum[i \in 0 .. n] == IF i = 0 THEN 0 ELSE sum[i - 1] + amounts[i]
  IN  IF n < 1 THEN 0 ELSE sum[n]

\* Where an output's value begins.
OutputOffset(tx, vout) == SumOf(tx.outputs, vout - 1)

\* Mutant of Holder: the satoshi on an edge belongs to what ends there.
HolderEdge(values, offset) ==
  LET covering == {i \in DOMAIN values : offset <= SumOf(values, i)}
  IN  IF covering = {} THEN 0 ELSE Min(covering)

\* Which of the values holds the satoshi at an offset; 0 if none does.
Holder(values, offset) ==
  LET covering == {i \in DOMAIN values : offset < SumOf(values, i)}
  IN  IF covering = {} THEN 0 ELSE Min(covering)

\* The output holding the satoshi at an offset; vout 0 if it is paid to the
\* miner.
OutputAtOffset(tx, offset) ==
  LET v == Holder(tx.outputs, offset)
  IN  IF v = 0 THEN [vout |-> 0, offsetInOutput |-> 0, satoshis |-> 0]
      ELSE [vout |-> v, offsetInOutput |-> offset - OutputOffset(tx, v),
            satoshis |-> tx.outputs[v]]

\* The input that spends an outpoint; 0 if none does.
InputSpending(tx, outpoint) == SelectInSeq(tx.inputs, LAMBDA i : i = outpoint)

\* Where a satoshi goes when its output is spent by tx, given the values of the
\* inputs before the one that spends it.
FollowForward(tx, outpoint, offsetInOutput, values) ==
  OutputAtOffset(tx, SumOf(values, InputSpending(tx, outpoint) - 1) + offsetInOutput)

\* Where a satoshi came from, given the values of the inputs up to the one that
\* covers its offset.
FollowBackward(tx, vout, offsetInOutput, values) ==
  LET offset == OutputOffset(tx, vout) + offsetInOutput
      index == Holder(values, offset)
  IN  [outpoint |-> tx.inputs[index],
       offsetInParentOutput |-> offset - SumOf(values, index - 1),
       parentSatoshis |-> values[index]]

=============================================================================
