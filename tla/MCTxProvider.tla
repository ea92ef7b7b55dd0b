---------------------------- MODULE MCTxProvider ----------------------------
(* Three callers, two transactions and an output script, two providers of     *)
(* which one serves scripts, one slot and a cache of one transaction: keys    *)
(* that coincide, that differ in the chain only, that fail over, that compete *)
(* for the slot and that evict each other.                                    *)
EXTENDS TxProvider, TLC

CONSTANTS a, b, c

MCItem == {"t", "u", "out"}
MCModeOf == [t |-> "tx", u |-> "tx", out |-> "output"]
MCChains == [tx |-> {<<"p">>, <<"q", "p">>}, output |-> {<<"q">>}]
MCCacheMax == [tx |-> 1, output |-> 1]

Asking(item, chain) == [item |-> item, chain |-> chain]
MCAsks ==
  (a :> {Asking("t", <<"p">>)}) @@
  (b :> {Asking("t", <<"p">>), Asking("u", <<"p">>)}) @@
  (c :> {Asking("t", <<"q", "p">>), Asking("out", <<"q">>)})

=============================================================================
