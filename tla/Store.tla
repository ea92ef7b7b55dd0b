------------------------------- MODULE Store -------------------------------
(* The record store of src/indexer/store.js as pure operators. The four maps *)
(* (utxo, token, spend, balance) are one function `rec' from a key (a kind    *)
(* together with the key within the kind) to a value, Absent standing for    *)
(* "the map has no such key". A write is [key, value]; writing Absent is     *)
(* map.delete(key). The loops of apply and revert are given in closed form:  *)
(* the last write to a key decides what it holds, the first captured value   *)
(* decides what it is restored to. StoreLoops checks them against the loops. *)
EXTENDS Integers, Sequences, FiniteSetsExt

CONSTANT Absent       \* the key is in no map

\* The positions of a list of writes, or of captured values, naming key k.
Touches(list, k) == {i \in DOMAIN list : list[i].key = k}

\* What apply(writes) leaves in the maps.
Apply(rec, writes) ==
  [k \in DOMAIN rec |->
     LET at == Touches(writes, k)
     IN  IF at = {} THEN rec[k] ELSE writes[Max(at)].value]

\* What apply(writes) returns: for each write, the value its key held just
\* before that write, the effect of the earlier writes of the list included.
Before(rec, writes) ==
  [i \in DOMAIN writes |->
     [key   |-> writes[i].key,
      value |-> Apply(rec, SubSeq(writes, 1, i - 1))[writes[i].key]]]

\* Mutant of Revert: the list is walked forwards.
RevertForwards(rec, before) ==
  [k \in DOMAIN rec |->
     LET at == Touches(before, k)
     IN  IF at = {} THEN rec[k] ELSE before[Max(at)].value]

\* What revert(before) leaves in the maps: it walks the list backwards, so the
\* value captured first is the one that stays.
Revert(rec, before) ==
  [k \in DOMAIN rec |->
     LET at == Touches(before, k)
     IN  IF at = {} THEN rec[k] ELSE before[Min(at)].value]

=============================================================================
