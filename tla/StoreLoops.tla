----------------------------- MODULE StoreLoops -----------------------------
(* The loops of apply() and revert() of src/indexer/store.js, round by round  *)
(* over the lists they walk. Store, which the other modules use, gives what   *)
(* they compute in closed form.                                               *)
EXTENDS Store, SequencesExt

Set(map, write) == [map EXCEPT ![write.key] = write.value]
Capture(map, write) == [key |-> write.key, value |-> map[write.key]]

\* What the maps hold after each round of a loop that sets, one after the
\* other, the keys a list names.
Rounds(rec, list) ==
  LET map[n \in 0 .. Len(list)] ==
        IF n = 0 THEN rec ELSE Set(map[n - 1], list[n])
  IN  map

\* Mutant of ApplyLoop: the value is captured after it is replaced.
ApplyLoopLate(rec, writes) ==
  LET map == Rounds(rec, writes)
  IN  [map    |-> map[Len(writes)],
       before |-> [i \in 1 .. Len(writes) |-> Capture(map[i], writes[i])]]

\* apply(): write by write, capture what the key holds, then delete or set it.
ApplyLoop(rec, writes) ==
  LET map == Rounds(rec, writes)
  IN  [map    |-> map[Len(writes)],
       before |-> [i \in 1 .. Len(writes) |-> Capture(map[i - 1], writes[i])]]

\* Mutant of RevertLoop: the list is walked forwards.
RevertLoopForwards(rec, before) == Rounds(rec, before)[Len(before)]

\* revert(): what was captured is put back, from the end of the list.
RevertLoop(rec, before) == Rounds(rec, Reverse(before))[Len(before)]

=============================================================================
