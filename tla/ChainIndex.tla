----------------------------- MODULE ChainIndex -----------------------------
(* What an index is between blocks (src/indexer/indexer.js:7-16): its content *)
(* is always what the blocks up to one point of one chain amount to, and it   *)
(* moves by whole blocks, one up or one down at a time.                       *)
EXTENDS Integers

CONSTANTS
  Block, HeightOf, ParentOf, StartHeight,
  None,             \* nothing was ever indexed
  IndexAt(_)        \* the content after the block with that hash

VARIABLES
  indexed,          \* None, or the hash of the last block that counts
  content

vars == <<indexed, content>>

Init == indexed = None /\ content = IndexAt(None)

\* A block is added on top of its parent. The first block there can be, at
\* StartHeight, has a parent the index knows nothing of.
Extend(b) ==
  /\ IF HeightOf[b] = StartHeight THEN indexed \notin Block
                                  ELSE indexed = ParentOf[b]
  /\ indexed' = b
  /\ content' = IndexAt(b)

\* The last block is taken back.
Retract ==
  /\ indexed \in Block
  /\ indexed' = ParentOf[indexed]
  /\ content' = IndexAt(indexed')

Next == Retract \/ \E b \in Block : Extend(b)

Spec == Init /\ [][Next]_vars

=============================================================================
