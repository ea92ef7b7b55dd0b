----------------------------- MODULE TableIndex -----------------------------
(* What the tables of an index under construction promise a process that only *)
(* reads them (src/indexer/indexer.js:7-16, src/indexer/sqliteStore.js): not   *)
(* whole blocks, but nothing out of order. Beyond the blocks up to the cursor  *)
(* they show at most the first transactions of one block on top of them; a     *)
(* block some of which showed is finished before anything else happens, and is *)
(* never given up; and a block taken back goes in one step.                    *)
(*                                                                           *)
(* A reader sees indexed and content. The other variables say how far the      *)
(* writer is, and are for it alone.                                           *)
EXTENDS Integers

CONSTANTS
  Block, HeightOf, ParentOf, TxCount, StartHeight,
  None,             \* nothing was ever indexed
  Replay,           \* Replay[b][p]: the content before transaction p of block b
  IndexAt(_)        \* the content after the block with that hash

VARIABLES
  indexed,          \* None, or the hash the cursor names
  content,
  block, pos,       \* None, or the block being added; its next transaction
  leaving           \* the records of the cursor's block are gone already

vars == <<indexed, content, block, pos, leaving>>

Init ==
  /\ indexed = None
  /\ content = IndexAt(None)
  /\ block = None
  /\ pos = 0
  /\ leaving = FALSE

\* A block on top of its parent. The first block there can be, at StartHeight,
\* has a parent the index knows nothing of.
Begin(b) ==
  /\ block = None /\ ~leaving
  /\ IF HeightOf[b] = StartHeight THEN indexed \notin Block
                                  ELSE indexed = ParentOf[b]
  /\ block' = b
  /\ pos' = 1
  /\ UNCHANGED <<indexed, content, leaving>>

\* Its next transaction shows, before the block counts.
Transact ==
  /\ block # None
  /\ pos <= TxCount[block]
  /\ content = Replay[block][pos]
  /\ content' = Replay[block][pos + 1]
  /\ pos' = pos + 1
  /\ UNCHANGED <<indexed, block, leaving>>

\* All of them do: the block counts.
Complete ==
  /\ block # None
  /\ pos = TxCount[block] + 1
  /\ content = IndexAt(block)
  /\ indexed' = block
  /\ block' = None
  /\ pos' = 0
  /\ UNCHANGED <<content, leaving>>

\* The block is given up, of which nothing showed.
Abandon ==
  /\ block # None
  /\ content = IndexAt(indexed)
  /\ block' = None
  /\ pos' = 0
  /\ UNCHANGED <<indexed, content, leaving>>

\* The last block is taken back: its records first, in one step, then its name.
TakeBack ==
  /\ indexed \in Block
  /\ block = None /\ ~leaving
  /\ content = IndexAt(indexed)
  /\ content' = IndexAt(ParentOf[indexed])
  /\ leaving' = TRUE
  /\ UNCHANGED <<indexed, block, pos>>

Retract ==
  /\ leaving
  /\ content = IndexAt(ParentOf[indexed])
  /\ indexed' = ParentOf[indexed]
  /\ leaving' = FALSE
  /\ UNCHANGED <<content, block, pos>>

Next ==
  \/ \E b \in Block : Begin(b)
  \/ Transact \/ Complete \/ Abandon \/ TakeBack \/ Retract

Spec == Init /\ [][Next]_vars

=============================================================================
