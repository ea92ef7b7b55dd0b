---------------------------- MODULE SqliteIndexer ----------------------------
(* The ingest loop of Indexer over the durable store of                       *)
(* src/indexer/sqliteStore.js, one step per statement the database commits:   *)
(* a process may die between any two, and the next one takes up what the      *)
(* database holds.                                                            *)
(*                                                                           *)
(* The tables are Indexer's store variables: records is the table of that     *)
(* name, undo the rows of `blocks' in the order of their heights, cursor the  *)
(* row of `meta'. apply() and revert() are one database transaction each;     *)
(* commitBlock() and rollbackBlock() are three statements that are not.       *)
EXTENDS Indexer

CONSTANTS
  CrashAnywhere,    \* may a process die in the middle of a block?
  MaxRestarts       \* bound: how often a process is started again

ASSUME RestartAssumption == CrashAnywhere \in BOOLEAN /\ MaxRestarts \in Nat

VARIABLES
  last,             \* rollbackBlock: the row it takes back
  restarts

durableVars == <<vars, last, restarts>>

\* Inside commitBlock() and rollbackBlock(), which never await.
Committing == {"trim", "meta"}
RollingBack == {"drop", "move"}

DurableTypeOK ==
  /\ records \in Records
  /\ undo \in Seq(Undo)
  /\ \/ cursor = None
     \/ cursor \in [height : Int, hash : Block \cup {ParentOf[b] : b \in Block}]
  /\ pc \in Running \cup Committing \cup RollingBack \cup {"done", "failed"}
  /\ tip \in Int /\ next \in Int
  /\ fetched \in Block \cup {None} /\ block \in Block \cup {None}
  /\ pos \in Nat /\ idx \in Nat
  /\ before \in Seq(Write)
  /\ stopping \in BOOLEAN
  /\ failure \in {"none", "upstream", "reorg_beyond_undo_window"}
  /\ best \in Block
  /\ reorgs \in 0 .. MaxReorgs
  /\ highest \in Int
  /\ IF pc \in RollingBack THEN last \in Undo ELSE last = None
  /\ restarts \in 0 .. MaxRestarts

DurableInit == Init /\ last = None /\ restarts = 0

-----------------------------------------------------------------------------
(* commitBlock(): the row, the trim, the cursor. *)

Entry == [height |-> HeightOf[block], hash |-> block,
          previousHash |-> ParentOf[block], before |-> before]

\* The rows are in the order of their heights: how many are below height h,
\* those that are, and the others.
Below(rows, h) == Cardinality({i \in DOMAIN rows : rows[i].height < h})
RowsBelow(rows, h) == SubSeq(rows, 1, Below(rows, h))
RowsFrom(rows, h) == SubSeq(rows, Below(rows, h) + 1, Len(rows))

\* INSERT OR REPLACE: a row of that height is replaced.
WithRow(rows, row) ==
  Append(RowsBelow(rows, row.height), row) \o RowsFrom(rows, row.height + 1)

\* DELETE ... WHERE height = ?
WithoutRow(rows, h) == RowsBelow(rows, h) \o RowsFrom(rows, h + 1)

\* Mutant of Trimmed: the oldest row that should stay goes too.
TrimmedShort(rows) ==
  LET excess == Len(rows) - UndoDepth
  IN  IF excess <= 0 THEN rows ELSE RowsFrom(rows, rows[1].height + excess + 1)

\* DELETE ... WHERE height <= ?, if there are more than undoDepth rows.
Trimmed(rows) ==
  LET excess == Len(rows) - UndoDepth
  IN  IF excess <= 0 THEN rows ELSE RowsFrom(rows, rows[1].height + excess)

PushRow ==
  /\ pc = "apply"
  /\ pos > TxCount[block]
  /\ undo' = WithRow(undo, Entry)
  /\ highest' = Max({highest, HeightOf[block]})
  /\ pc' = "trim"
  /\ UNCHANGED <<records, cursor, tip, next, ingest, stopping, failure, source,
                 last, restarts>>

TrimRows ==
  /\ pc = "trim"
  /\ undo' = Trimmed(undo)
  /\ pc' = "meta"
  /\ UNCHANGED <<records, cursor, tip, next, ingest, stopping, failure, source,
                 highest, last, restarts>>

SetCursor ==
  /\ pc = "meta"
  /\ cursor' = [height |-> HeightOf[block], hash |-> block]
  /\ next' = next + 1
  /\ pc' = "fetch"
  /\ block' = None /\ pos' = 0 /\ idx' = 0 /\ before' = << >>
  /\ UNCHANGED <<records, undo, tip, fetched, stopping, failure, source, highest,
                 last, restarts>>

-----------------------------------------------------------------------------
(* rollbackBlock(): the records, the row, the cursor. *)

RevertLast(b) ==
  /\ Fetched(b)
  /\ ~Fits(b)
  /\ undo # << >>
  /\ last' = undo[Len(undo)]
  /\ records' = Revert(records, last'.before)
  /\ fetched' = None
  /\ pc' = "drop"
  /\ UNCHANGED <<undo, cursor, tip, next, block, pos, idx, before, stopping,
                 failure, source, highest, restarts>>

DropRow ==
  /\ pc = "drop"
  /\ undo' = WithoutRow(undo, last.height)
  /\ pc' = "move"
  /\ UNCHANGED <<records, cursor, tip, next, ingest, stopping, failure, source,
                 highest, last, restarts>>

\* Mutant of MoveCursor: the cursor stays at the row that was dropped.
MoveCursorNowhere ==
  /\ pc = "move"
  /\ next' = cursor.height + 1
  /\ last' = None
  /\ pc' = "fetch"
  /\ UNCHANGED <<store, tip, ingest, stopping, failure, source, highest, restarts>>

MoveCursor ==
  /\ pc = "move"
  /\ cursor' = IF undo # << >>
               THEN [height |-> undo[Len(undo)].height, hash |-> undo[Len(undo)].hash]
               ELSE [height |-> last.height - 1, hash |-> last.previousHash]
  /\ next' = cursor'.height + 1
  /\ last' = None
  /\ pc' = "fetch"
  /\ UNCHANGED <<records, undo, tip, ingest, stopping, failure, source, highest,
                 restarts>>

-----------------------------------------------------------------------------
(* Processes. *)

\* No record was written that only the process's own memory accounts for, and
\* no rollback is under way.
Undisturbed == before = << >> /\ pc \notin RollingBack

\* The process ends, by itself, by run() rejecting or by dying, and another
\* one opens the database.
Restart ==
  /\ restarts < MaxRestarts
  /\ CrashAnywhere \/ Undisturbed
  /\ restarts' = restarts + 1
  /\ pc' = "poll"
  /\ tip' = StartHeight - 1 /\ next' = StartHeight
  /\ fetched' = None /\ block' = None
  /\ pos' = 0 /\ idx' = 0 /\ before' = << >>
  /\ stopping' = FALSE
  /\ failure' = "none"
  /\ last' = None
  /\ UNCHANGED <<store, source, highest>>

\* What Indexer does whichever store is behind it.
Shared ==
  \/ Poll \/ Wake \/ Finish \/ LeaveInner \/ AskForBlock \/ SourceAnswers
  \/ \E b \in Block : BeginBlock(b) \/ RefuseReorg(b)
  \/ ApplyTransaction

DurableIngest ==
  \/ Shared /\ UNCHANGED <<last, restarts>>
  \/ PushRow \/ TrimRows \/ SetCursor
  \/ \E b \in Block : RevertLast(b)
  \/ DropRow \/ MoveCursor

Surroundings == LeaveOutTransaction \/ RequestFails \/ Stop \/ SourceMoves

DurableNext ==
  \/ DurableIngest
  \/ Surroundings /\ UNCHANGED <<last, restarts>>
  \/ Restart
  \/ Ended /\ UNCHANGED durableVars

DurableSpec == DurableInit /\ [][DurableNext]_durableVars

\* The process is scheduled, and its requests are answered or fail.
DurableFairSpec ==
  /\ DurableSpec
  /\ WF_durableVars(DurableIngest \/ (RequestFails /\ UNCHANGED <<last, restarts>>))

-----------------------------------------------------------------------------
(* Properties. *)

\* A block counts as taken back once its records are: the row and the cursor
\* follow within the same call.
DurableIndexed == IF pc \in RollingBack THEN last.previousHash ELSE Indexed

\* After any history of reorgs, failures and restarts, what the database holds
\* is what a fresh index of the chain at its cursor would hold.
\* (indexer.js:7-16, sqliteStore.js:11-13)
DurableIndexMatchesChain ==
  Revert(records, before) = IndexAt(DurableIndexed)

\* "The reorg window survives a restart": the rows reach at least UndoDepth
\* blocks below the highest block ever pushed, whoever pushed it, or to the
\* first block; a reorg that goes no deeper is never refused. A process that
\* dies before the trim leaves a row more than that, never one less.
\* (sqliteStore.js:11-13, 152-160)
WindowSurvivesRestart ==
  LET floor == Max({StartHeight - 1, highest - UndoDepth})
      reach == IF undo = << >> THEN cursor.height ELSE undo[1].height - 1
  IN  /\ DurableTypeOK
      /\ cursor # None /\ pc # "move" => reach <= floor
      /\ failure = "reorg_beyond_undo_window" => cursor.height <= floor
      /\ Len(undo) <= UndoDepth + 1

\* To a process that reads the tables, with no idea what the writer remembers,
\* they are TableIndex: the first transactions of a block do show before it
\* counts, but always of the one block on top of the cursor's, in order, and
\* until it counts; restarts and rows left above the cursor never show.
\* (indexer.js:84-105, sqliteStore.js:110-177)
Leaving == pc \in RollingBack /\ last.hash = cursor.hash
TablePromise ==
  INSTANCE TableIndex WITH indexed <- Indexed, content <- records,
                           leaving <- Leaving
DurableImplementsTableIndex == TablePromise!Spec

\* And it catches up, however often it was restarted, once the source keeps to
\* a chain higher than anything it saw.
DurableCatchesUp ==
  (reorgs = MaxReorgs /\ restarts = MaxRestarts /\ Higher)
    ~> (OnTip \/ stopping \/ failure # "none" \/ (Once /\ pc = "done"))

-----------------------------------------------------------------------------
(* What an inductive proof of the properties needs besides them; the proofs    *)
(* are in IndexerProofs.                                                      *)

\* The row of a block, undoing which leads from what the block amounts to, to
\* what its parent amounts to.
RowOfBlock(row) ==
  /\ row.height = HeightOf[row.hash]
  /\ row.previousHash = ParentOf[row.hash]
  /\ Revert(IndexAt(row.hash), row.before) = IndexAt(row.previousHash)

\* Rows of blocks on top of each other.
Stacked(rows) ==
  \A i \in DOMAIN rows : rows[i].height = rows[Len(rows)].height - Len(rows) + i
Linked(rows) ==
  /\ Stacked(rows)
  /\ \A i \in DOMAIN rows :
       /\ RowOfBlock(rows[i])
       /\ i > 1 => rows[i].previousHash = rows[i - 1].hash

\* The rows, the one being taken back among them until the cursor has moved.
Rows == IF pc = "move" THEN Append(undo, last) ELSE undo

\* Block b is one that fits on the cursor.
BuildsOnCursor(b) ==
  /\ HeightOf[b] = Height + 1
  /\ cursor = None \/ ParentOf[b] \in {NoHash, cursor.hash}

\* The newest row is that of the cursor's block. Or it is one block above it:
\* the block whose commit is under way, or one that a process left behind
\* before it moved the cursor, which it did only if the block wrote nothing.
TopPlaced ==
  /\ Rows # << >> =>
       LET top == Rows[Len(Rows)]
       IN  /\ top.height <= highest
           /\ \/ cursor = [height |-> top.height, hash |-> top.hash]
              \/ /\ BuildsOnCursor(top.hash)
                 /\ pc \in Committing \/ top.before = << >>
  /\ pc \in Committing => undo # << >> /\ undo[Len(undo)] = Entry
  /\ pc = "drop" => undo # << >> /\ undo[Len(undo)] = last

\* The cursor is at a block, or just below a first one.
DurableCursorPlaced ==
  /\ CursorPlaced
  /\ cursor # None /\ cursor.hash \notin Block =>
       \E b \in Block : HeightOf[b] = StartHeight /\ ParentOf[b] = cursor.hash

\* The block being fetched, applied or committed is the one just above the
\* cursor.
DurableBlockPlaced ==
  /\ pc \in {"fetch", "await", "apply"} \cup Committing => next = Height + 1
  /\ fetched # None => pc = "await" /\ HeightOf[fetched] = next
  /\ pc \in {"apply"} \cup Committing => block # None
  /\ pc \in RollingBack => cursor # None
  /\ pc # "failed" => failure = "none"
  /\ failure = "reorg_beyond_undo_window" => undo = << >> /\ cursor # None
  /\ block = None => pos = 0 /\ before = << >>
  /\ block # None =>
       /\ pc \in {"apply", "failed"} \cup Committing
       /\ failure # "reorg_beyond_undo_window"
       /\ pos \in 1 .. TxCount[block] + 1
       /\ pc \in Committing => pos = TxCount[block] + 1
       /\ idx = pos - 1
       /\ BuildsOnCursor(block)
       /\ records = Replay[block][pos]

\* The rows reach far enough down, and there is at most one too many: one that
\* was not trimmed yet, or never will be, above the cursor.
Reach == IF Rows = << >> THEN Height ELSE Rows[1].height - 1
WindowKept ==
  /\ Reach <= Max({StartHeight - 1, highest - UndoDepth})
  /\ Len(Rows) <= UndoDepth + 1
  /\ Len(Rows) = UndoDepth + 1 => Rows[Len(Rows)].height = Height + 1
  /\ pc = "meta" => Len(undo) <= UndoDepth

DurableIInv ==
  /\ DurableTypeOK /\ Linked(Rows) /\ TopPlaced /\ DurableCursorPlaced
  /\ DurableBlockPlaced /\ WindowKept /\ DurableIndexMatchesChain

=============================================================================
