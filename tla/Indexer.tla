------------------------------ MODULE Indexer ------------------------------
(* The ingest loop of src/indexer/indexer.js over the in-memory store of      *)
(* src/indexer/store.js, against a block source that may switch to another   *)
(* chain between any two requests, stop answering, or leave a transaction    *)
(* out of a bulk answer (src/indexer/blockSource.js).                         *)
(*                                                                           *)
(* What blocks there are, and what their transactions write, is in Chain.     *)
EXTENDS Chain, StoreLoops

CONSTANTS
  Unavailable,      \* the <<block, position>>s a bulk answer may leave out
  UndoDepth,
  Window,           \* transactions per window of bulk requests
  Once, Until,      \* the options of run: None is until the source's tip
  MaxReorgs         \* bound: how often the source's chain changes

ASSUME SizeAssumption ==
  /\ UndoDepth \in Nat \ {0}
  /\ Window \in Nat \ {0}
  /\ MaxReorgs \in Nat
  /\ Once \in BOOLEAN
  /\ Until \in Int \cup {None}

VARIABLES
  records,          \* store.maps
  undo,             \* store.undo, oldest first
  cursor,           \* store.cursor: None, or [height, hash]
  pc,               \* where run() and ingestBlock() are
  tip, next,        \* the locals of run()
  fetched,          \* ingestBlock: the block the source answered with
  block, pos, idx,  \* ingestBlock: the block applied, the next txid, txs yielded
  before,           \* ingestBlock: the values captured so far
  stopping,         \* stop() was called
  failure,          \* why run() rejected
  best, reorgs,     \* the tip of the source's chain; how often it changed
  highest           \* history: the highest height ever committed

store == <<records, undo, cursor>>
ingest == <<fetched, block, pos, idx, before>>
source == <<best, reorgs>>
vars == <<store, pc, tip, next, ingest, stopping, failure, source, highest>>

Running == {"poll", "sleep", "fetch", "await", "apply"}

Undo == [height : Int, hash : Block, previousHash : {ParentOf[b] : b \in Block},
         before : Seq(Write)]

TypeOK ==
  /\ records \in Records
  /\ undo \in Seq(Undo)
  /\ \/ cursor = None
     \/ cursor \in [height : Int, hash : Block \cup {ParentOf[b] : b \in Block}]
  /\ pc \in Running \cup {"done", "failed"}
  /\ tip \in Int /\ next \in Int
  /\ fetched \in Block \cup {None} /\ block \in Block \cup {None}
  /\ pos \in Nat /\ idx \in Nat
  /\ before \in Seq(Write)
  /\ stopping \in BOOLEAN
  /\ failure \in {"none", "upstream", "reorg_beyond_undo_window"}
  /\ best \in Block
  /\ reorgs \in 0 .. MaxReorgs
  /\ highest \in Int

-----------------------------------------------------------------------------
(* The store: store.js. *)

\* The getter `height'.
Height == IF cursor = None THEN StartHeight - 1 ELSE cursor.height

\* blockHashAt(height): an undo entry at that height, else the cursor's own.
BlockHashAt(height) ==
  LET at == {i \in DOMAIN undo : undo[i].height = height}
  IN  IF at # {} THEN undo[Min(at)].hash
      ELSE IF cursor # None /\ cursor.height = height THEN cursor.hash
      ELSE NoHash

\* Mutant of Pushed: one entry too many is shifted out.
PushedShort(log, entry) ==
  LET longer == Append(log, entry)
  IN  SubSeq(longer, Max({1, Len(longer) - UndoDepth + 2}), Len(longer))

\* The undo log once a block is pushed and the oldest entries are shifted out.
Pushed(log, entry) ==
  LET longer == Append(log, entry)
  IN  SubSeq(longer, Max({1, Len(longer) - UndoDepth + 1}), Len(longer))

\* Mutant of CursorBelow: the parent below the log is implied, not named.
CursorBelowUnnamed(log) ==
  LET n == Len(log)
  IN  IF n > 1
      THEN [height |-> log[n - 1].height, hash |-> log[n - 1].hash]
      ELSE [height |-> log[n].height - 1, hash |-> NoHash]

\* Where the cursor goes when the last entry of log is rolled back.
CursorBelow(log) ==
  LET n == Len(log)
  IN  IF n > 1
      THEN [height |-> log[n - 1].height, hash |-> log[n - 1].hash]
      ELSE [height |-> log[n].height - 1, hash |-> log[n].previousHash]

-----------------------------------------------------------------------------
(* run() and ingestBlock(): indexer.js. *)

\* Mutant of Fits: the hash is looked up at the new block's own height.
FitsOwnHeight(b) ==
  cursor # None => ParentOf[b] \in {NoHash, BlockHashAt(HeightOf[b])}

\* Does block b build on what was already indexed?
Fits(b) ==
  cursor # None => ParentOf[b] \in {NoHash, BlockHashAt(cursor.height)}

Init ==
  /\ records = Empty
  /\ undo = << >>
  /\ cursor = None
  /\ pc = "poll"
  /\ tip = StartHeight - 1
  /\ next = StartHeight
  /\ fetched = None /\ block = None /\ pos = 0 /\ idx = 0 /\ before = << >>
  /\ stopping = FALSE
  /\ failure = "none"
  /\ best \in Block
  /\ reorgs = 0
  /\ highest = StartHeight - 1

TipHeight == HeightOf[best]
Target == IF Until = None THEN TipHeight ELSE Until

\* Mutant of Poll: at the tip, the loop ends instead of waiting.
PollOnce ==
  /\ pc = "poll"
  /\ ~stopping
  /\ tip' = Target
  /\ next' = Height + 1
  /\ pc' = IF next' <= tip' THEN "fetch" ELSE "done"
  /\ UNCHANGED <<store, ingest, stopping, failure, source, highest>>

\* The top of run(): the tip is read and compared with the index.
Poll ==
  /\ pc = "poll"
  /\ ~stopping
  /\ tip' = Target
  /\ next' = Height + 1
  /\ pc' = IF next' <= tip' THEN "fetch" ELSE IF Once THEN "done" ELSE "sleep"
  /\ UNCHANGED <<store, ingest, stopping, failure, source, highest>>

\* pollMs later.
Wake ==
  /\ pc = "sleep"
  /\ pc' = "poll"
  /\ UNCHANGED <<store, tip, next, ingest, stopping, failure, source, highest>>

\* The outer loop ends because stop() was called.
Finish ==
  /\ pc = "poll"
  /\ stopping
  /\ pc' = "done"
  /\ UNCHANGED <<store, tip, next, ingest, stopping, failure, source, highest>>

\* The inner loop ends: the tip is reached, or stop() was called.
LeaveInner ==
  /\ pc = "fetch"
  /\ next > tip \/ stopping
  /\ pc' = IF Once THEN "done" ELSE "poll"
  /\ UNCHANGED <<store, tip, next, ingest, stopping, failure, source, highest>>

\* The inner loop goes on: ingestBlock(next) asks for the block.
AskForBlock ==
  /\ pc = "fetch"
  /\ next <= tip
  /\ ~stopping
  /\ pc' = "await"
  /\ UNCHANGED <<store, tip, next, ingest, stopping, failure, source, highest>>

\* The source answers with the block its chain holds there at that moment; the
\* loop goes on later, when that chain may be another.
SourceAnswers ==
  /\ pc = "await"
  /\ fetched = None
  /\ next \in DOMAIN ChainTo[best]
  /\ fetched' = ChainTo[best][next]
  /\ UNCHANGED <<store, pc, tip, next, block, pos, idx, before, stopping, failure,
                 source, highest>>

\* ingestBlock has its block, whatever the source's chain and stopping are now.
Fetched(b) == pc = "await" /\ b = fetched

\* The block builds on the index: its transactions come next.
BeginBlock(b) ==
  /\ Fetched(b)
  /\ Fits(b)
  /\ pc' = "apply"
  /\ fetched' = None
  /\ block' = b /\ pos' = 1 /\ idx' = 0 /\ before' = << >>
  /\ UNCHANGED <<store, tip, next, stopping, failure, source, highest>>

\* It does not, and there is a block to undo: rollbackBlock().
Rollback(b) ==
  /\ Fetched(b)
  /\ ~Fits(b)
  /\ undo # << >>
  /\ records' = Revert(records, undo[Len(undo)].before)
  /\ cursor' = CursorBelow(undo)
  /\ undo' = SubSeq(undo, 1, Len(undo) - 1)
  /\ next' = cursor'.height + 1
  /\ pc' = "fetch"
  /\ fetched' = None
  /\ UNCHANGED <<tip, block, pos, idx, before, stopping, failure, source, highest>>

\* It does not, and nothing is left to undo: run() rejects.
RefuseReorg(b) ==
  /\ Fetched(b)
  /\ ~Fits(b)
  /\ undo = << >>
  /\ pc' = "failed"
  /\ failure' = "reorg_beyond_undo_window"
  /\ fetched' = None
  /\ UNCHANGED <<store, tip, next, block, pos, idx, before, stopping, source,
                 highest>>

\* Mutant of ApplyTransaction: what a later transaction replaced is put first.
ApplyTransactionPrepending ==
  /\ pc = "apply"
  /\ pos <= TxCount[block]
  /\ LET writes == Writes(records, block, pos, idx)
     IN  /\ records' = Apply(records, writes)
         /\ before' = Before(records, writes) \o before
  /\ pos' = pos + 1
  /\ idx' = idx + 1
  /\ UNCHANGED <<undo, cursor, pc, tip, next, fetched, block, stopping, failure,
                 source, highest>>

\* The source yields the next transaction, which is applied at once.
ApplyTransaction ==
  /\ pc = "apply"
  /\ pos <= TxCount[block]
  /\ LET writes == Writes(records, block, pos, idx)
     IN  /\ records' = Apply(records, writes)
         /\ before' = before \o Before(records, writes)
  /\ pos' = pos + 1
  /\ idx' = idx + 1
  /\ UNCHANGED <<undo, cursor, pc, tip, next, fetched, block, stopping, failure,
                 source, highest>>

\* fetchBatch: the bulk answer has no row, or another transaction, for this
\* txid; it is logged and left out.
LeaveOutTransaction ==
  /\ pc = "apply"
  /\ pos <= TxCount[block]
  /\ <<block, pos>> \in Unavailable
  /\ pos' = pos + 1
  /\ UNCHANGED <<store, pc, tip, next, fetched, block, idx, before, stopping,
                 failure, source, highest>>

\* commitBlock(), and the next height.
CommitBlock ==
  /\ pc = "apply"
  /\ pos > TxCount[block]
  /\ undo' = Pushed(undo, [height |-> HeightOf[block], hash |-> block,
                           previousHash |-> ParentOf[block], before |-> before])
  /\ cursor' = [height |-> HeightOf[block], hash |-> block]
  /\ highest' = Max({highest, HeightOf[block]})
  /\ next' = next + 1
  /\ pc' = "fetch"
  /\ block' = None /\ pos' = 0 /\ idx' = 0 /\ before' = << >>
  /\ UNCHANGED <<records, tip, fetched, stopping, failure, source>>

\* A request fails for good (its retries included), or asks for a height the
\* source no longer has: run() rejects, leaving everything as it stands. While
\* a block is applied this is met only where a window of bulk requests begins.
RequestFails ==
  /\ \/ pc = "poll" /\ ~stopping
     \/ pc = "await" /\ fetched = None
     \/ pc = "apply" /\ pos <= TxCount[block] /\ (pos - 1) % Window = 0
  /\ pc' = "failed"
  /\ failure' = "upstream"
  /\ UNCHANGED <<store, tip, next, ingest, stopping, source, highest>>

\* stop(), from the SIGINT handler.
Stop ==
  /\ pc \in Running
  /\ ~stopping
  /\ stopping' = TRUE
  /\ UNCHANGED <<store, pc, tip, next, ingest, failure, source, highest>>

\* The source's chain grows, or gives way to another one.
SourceMoves ==
  /\ reorgs < MaxReorgs
  /\ reorgs' = reorgs + 1
  /\ best' \in Block \ {best}
  /\ UNCHANGED <<store, pc, tip, next, ingest, stopping, failure, highest>>

\* run() has returned or rejected.
Ended == pc \in {"done", "failed"}
Terminated == Ended /\ UNCHANGED vars

Ingest ==
  \/ Poll \/ Wake \/ Finish \/ LeaveInner \/ AskForBlock \/ SourceAnswers
  \/ \E b \in Block : BeginBlock(b) \/ Rollback(b) \/ RefuseReorg(b)
  \/ ApplyTransaction \/ CommitBlock

Next ==
  \/ Ingest \/ LeaveOutTransaction \/ RequestFails
  \/ Stop \/ SourceMoves \/ Terminated

Spec == Init /\ [][Next]_vars

\* Every request is answered or fails, and the process is scheduled.
FairSpec == Spec /\ WF_vars(Ingest \/ RequestFails)

-----------------------------------------------------------------------------
(* Properties. *)

\* The hash of the block the index stands at.
Indexed == IF cursor = None THEN None ELSE cursor.hash

\* What the index holds is exactly what a fresh index of the chain ending at
\* the cursor would hold: no forked-off block leaves a trace, however often the
\* source changed its mind. While a block is applied it holds that block's
\* first transactions on top, and the values captured so far take it back.
\* (indexer.js:7-16, store.js:15-16)
IndexMatchesChain ==
  IF block = None
  THEN records = IndexAt(Indexed)
  ELSE /\ records = Replay[block][pos]
       /\ Revert(records, before) = IndexAt(Indexed)

\* On whatever the index holds, and whatever a transaction writes or a block
\* captured so far, the store's loops do what the closed forms say: a key
\* written twice by one transaction, or by two of a block, is captured once
\* per write and ends up restored to what it held first. (store.js:51-69)
LoopsAreClosedForms ==
  /\ pc = "apply" /\ pos <= TxCount[block] =>
       LET writes == Writes(records, block, pos, idx)
       IN  ApplyLoop(records, writes) =
             [map |-> Apply(records, writes), before |-> Before(records, writes)]
  /\ RevertLoop(records, before) = Revert(records, before)

\* The undo log reaches back exactly UndoDepth blocks below the highest block
\* ever committed, or to the first block indexed, however many rollbacks and
\* commits alternated; so a reorg is refused only when it goes deeper.
\* (store.js:71-100, indexer.js:52-69)
UndoWindowHolds ==
  LET floor == Max({StartHeight - 1, highest - UndoDepth})
  IN  /\ cursor # None => cursor.height - Len(undo) = floor
      /\ failure = "reorg_beyond_undo_window" => cursor.height = floor

\* A block is rolled back only on the word of a chain without it: the block
\* the source answered with is neither that block nor on top of it, as far down
\* as the undo log goes. The source may hold it again by then: it is then
\* indexed a second time, which CatchesUp is about. (indexer.js:44-50)
RollsBackOnlyOrphans ==
  [][Height' < Height =>
       cursor.hash \notin {ChainTo[fetched][h] : h \in DOMAIN ChainTo[fetched]}]_vars

\* Once the source keeps to one chain, higher than anything indexed or being
\* indexed so far, the index gets to its tip, unless it is stopped, a request
\* fails, or the reorg is refused. (A chain no higher than the index is not
\* even looked at: indexer.js:124.) (indexer.js:115-151)
Higher ==
  /\ highest < TipHeight
  /\ \A b \in {fetched, block} \ {None} : HeightOf[b] < TipHeight
OnTip == cursor # None /\ cursor.hash = best
CatchesUp ==
  (reorgs = MaxReorgs /\ Higher)
    ~> (OnTip \/ stopping \/ failure # "none" \/ (Once /\ pc = "done"))

\* The index of the blocks committed so far: what the store holds, but for the
\* block being applied, which the loop can always take back. It moves by whole
\* blocks. (indexer.js:7-16; the maps are read by nobody else meanwhile. What
\* a process sees that reads a database being written is TableIndex.)
Content == IF block = None THEN records ELSE Revert(records, before)
Promise == INSTANCE ChainIndex WITH indexed <- Indexed, content <- Content
ImplementsChainIndex == Promise!Spec


-----------------------------------------------------------------------------
(* What an inductive proof of the properties needs besides them; the proofs    *)
(* are in IndexerProofs.                                                      *)

\* The undo log is the chain's own top end: each entry is a block committed on
\* its parent, the last one is where the cursor stands, and undoing an entry
\* leads from what its block amounts to, to what its parent amounts to.
UndoLinked ==
  /\ cursor = None => undo = << >>
  /\ undo # << >> =>
       cursor = [height |-> undo[Len(undo)].height, hash |-> undo[Len(undo)].hash]
  /\ \A i \in DOMAIN undo :
       /\ undo[i].height = HeightOf[undo[i].hash]
       /\ undo[i].height = cursor.height - Len(undo) + i
       /\ undo[i].previousHash = ParentOf[undo[i].hash]
       /\ Revert(IndexAt(undo[i].hash), undo[i].before) = IndexAt(undo[i].previousHash)
       /\ i > 1 => undo[i].previousHash = undo[i - 1].hash

\* The cursor's height is that of its block, or just below StartHeight.
CursorPlaced ==
  cursor # None =>
    cursor.height = IF cursor.hash \in Block THEN HeightOf[cursor.hash]
                                             ELSE StartHeight - 1

\* The block being fetched or applied is the one just above the cursor, and
\* what it builds on is what the index holds.
BlockPlaced ==
  /\ pc \in {"fetch", "await", "apply"} => next = Height + 1
  /\ fetched # None => pc = "await" /\ HeightOf[fetched] = next
  /\ pc = "apply" => block # None
  /\ pc # "failed" => failure = "none"
  /\ block # None =>
       /\ pc \in {"apply", "failed"}
       /\ failure # "reorg_beyond_undo_window"
       /\ pos \in 1 .. TxCount[block] + 1
       /\ idx = pos - 1
       /\ HeightOf[block] = Height + 1
       /\ IF HeightOf[block] = StartHeight THEN Indexed \notin Block
                                           ELSE Indexed = ParentOf[block]
HighestPlaced ==
  /\ highest >= Height
  /\ cursor = None => highest = StartHeight - 1
  /\ failure = "reorg_beyond_undo_window" => cursor # None

IInv ==
  /\ TypeOK /\ UndoLinked /\ CursorPlaced /\ BlockPlaced /\ HighestPlaced
  /\ IndexMatchesChain /\ UndoWindowHolds

=============================================================================
