---------------------------- MODULE IndexerProofs ----------------------------
(* The safety properties of Indexer and, restarts included, of SqliteIndexer,  *)
(* for every tree of blocks, every rule for what a transaction writes, every   *)
(* undo depth and every behaviour of the source that leaves no transaction     *)
(* out.                                                                       *)
EXTENDS SqliteIndexer, HelperProofs

\* The source answers for every transaction it lists.
Lossless == Unavailable = {}

-----------------------------------------------------------------------------
(* Facts about the helpers. *)

\* Applying writes, and capturing what they replace, keeps to keys and values.
LEMMA ApplyInRecords ==
  ASSUME NEW rec \in Records, NEW writes \in Seq(Write)
  PROVE  Apply(rec, writes) \in Records
<1>1. DOMAIN rec = Key /\ rec \in [Key -> Value \cup {Absent}]
  BY DEF Records
<1>2. ASSUME NEW k \in Key
      PROVE  Apply(rec, writes)[k] \in Value \cup {Absent}
  <2>1. CASE Touches(writes, k) = {}
    BY <1>1, <2>1 DEF Apply
  <2>2. CASE Touches(writes, k) # {}
    <3>1. Touches(writes, k) \in SUBSET (1 .. Len(writes)) /\ Len(writes) \in Nat
      BY DEF Touches
    <3>2. Max(Touches(writes, k)) \in 1 .. Len(writes)
      BY <2>2, <3>1, MaxIsGreatest
    <3>3. writes[Max(Touches(writes, k))] \in Write
      BY <3>2
    <3>4. writes[Max(Touches(writes, k))].value \in Value \cup {Absent}
      BY <3>3 DEF Write
    <3>5. QED
      BY <1>1, <2>2, <3>4 DEF Apply
  <2>3. QED
    BY <2>1, <2>2
<1>3. Apply(rec, writes) = [k \in Key |-> Apply(rec, writes)[k]]
  BY <1>1 DEF Apply
<1>4. QED
  BY <1>2, <1>3 DEF Records

LEMMA BeforeIsWrites ==
  ASSUME NEW rec \in Records, NEW writes \in Seq(Write)
  PROVE  Before(rec, writes) \in Seq(Write)
<1>1. ASSUME NEW i \in 1 .. Len(writes)
      PROVE  Before(rec, writes)[i] \in Write
  <2>1. SubSeq(writes, 1, i - 1) \in Seq(Write)
    OBVIOUS
  <2>2. Apply(rec, SubSeq(writes, 1, i - 1)) \in Records
    BY <2>1, ApplyInRecords
  <2>3. writes[i] \in Write
    OBVIOUS
  <2>4. Apply(rec, SubSeq(writes, 1, i - 1))[writes[i].key] \in Value \cup {Absent}
    BY <2>2, <2>3 DEF Records, Write
  <2>5. QED
    BY <2>3, <2>4 DEF Before, Write
<1>2. Before(rec, writes) = [i \in 1 .. Len(writes) |-> Before(rec, writes)[i]]
  BY DEF Before
<1>3. Len(writes) \in Nat
  OBVIOUS
<1>4. QED
  BY <1>1, <1>2, <1>3

LEMMA IndexAtInRecords ==
  ASSUME NEW h
  PROVE  IndexAt(h) \in Records
<1>1. CASE h \in Block
  <2>1. TxCount[h] + 1 \in 1 .. TxCount[h] + 1
    BY <1>1, BlockAssumption
  <2>2. QED
    BY <1>1, <2>1, ReplayAssumption DEF IndexAt
<1>2. CASE h \notin Block
  BY <1>2, ReplayAssumption DEF IndexAt
<1>3. QED
  BY <1>1, <1>2

\* Undoing nothing changes nothing.
LEMMA RevertNothing ==
  ASSUME NEW rec \in Records
  PROVE  Revert(rec, << >>) = rec
BY DEF Revert, Touches, Records

-----------------------------------------------------------------------------
(* Facts about the states of IInv. *)

\* blockHashAt at the cursor's height is the cursor's own hash.
LEMMA CursorHash ==
  ASSUME TypeOK, UndoLinked, cursor # None
  PROVE  BlockHashAt(cursor.height) = cursor.hash
<1> DEFINE at == {i \in DOMAIN undo : undo[i].height = cursor.height}
<1>1. Len(undo) \in Nat /\ DOMAIN undo = 1 .. Len(undo) /\ cursor.height \in Int
  BY DEF TypeOK
<1>2. at \subseteq {Len(undo)}
  BY <1>1 DEF UndoLinked
<1>3. CASE at = {}
  BY <1>3 DEF BlockHashAt
<1>4. CASE at # {}
  <2>1. at = {Len(undo)} /\ at \in SUBSET Nat
    BY <1>1, <1>2, <1>4
  <2>2. Min(at) = Len(undo)
    BY <2>1, MinIsLeast
  <2>3. undo # << >>
    BY <1>4
  <2>4. QED
    BY <1>4, <2>2, <2>3 DEF BlockHashAt, UndoLinked
<1>5. QED
  BY <1>3, <1>4

\* A block at the height asked for has a parent just below, unless it is the
\* first there can be.
LEMMA ServedBlock ==
  ASSUME NEW b \in Block, HeightOf[b] = next
  PROVE  /\ next \in Int /\ next >= StartHeight
         /\ next > StartHeight =>
              ParentOf[b] \in Block /\ HeightOf[ParentOf[b]] = next - 1
         /\ next = StartHeight => ParentOf[b] \notin Block
BY BlockAssumption

\* The source answers with a block of the height asked for.
LEMMA AnsweredBlock ==
  ASSUME best \in Block, SourceAnswers
  PROVE  fetched' \in Block /\ HeightOf[fetched'] = next
<1>1. /\ best \in Block
      /\ next \in DOMAIN ChainTo[best]
      /\ fetched' = ChainTo[best][next]
  BY DEF SourceAnswers
<1>2. next \in StartHeight .. HeightOf[best]
  BY <1>1, ChainAssumption
<1>3. QED
  BY <1>1, <1>2, ChainAssumption

\* A block that fits builds on the block at the cursor.
LEMMA FittingBlock ==
  ASSUME IInv, NEW b \in Block, Fetched(b), Fits(b)
  PROVE  /\ HeightOf[b] = Height + 1
         /\ IF HeightOf[b] = StartHeight THEN Indexed \notin Block
                                         ELSE Indexed = ParentOf[b]
         /\ IndexAt(ParentOf[b]) = IndexAt(Indexed)
<1>1. HeightOf[b] = next /\ next = Height + 1 /\ StartHeight \in Int /\ next \in Int
  BY BlockAssumption DEF IInv, BlockPlaced, Fetched, TypeOK
<1>2. None \notin Block /\ NoHash \notin Block
  BY BlockAssumption
<1>3. CASE cursor = None
  <2>1. next = StartHeight
    BY <1>1, <1>3 DEF Height
  <2>2. ParentOf[b] \notin Block
    BY <1>1, <2>1, ServedBlock
  <2>3. QED
    BY <1>1, <1>2, <1>3, <2>1, <2>2 DEF Indexed, IndexAt
<1>4. CASE cursor # None
  <2>1. Indexed = cursor.hash /\ Height = cursor.height
    BY <1>4 DEF Indexed, Height
  <2>2. cursor.height = IF cursor.hash \in Block THEN HeightOf[cursor.hash]
                                                ELSE StartHeight - 1
    BY <1>4 DEF IInv, CursorPlaced
  <2>3. ParentOf[b] = NoHash \/ ParentOf[b] = cursor.hash
    BY <1>4, CursorHash DEF IInv, Fits
  <2>4. \A c \in Block : HeightOf[c] \in Int /\ HeightOf[c] >= StartHeight
    BY BlockAssumption
  <2>5. CASE next = StartHeight
    <3>1. cursor.hash \notin Block
      BY <1>1, <2>1, <2>2, <2>4, <2>5
    <3>2. ParentOf[b] \notin Block
      BY <1>1, <2>5, ServedBlock
    <3>3. QED
      BY <1>1, <2>1, <2>5, <3>1, <3>2 DEF IndexAt
  <2>6. CASE next # StartHeight
    <3>1. ParentOf[b] \in Block
      BY <1>1, <2>6, ServedBlock
    <3>2. QED
      BY <1>1, <1>2, <2>1, <2>3, <2>6, <3>1
  <2>7. QED
    BY <2>5, <2>6
<1>5. QED
  BY <1>3, <1>4

-----------------------------------------------------------------------------
(* The initial states, and one lemma per action that changes what IInv is     *)
(* about.                                                                     *)

LEMMA InitIInv == Init => IInv
<1> SUFFICES ASSUME Init PROVE IInv
  OBVIOUS
<1>1. /\ StartHeight \in Int /\ UndoDepth \in Nat /\ MaxReorgs \in Nat
      /\ Empty \in Records /\ None \notin Block
  BY BlockAssumption, SizeAssumption, ReplayAssumption
<1>2. TypeOK
  <2>1. undo \in Seq(Undo) /\ before \in Seq(Write)
    BY DEF Init
  <2>2. tip \in Int /\ next \in Int /\ highest \in Int /\ reorgs \in 0 .. MaxReorgs
    BY <1>1 DEF Init
  <2>3. QED
    BY <1>1, <2>1, <2>2 DEF Init, TypeOK, Running
<1>3. UndoLinked /\ CursorPlaced /\ BlockPlaced /\ HighestPlaced
  BY <1>1 DEF Init, UndoLinked, CursorPlaced, BlockPlaced, HighestPlaced, Height
<1>4. IndexMatchesChain
  BY <1>1 DEF Init, IndexMatchesChain, Indexed, IndexAt
<1>5. UndoWindowHolds
  BY DEF Init, UndoWindowHolds
<1>6. QED
  BY <1>2, <1>3, <1>4, <1>5 DEF IInv

LEMMA BeginBlockStep ==
  ASSUME IInv, NEW b \in Block, BeginBlock(b)
  PROVE  IInv'
<1> USE DEF store, source
<1>1. /\ HeightOf[b] = Height + 1
      /\ IF HeightOf[b] = StartHeight THEN Indexed \notin Block
                                      ELSE Indexed = ParentOf[b]
      /\ IndexAt(ParentOf[b]) = IndexAt(Indexed)
  BY FittingBlock DEF BeginBlock
<1>2. b # None /\ TxCount[b] \in Nat
  BY BlockAssumption
<1>3. block = None /\ records = IndexAt(Indexed)
  BY DEF IInv, BeginBlock, Fetched, BlockPlaced, IndexMatchesChain
<1>4. /\ UNCHANGED <<records, undo, cursor, next, failure, best, reorgs, highest>>
      /\ block' = b /\ pos' = 1 /\ idx' = 0 /\ before' = << >> /\ pc' = "apply"
      /\ UNCHANGED <<tip, stopping>> /\ pc = "await" /\ fetched' = None
  BY DEF BeginBlock, Fetched
<1>5. TypeOK'
  BY <1>4 DEF IInv, TypeOK, Running
<1>6. UndoLinked' /\ CursorPlaced' /\ UndoWindowHolds'
  BY <1>4 DEF IInv, UndoLinked, CursorPlaced, UndoWindowHolds
<1>7. HighestPlaced'
  BY <1>4 DEF IInv, HighestPlaced, Height
<1>8. BlockPlaced'
  <2>1. Height' = Height /\ Indexed' = Indexed
    BY <1>4 DEF Height, Indexed
  <2>2. failure = "none" /\ next = Height + 1
    BY <1>4 DEF IInv, BlockPlaced
  <2>3. QED
    BY <1>1, <1>2, <1>4, <2>1, <2>2 DEF BlockPlaced
<1>9. IndexMatchesChain'
  <2>1. Replay[b][1] = IndexAt(ParentOf[b])
    BY ReplayAssumption
  <2>2. Revert(records, << >>) = records
    BY RevertNothing DEF IInv, TypeOK
  <2>3. Indexed' = Indexed
    BY <1>4 DEF Indexed
  <2>4. QED
    BY <1>1, <1>2, <1>3, <1>4, <2>1, <2>2, <2>3 DEF IndexMatchesChain
<1>10. QED
  BY <1>5, <1>6, <1>7, <1>8, <1>9 DEF IInv

LEMMA ApplyTransactionStep ==
  ASSUME IInv, ApplyTransaction
  PROVE  IInv'
<1> DEFINE writes == Writes(records, block, pos, idx)
<1>1. /\ block \in Block /\ pos \in 1 .. TxCount[block] /\ idx = pos - 1
      /\ records = Replay[block][pos]
      /\ Revert(records, before) = IndexAt(Indexed)
      /\ records \in Records /\ before \in Seq(Write) /\ block # None
  BY BlockAssumption
     DEF IInv, ApplyTransaction, BlockPlaced, TypeOK, IndexMatchesChain
<1>2. writes \in Seq(Write) /\ Replay[block][pos + 1] = Apply(records, writes)
  BY <1>1, ReplayAssumption
<1>3. /\ records' = Apply(records, writes)
      /\ before' = before \o Before(records, writes)
      /\ pos' = pos + 1 /\ idx' = idx + 1 /\ pc = "apply"
      /\ UNCHANGED <<undo, cursor, pc, tip, next, fetched, block, stopping, failure,
                     best, reorgs, highest>>
  BY DEF ApplyTransaction, source
<1>4. records' \in Records /\ before' \in Seq(Write)
  BY <1>1, <1>2, <1>3, ApplyInRecords, BeforeIsWrites
<1>5. TypeOK'
  BY <1>1, <1>3, <1>4 DEF IInv, TypeOK, Running
<1>6. UndoLinked' /\ CursorPlaced' /\ UndoWindowHolds' /\ HighestPlaced'
  BY <1>3 DEF IInv, UndoLinked, CursorPlaced, UndoWindowHolds, HighestPlaced, Height
<1>7. BlockPlaced'
  <2>1. TxCount[block] \in Nat
    BY <1>1, BlockAssumption
  <2>2. Height' = Height /\ Indexed' = Indexed
    BY <1>3 DEF Height, Indexed
  <2>3. pos + 1 \in 1 .. TxCount[block] + 1 /\ idx + 1 = (pos + 1) - 1
    BY <1>1, <2>1
  <2>4. QED
    BY <1>1, <1>3, <2>2, <2>3 DEF IInv, BlockPlaced
<1>8. IndexMatchesChain'
  <2>1. Revert(records', before') = Revert(records, before)
    BY <1>1, <1>2, <1>3, RevertUndoesApply
  <2>2. Indexed' = Indexed
    BY <1>3 DEF Indexed
  <2>3. QED
    BY <1>1, <1>2, <1>3, <2>1, <2>2 DEF IndexMatchesChain
<1>9. QED
  BY <1>5, <1>6, <1>7, <1>8 DEF IInv

\* The undo log after a push: the entry on top of the newest ones that fit.
LEMMA PushedLog ==
  ASSUME NEW log \in Seq(Undo), NEW entry \in Undo
  PROVE  LET n == Len(log) + 1
             drop == IF n > UndoDepth THEN n - UndoDepth ELSE 0
             top == Pushed(log, entry)
         IN  /\ top \in Seq(Undo)
             /\ Len(top) = n - drop
             /\ n - drop > 0
             /\ \A i \in 1 .. n - drop :
                  top[i] = IF i + drop = n THEN entry ELSE log[i + drop]
<1> DEFINE n == Len(log) + 1
           drop == IF n > UndoDepth THEN n - UndoDepth ELSE 0
           longer == Append(log, entry)
<1>1. /\ UndoDepth \in Nat /\ UndoDepth > 0 /\ n \in Nat /\ drop \in Nat
      /\ n - drop > 0 /\ n - drop \in Nat
  <2>1. UndoDepth \in Nat /\ UndoDepth > 0
    BY SizeAssumption
  <2>2. n \in Nat /\ n > 0
    <3>1. Len(log) \in Nat
      OBVIOUS
    <3>2. QED
      BY <3>1
  <2> HIDE DEF n
  <2>3. QED
    BY <2>1, <2>2
<1>2. longer \in Seq(Undo) /\ Len(longer) = n
      /\ \A j \in 1 .. n : longer[j] = IF j = n THEN entry ELSE log[j]
  OBVIOUS
<1>3. Max({1, n - UndoDepth + 1}) = drop + 1
  BY <1>1, MaxOfTwo
<1>4. Pushed(log, entry) = SubSeq(longer, drop + 1, n)
  BY <1>2, <1>3 DEF Pushed
<1> HIDE DEF n, drop, longer
<1>5. /\ SubSeq(longer, drop + 1, n) \in Seq(Undo)
      /\ Len(SubSeq(longer, drop + 1, n)) = n - drop
      /\ \A i \in 1 .. n - drop : SubSeq(longer, drop + 1, n)[i] = longer[i + drop]
  BY <1>1, <1>2
<1>6. \A i \in 1 .. n - drop : i + drop \in 1 .. n
  BY <1>1
<1>7. QED
  BY <1>1, <1>2, <1>4, <1>5, <1>6 DEF n, drop

LEMMA CommitBlockStep ==
  ASSUME IInv, CommitBlock
  PROVE  IInv'
<1> DEFINE entry == [height |-> HeightOf[block], hash |-> block,
                     previousHash |-> ParentOf[block], before |-> before]
           n == Len(undo) + 1
           drop == IF n > UndoDepth THEN n - UndoDepth ELSE 0
<1>1. /\ pc = "apply" /\ block \in Block /\ pos = TxCount[block] + 1
      /\ failure = "none" /\ next = Height + 1 /\ HeightOf[block] = Height + 1
      /\ fetched = None
      /\ IF HeightOf[block] = StartHeight THEN Indexed \notin Block
                                          ELSE Indexed = ParentOf[block]
      /\ records = IndexAt(block)
      /\ Revert(records, before) = IndexAt(Indexed)
  <2>1. pc = "apply" /\ pos > TxCount[block]
    BY DEF CommitBlock
  <2>2. block \in Block \cup {None} /\ TypeOK /\ BlockPlaced /\ IndexMatchesChain
    BY DEF IInv, TypeOK
  <2>3. block # None /\ failure = "none" /\ next = Height + 1 /\ fetched = None
    BY <2>1, <2>2 DEF BlockPlaced
  <2>4. /\ block \in Block /\ pos \in 1 .. TxCount[block] + 1
        /\ HeightOf[block] = Height + 1
        /\ IF HeightOf[block] = StartHeight THEN Indexed \notin Block
                                            ELSE Indexed = ParentOf[block]
    BY <2>2, <2>3 DEF BlockPlaced
  <2>5. TxCount[block] \in Nat
    BY <2>4, BlockAssumption
  <2>6. pos = TxCount[block] + 1
    BY <2>1, <2>4, <2>5
  <2>7. /\ records = Replay[block][pos]
        /\ Revert(records, before) = IndexAt(Indexed)
    BY <2>2, <2>3 DEF IndexMatchesChain
  <2>8. records = IndexAt(block)
    BY <2>4, <2>6, <2>7 DEF IndexAt
  <2>9. QED
    BY <2>1, <2>3, <2>4, <2>6, <2>7, <2>8
<1>2. /\ undo' = Pushed(undo, entry)
      /\ cursor' = [height |-> HeightOf[block], hash |-> block]
      /\ highest' = Max({highest, HeightOf[block]})
      /\ next' = next + 1 /\ pc' = "fetch"
      /\ block' = None /\ pos' = 0 /\ idx' = 0 /\ before' = << >>
      /\ UNCHANGED <<records, tip, fetched, stopping, failure, best, reorgs>>
  BY DEF CommitBlock, source
<1>3. /\ HeightOf[block] \in Int /\ HeightOf[block] >= StartHeight
      /\ StartHeight \in Int /\ UndoDepth \in Nat /\ UndoDepth > 0
      /\ None \notin Block
  BY <1>1, BlockAssumption, SizeAssumption
<1>4. /\ undo \in Seq(Undo) /\ entry \in Undo /\ highest \in Int /\ next \in Int
      /\ records \in Records
  BY <1>1, <1>3 DEF IInv, TypeOK, Undo
<1>5. /\ undo' \in Seq(Undo) /\ Len(undo') = n - drop /\ n - drop > 0
      /\ \A i \in 1 .. n - drop :
           undo'[i] = IF i + drop = n THEN entry ELSE undo[i + drop]
  BY <1>2, <1>4, PushedLog
<1>6. n \in Nat /\ drop \in Nat /\ Len(undo) \in Nat /\ drop < n
  BY <1>3, <1>4
<1>7. cursor' # None /\ Height' = HeightOf[block] /\ Indexed' = block
      /\ cursor'.height = HeightOf[block] /\ cursor'.hash = block
  <2>1. cursor' # None
    BY <1>1, <1>2, NoneAssumption
  <2>2. QED
    BY <1>2, <2>1 DEF Height, Indexed
<1>8. highest' = IF highest >= HeightOf[block] THEN highest ELSE HeightOf[block]
  BY <1>2, <1>3, <1>4, MaxOfTwo
<1> HIDE DEF entry, n, drop
<1>9. TypeOK'
  <2>1. cursor' \in [height : Int, hash : Block \cup {ParentOf[b] : b \in Block}]
    BY <1>1, <1>2, <1>3
  <2>2. highest' \in Int /\ next' \in Int
    BY <1>2, <1>3, <1>4, <1>8
  <2>3. before' \in Seq(Write)
    BY <1>2
  <2>4. QED
    BY <1>2, <1>4, <1>5, <2>1, <2>2, <2>3 DEF IInv, TypeOK, Running
<1>10. CursorPlaced'
  BY <1>1, <1>7 DEF CursorPlaced
<1>11. BlockPlaced'
  BY <1>1, <1>2, <1>7 DEF BlockPlaced
<1>12. HighestPlaced'
  BY <1>1, <1>2, <1>3, <1>4, <1>7, <1>8 DEF HighestPlaced
<1>13. IndexMatchesChain'
  BY <1>1, <1>2, <1>7 DEF IndexMatchesChain
<1>14. UndoLinked'
  <2>1. undo' # << >> => cursor' = [height |-> undo'[Len(undo')].height,
                                    hash |-> undo'[Len(undo')].hash]
    <3>1. Len(undo') \in 1 .. n - drop /\ Len(undo') + drop = n
      BY <1>5, <1>6
    <3>2. undo'[Len(undo')] = entry
      BY <1>5, <3>1
    <3>3. QED
      BY <1>2, <3>2 DEF entry
  <2>2. ASSUME NEW i \in DOMAIN undo'
        PROVE  /\ undo'[i].height = HeightOf[undo'[i].hash]
               /\ undo'[i].height = cursor'.height - Len(undo') + i
               /\ undo'[i].previousHash = ParentOf[undo'[i].hash]
               /\ Revert(IndexAt(undo'[i].hash), undo'[i].before)
                    = IndexAt(undo'[i].previousHash)
               /\ i > 1 => undo'[i].previousHash = undo'[i - 1].hash
    <3>1. i \in 1 .. n - drop /\ i \in Nat
      BY <1>5
    <3>2. CASE i + drop = n
      <4>1. undo'[i] = entry
        BY <1>5, <3>1, <3>2
      <4>2. i = Len(undo')
        BY <1>5, <1>6, <3>1, <3>2
      <4>3. IndexAt(ParentOf[block]) = IndexAt(Indexed)
        BY <1>1, BlockAssumption DEF IndexAt
      <4>4. ASSUME i > 1
            PROVE  ParentOf[block] = undo'[i - 1].hash
        <5>1. undo'[i - 1] = undo[Len(undo)] /\ undo # << >> /\ Len(undo) \in DOMAIN undo
          <6>1. i - 1 \in 1 .. n - drop /\ (i - 1) + drop # n
                /\ (i - 1) + drop = Len(undo) /\ Len(undo) >= 1
            BY <1>6, <3>1, <3>2, <4>4 DEF n
          <6>2. QED
            BY <1>5, <6>1, <1>4
        <5>2. cursor # None /\ Indexed = undo[Len(undo)].hash
          BY <5>1 DEF IInv, UndoLinked, Indexed
        <5>3. undo[Len(undo)].hash \in Block
          <6>1. undo[Len(undo)] \in Undo
            BY <1>4, <5>1
          <6>2. QED
            BY <6>1 DEF Undo
        <5>4. QED
          BY <1>1, <5>1, <5>2, <5>3
      <4>5. QED
        BY <1>1, <1>3, <1>7, <4>1, <4>2, <4>3, <4>4 DEF entry
    <3>3. CASE i + drop # n
      <4>1. undo'[i] = undo[i + drop] /\ i + drop \in 1 .. Len(undo)
        BY <1>5, <1>6, <3>1, <3>3 DEF n
      <4>2. i + drop \in DOMAIN undo /\ undo # << >> /\ cursor # None
        BY <1>4, <4>1 DEF IInv, UndoLinked
      <4>3. /\ undo[i + drop].height = HeightOf[undo[i + drop].hash]
            /\ undo[i + drop].height = cursor.height - Len(undo) + (i + drop)
            /\ undo[i + drop].previousHash = ParentOf[undo[i + drop].hash]
            /\ Revert(IndexAt(undo[i + drop].hash), undo[i + drop].before)
                 = IndexAt(undo[i + drop].previousHash)
            /\ i + drop > 1 => undo[i + drop].previousHash = undo[(i + drop) - 1].hash
        BY <4>2 DEF IInv, UndoLinked
      <4>4. cursor.height - Len(undo) + (i + drop) = cursor'.height - Len(undo') + i
        <5>1. cursor.height \in Int /\ HeightOf[block] = cursor.height + 1
          BY <1>1, <4>2 DEF IInv, TypeOK, Height
        <5>2. QED
          BY <1>5, <1>6, <1>7, <3>1, <5>1 DEF n
      <4>5. ASSUME i > 1
            PROVE  undo'[i].previousHash = undo'[i - 1].hash
        <5>1. i - 1 \in 1 .. n - drop /\ (i - 1) + drop # n /\ i + drop > 1
              /\ (i + drop) - 1 = (i - 1) + drop
          BY <1>6, <3>1, <4>1, <4>5 DEF n
        <5>2. undo'[i - 1] = undo[(i - 1) + drop]
          BY <1>5, <5>1
        <5>3. QED
          BY <4>1, <4>3, <5>1, <5>2
      <4>6. QED
        BY <4>1, <4>3, <4>4, <4>5
    <3>4. QED
      BY <3>2, <3>3
  <2>3. QED
    BY <1>7, <2>1, <2>2 DEF UndoLinked
<1>15. UndoWindowHolds'
  <2> DEFINE low(h) == IF StartHeight - 1 >= h - UndoDepth THEN StartHeight - 1
                                                          ELSE h - UndoDepth
  <2>1. \A h \in Int : Max({StartHeight - 1, h - UndoDepth}) = low(h)
    BY <1>3, MaxOfTwo
  <2>2. highest' \in Int
    BY <1>3, <1>4, <1>8
  <2>3. Height \in Int /\ highest >= Height /\ Height - Len(undo) = low(highest)
    <3>1. CASE cursor = None
      <4>1. undo = << >> /\ highest = StartHeight - 1 /\ Height = StartHeight - 1
        BY <3>1 DEF IInv, UndoLinked, HighestPlaced, Height
      <4>2. Len(undo) = 0
        BY <4>1
      <4>3. QED
        BY <1>3, <4>1, <4>2
    <3>2. CASE cursor # None
      BY <1>4, <2>1, <3>2
         DEF IInv, TypeOK, Height, HighestPlaced, UndoWindowHolds
    <3>3. QED
      BY <3>1, <3>2
  <2>4. (Height + 1) - (n - drop) = low(highest')
    <3>1. StartHeight - 1 \in Int /\ UndoDepth \in Nat \ {0}
      BY <1>3
    <3> HIDE DEF low
    <3>2. highest' = IF highest >= Height + 1 THEN highest ELSE Height + 1
      BY <1>1, <1>8
    <3>3. n = Len(undo) + 1 /\ drop = IF n > UndoDepth THEN n - UndoDepth ELSE 0
      BY DEF n, drop
    <3>4. Height - Len(undo) = IF StartHeight - 1 >= highest - UndoDepth
                              THEN StartHeight - 1 ELSE highest - UndoDepth
      BY <2>3 DEF low
    <3>5. (Height + 1) - (n - drop) = IF StartHeight - 1 >= highest' - UndoDepth
                                     THEN StartHeight - 1 ELSE highest' - UndoDepth
      <4>1. Height \in Int /\ highest \in Int /\ highest >= Height /\ Len(undo) \in Nat
        BY <1>4, <1>6, <2>3
      <4>2. CASE highest >= Height + 1
        <5>1. drop = 0 /\ highest' = highest
          BY <3>1, <3>2, <3>3, <3>4, <4>1, <4>2
        <5>2. (Height + 1) - (n - drop) = Height - Len(undo)
          BY <3>3, <4>1, <5>1
        <5>3. QED
          BY <3>4, <5>1, <5>2
      <4>3. CASE highest = Height
        <5>1. highest' = Height + 1 /\ Len(undo) <= UndoDepth
          BY <3>1, <3>2, <3>4, <4>1, <4>3
        <5>2. CASE Len(undo) = UndoDepth
          <6>1. drop = 1
            BY <3>1, <3>3, <4>1, <5>2
          <6>2. (Height + 1) - (n - drop) = Height + 1 - UndoDepth
            BY <3>1, <3>3, <4>1, <5>2, <6>1
          <6>3. QED
            BY <3>1, <3>4, <4>1, <4>3, <5>1, <5>2, <6>2
        <5>3. CASE Len(undo) < UndoDepth
          <6>1. drop = 0
            BY <3>1, <3>3, <4>1, <5>3
          <6>2. (Height + 1) - (n - drop) = Height - Len(undo)
            BY <3>3, <4>1, <6>1
          <6>3. QED
            BY <3>1, <3>4, <4>1, <4>3, <5>1, <5>3, <6>2
        <5>4. QED
          BY <3>1, <4>1, <5>1, <5>2, <5>3
      <4>4. QED
        BY <4>1, <4>2, <4>3
    <3>6. QED
      BY <3>5 DEF low
  <2>5. cursor'.height - Len(undo') = low(highest')
    BY <1>1, <1>5, <1>7, <2>4
  <2>6. failure' = "none"
    BY <1>1, <1>2
  <2>7. QED
    BY <2>1, <2>2, <2>5, <2>6 DEF UndoWindowHolds
<1>16. QED
  BY <1>9, <1>10, <1>11, <1>12, <1>13, <1>14, <1>15 DEF IInv

\* Where a rollback leads: to the parent of the last block, one below it,
\* whether that parent is in the log or not.
LEMMA BelowLast ==
  ASSUME TypeOK, UndoLinked, undo # << >>
  PROVE  LET top == undo[Len(undo)]
         IN  /\ top \in Undo /\ cursor # None
             /\ cursor = [height |-> top.height, hash |-> top.hash]
             /\ top.height = HeightOf[top.hash]
             /\ top.previousHash = ParentOf[top.hash]
             /\ Revert(IndexAt(top.hash), top.before) = IndexAt(top.previousHash)
             /\ CursorBelow(undo) =
                  [height |-> top.height - 1, hash |-> top.previousHash]
<1> DEFINE n == Len(undo)
           top == undo[n]
<1>1. undo \in Seq(Undo) /\ n \in Nat /\ n >= 1 /\ DOMAIN undo = 1 .. n
  BY DEF TypeOK
<1>2. n \in DOMAIN undo /\ top \in Undo
  BY <1>1
<1>3. /\ cursor # None
      /\ cursor = [height |-> top.height, hash |-> top.hash]
      /\ top.height = HeightOf[top.hash]
      /\ top.height = cursor.height - n + n
      /\ top.previousHash = ParentOf[top.hash]
      /\ Revert(IndexAt(top.hash), top.before) = IndexAt(top.previousHash)
      /\ n > 1 => top.previousHash = undo[n - 1].hash
  BY <1>2 DEF UndoLinked
<1>4. CursorBelow(undo) = [height |-> top.height - 1, hash |-> top.previousHash]
  <2>1. CASE n > 1
    <3>1. n - 1 \in DOMAIN undo
      BY <1>1, <2>1
    <3>2. undo[n - 1].height = cursor.height - n + (n - 1)
      BY <3>1 DEF UndoLinked
    <3>3. cursor.height = top.height /\ top.height \in Int
      BY <1>2, <1>3 DEF Undo
    <3>4. undo[n - 1].height = top.height - 1
      BY <1>1, <3>2, <3>3
    <3>5. QED
      BY <1>3, <2>1, <3>4 DEF CursorBelow
  <2>2. CASE ~(n > 1)
    BY <2>2 DEF CursorBelow
  <2>3. QED
    BY <2>1, <2>2
<1>5. QED
  BY <1>2, <1>3, <1>4

LEMMA RollbackStep ==
  ASSUME IInv, NEW b \in Block, Rollback(b)
  PROVE  IInv'
<1> DEFINE n == Len(undo)
           top == undo[n]
<1>1. /\ pc = "await" /\ undo # << >> /\ undo \in Seq(Undo) /\ highest \in Int
      /\ n \in Nat /\ n >= 1 /\ DOMAIN undo = 1 .. n
      /\ records' = Revert(records, top.before)
      /\ cursor' = CursorBelow(undo)
      /\ undo' = SubSeq(undo, 1, n - 1)
      /\ next' = cursor'.height + 1
      /\ pc' = "fetch" /\ fetched' = None
      /\ UNCHANGED <<tip, block, pos, idx, before, stopping, failure,
                     best, reorgs, highest>>
  BY DEF IInv, TypeOK, Rollback, Fetched, ingest, source
<1>2. /\ top \in Undo /\ cursor # None
      /\ cursor = [height |-> top.height, hash |-> top.hash]
      /\ top.height = HeightOf[top.hash]
      /\ top.previousHash = ParentOf[top.hash]
      /\ Revert(IndexAt(top.hash), top.before) = IndexAt(top.previousHash)
      /\ cursor' = [height |-> top.height - 1, hash |-> top.previousHash]
  BY <1>1, BelowLast DEF IInv
<1>3. top.hash \in Block /\ top.height \in Int /\ top.height - 1 \in Int
      /\ top.previousHash \in {ParentOf[c] : c \in Block}
  BY <1>2 DEF Undo
<1>4. cursor' # None
  BY <1>2, <1>3, NoneAssumption
<1>5. /\ undo' \in Seq(Undo) /\ Len(undo') = n - 1 /\ DOMAIN undo' = 1 .. n - 1
      /\ \A i \in 1 .. n - 1 : undo'[i] = undo[i]
  BY <1>1
<1>6. block = None /\ failure = "none" /\ records = IndexAt(Indexed)
  BY <1>1 DEF IInv, BlockPlaced, IndexMatchesChain
<1>7. Indexed = top.hash /\ Height = top.height
  BY <1>2 DEF Indexed, Height
<1>8. Indexed' = top.previousHash /\ Height' = top.height - 1
  BY <1>2, <1>4 DEF Indexed, Height
<1>9. records' = IndexAt(top.previousHash)
  BY <1>1, <1>2, <1>6, <1>7
<1> HIDE DEF n, top
<1>10. TypeOK'
  <2>1. records' \in Records
    BY <1>9, IndexAtInRecords
  <2>2. cursor' \in [height : Int, hash : Block \cup {ParentOf[c] : c \in Block}]
    BY <1>2, <1>3
  <2>3. next' \in Int
    BY <1>1, <1>2, <1>3
  <2>4. QED
    BY <1>1, <1>5, <2>1, <2>2, <2>3 DEF IInv, TypeOK, Running
<1>11. UndoLinked'
  <2>1. ASSUME NEW i \in 1 .. n - 1
        PROVE  /\ undo'[i].height = HeightOf[undo'[i].hash]
               /\ undo'[i].height = cursor'.height - Len(undo') + i
               /\ undo'[i].previousHash = ParentOf[undo'[i].hash]
               /\ Revert(IndexAt(undo'[i].hash), undo'[i].before)
                    = IndexAt(undo'[i].previousHash)
               /\ i > 1 => undo'[i].previousHash = undo'[i - 1].hash
    <3>1. i \in DOMAIN undo /\ i - 1 \in Int
      BY <1>1
    <3>2. /\ undo[i].height = HeightOf[undo[i].hash]
          /\ undo[i].height = cursor.height - n + i
          /\ undo[i].previousHash = ParentOf[undo[i].hash]
          /\ Revert(IndexAt(undo[i].hash), undo[i].before)
               = IndexAt(undo[i].previousHash)
          /\ i > 1 => undo[i].previousHash = undo[i - 1].hash
      BY <3>1 DEF IInv, UndoLinked, n
    <3>3. cursor.height - n + i = cursor'.height - Len(undo') + i
      BY <1>1, <1>2, <1>3, <1>5
    <3>4. i > 1 => undo'[i - 1] = undo[i - 1]
      BY <1>1, <1>5
    <3>5. QED
      BY <1>5, <3>2, <3>3, <3>4
  <2>2. undo' # << >> => cursor' = [height |-> undo'[Len(undo')].height,
                                    hash |-> undo'[Len(undo')].hash]
    <3> SUFFICES ASSUME undo' # << >> PROVE n > 1
      <4>1. ASSUME n > 1
            PROVE  cursor' = [height |-> undo'[Len(undo')].height,
                              hash |-> undo'[Len(undo')].hash]
        <5>1. undo'[Len(undo')] = undo[n - 1] /\ n - 1 \in 1 .. n - 1
          BY <1>1, <1>5, <4>1
        <5>2. cursor' = [height |-> undo[n - 1].height, hash |-> undo[n - 1].hash]
          BY <1>1, <4>1 DEF CursorBelow, n
        <5>3. QED
          BY <5>1, <5>2
      <4>2. QED
        BY <4>1
    <3>1. QED
      BY <1>1, <1>5
  <2>3. QED
    BY <1>4, <1>5, <2>1, <2>2 DEF UndoLinked
<1>12. CursorPlaced'
  <2>1. /\ HeightOf[top.hash] \in Int /\ HeightOf[top.hash] >= StartHeight
        /\ StartHeight \in Int
        /\ IF HeightOf[top.hash] = StartHeight
           THEN ParentOf[top.hash] \notin Block
           ELSE /\ ParentOf[top.hash] \in Block
                /\ HeightOf[ParentOf[top.hash]] = HeightOf[top.hash] - 1
    BY <1>3, BlockAssumption
  <2>2. cursor'.height = top.height - 1 /\ cursor'.hash = top.previousHash
    BY <1>2
  <2>3. QED
    BY <1>2, <2>1, <2>2 DEF CursorPlaced
<1>13. BlockPlaced'
  BY <1>1, <1>2, <1>6, <1>8 DEF BlockPlaced
<1>14. HighestPlaced'
  BY <1>1, <1>3, <1>4, <1>6, <1>7, <1>8 DEF IInv, HighestPlaced
<1>15. IndexMatchesChain'
  BY <1>1, <1>6, <1>8, <1>9 DEF IndexMatchesChain
<1>16. UndoWindowHolds'
  <2> DEFINE floor == Max({StartHeight - 1, highest - UndoDepth})
  <2>1. cursor.height - n = floor
    BY <1>2 DEF IInv, UndoWindowHolds, n
  <2>2. floor' = floor
    BY <1>1
  <2>3. cursor'.height - Len(undo') = cursor.height - n
    <3>1. cursor'.height = top.height - 1 /\ cursor.height = top.height
      BY <1>2
    <3>2. QED
      BY <1>1, <1>3, <1>5, <3>1
  <2> HIDE DEF floor
  <2>4. failure' = "none" /\ cursor'.height - Len(undo') = floor'
    BY <1>1, <1>6, <2>1, <2>2, <2>3
  <2>5. QED
    BY <2>4 DEF UndoWindowHolds, floor
<1>17. QED
  BY <1>10, <1>11, <1>12, <1>13, <1>14, <1>15, <1>16 DEF IInv

\* A refusal finds the cursor at the bottom of the undo window.
LEMMA RefuseReorgStep ==
  ASSUME IInv, NEW b \in Block, RefuseReorg(b)
  PROVE  IInv'
<1>1. /\ pc = "await" /\ undo = << >> /\ cursor # None /\ pc' = "failed"
      /\ failure' = "reorg_beyond_undo_window" /\ fetched' = None
      /\ UNCHANGED <<records, undo, cursor, tip, next, block, pos, idx, before,
                     stopping, best, reorgs, highest>>
  BY DEF RefuseReorg, Fetched, Fits, store, ingest, source
<1>2. block = None /\ cursor.height \in Int
  BY <1>1 DEF IInv, TypeOK, BlockPlaced
<1>3. cursor.height = Max({StartHeight - 1, highest - UndoDepth})
  <2>1. Len(undo) = 0
    BY <1>1
  <2>2. QED
    BY <1>1, <1>2, <2>1 DEF IInv, UndoWindowHolds
<1>4. TypeOK'
  BY <1>1 DEF IInv, TypeOK
<1>5. UndoLinked' /\ CursorPlaced' /\ IndexMatchesChain'
  BY <1>1 DEF IInv, UndoLinked, CursorPlaced, IndexMatchesChain, Indexed
<1>6. BlockPlaced'
  BY <1>1, <1>2 DEF BlockPlaced
<1>7. HighestPlaced'
  BY <1>1 DEF IInv, HighestPlaced, Height
<1>8. UndoWindowHolds'
  BY <1>1, <1>3 DEF IInv, UndoWindowHolds
<1>9. QED
  BY <1>4, <1>5, <1>6, <1>7, <1>8 DEF IInv

\* The steps that leave the store and the block at hand alone.
LEMMA ControlStep ==
  ASSUME IInv, UNCHANGED <<store, ingest, highest>>,
         \/ Poll \/ Wake \/ Finish \/ LeaveInner \/ AskForBlock \/ RequestFails
         \/ Stop \/ SourceMoves \/ UNCHANGED vars
  PROVE  IInv'
<1>1. UNCHANGED <<records, undo, cursor, fetched, block, pos, idx, before, highest>>
  BY DEF store, ingest
<1>2. Height' = Height /\ Indexed' = Indexed
  BY <1>1 DEF Height, Indexed
<1>3. /\ failure' \in {"none", "upstream", "reorg_beyond_undo_window"}
      /\ (failure' = failure \/ failure' = "upstream")
      /\ (pc' # "failed" => failure' = "none")
      /\ (block # None => pc' \in {"apply", "failed"})
      /\ (pc' = "apply" => block # None)
      /\ (pc' \in {"fetch", "await", "apply"} => next' = Height + 1)
      /\ (fetched # None => pc' = "await" /\ HeightOf[fetched] = next')
      /\ tip' \in Int /\ next' \in Int
      /\ pc' \in Running \cup {"done", "failed"} /\ stopping' \in BOOLEAN
      /\ best' \in Block /\ reorgs' \in 0 .. MaxReorgs
  <2>1. /\ StartHeight \in Int /\ MaxReorgs \in Nat
        /\ HeightOf[best] \in Int /\ Target \in Int
    BY BlockAssumption, SizeAssumption DEF IInv, TypeOK, Target, TipHeight
  <2>2. Height \in Int
    BY <2>1 DEF IInv, TypeOK, Height
  <2>3. /\ pc \in Running \cup {"done", "failed"}
        /\ failure \in {"none", "upstream", "reorg_beyond_undo_window"}
        /\ (pc # "failed" => failure = "none")
        /\ (block # None => pc \in {"apply", "failed"})
        /\ (pc = "apply" => block # None)
        /\ (pc \in {"fetch", "await", "apply"} => next = Height + 1)
        /\ (fetched # None => pc = "await" /\ HeightOf[fetched] = next)
        /\ tip \in Int /\ next \in Int /\ stopping \in BOOLEAN
        /\ best \in Block /\ reorgs \in 0 .. MaxReorgs
    BY DEF IInv, TypeOK, BlockPlaced
  <2>4. CASE Poll
    BY <2>1, <2>2, <2>3, <2>4 DEF Poll, source, Running
  <2>5. CASE Wake \/ Finish \/ LeaveInner \/ AskForBlock
    BY <2>3, <2>5 DEF Wake, Finish, LeaveInner, AskForBlock, source, Running
  <2>6. CASE RequestFails
    BY <2>3, <2>6 DEF RequestFails, source, Running
  <2>7. CASE Stop
    BY <2>3, <2>7 DEF Stop, source, Running
  <2>8. CASE SourceMoves
    BY <2>1, <2>3, <2>8 DEF SourceMoves
  <2>9. CASE UNCHANGED vars
    BY <2>3, <2>9 DEF vars, source
  <2>10. QED
    BY <2>4, <2>5, <2>6, <2>7, <2>8, <2>9
<1>4. TypeOK'
  BY <1>1, <1>3 DEF IInv, TypeOK
<1>5. UndoLinked' /\ CursorPlaced'
  BY <1>1 DEF IInv, UndoLinked, CursorPlaced
<1>6. IndexMatchesChain'
  BY <1>1, <1>2 DEF IInv, IndexMatchesChain
<1>7. BlockPlaced'
  BY <1>1, <1>2, <1>3 DEF IInv, BlockPlaced
<1>8. HighestPlaced'
  BY <1>1, <1>2, <1>3 DEF IInv, HighestPlaced
<1>9. UndoWindowHolds'
  BY <1>1, <1>3 DEF IInv, UndoWindowHolds
<1>10. QED
  BY <1>4, <1>5, <1>6, <1>7, <1>8, <1>9 DEF IInv

\* The answer is a block of the height asked for.
LEMMA SourceAnswersStep ==
  ASSUME IInv, SourceAnswers
  PROVE  IInv'
<1>1. /\ pc = "await" /\ pc' = "await"
      /\ UNCHANGED <<records, undo, cursor, tip, next, block, pos, idx, before,
                     stopping, failure, best, reorgs, highest>>
  BY DEF SourceAnswers, store, source
<1>2. fetched' \in Block /\ HeightOf[fetched'] = next
  BY AnsweredBlock DEF IInv, TypeOK
<1>3. Height' = Height /\ Indexed' = Indexed
  BY <1>1 DEF Height, Indexed
<1>4. TypeOK'
  BY <1>1, <1>2 DEF IInv, TypeOK
<1>5. UndoLinked' /\ CursorPlaced' /\ UndoWindowHolds'
  BY <1>1 DEF IInv, UndoLinked, CursorPlaced, UndoWindowHolds
<1>6. IndexMatchesChain' /\ HighestPlaced'
  BY <1>1, <1>3 DEF IInv, IndexMatchesChain, HighestPlaced
<1>7. BlockPlaced'
  BY <1>1, <1>2, <1>3 DEF IInv, BlockPlaced
<1>8. QED
  BY <1>4, <1>5, <1>6, <1>7 DEF IInv

-----------------------------------------------------------------------------
(* The theorems.                                                              *)

\* Every step from a state of IInv is one of these.
LEMMA StepCases ==
  ASSUME Lossless, [Next]_vars
  PROVE  \/ \E b \in Block : BeginBlock(b) \/ Rollback(b) \/ RefuseReorg(b)
         \/ ApplyTransaction \/ CommitBlock \/ SourceAnswers
         \/ /\ UNCHANGED <<store, ingest, highest>>
            /\ \/ Poll \/ Wake \/ Finish \/ LeaveInner \/ AskForBlock \/ RequestFails
               \/ Stop \/ SourceMoves \/ UNCHANGED vars
<1>1. ~LeaveOutTransaction
  BY DEF Lossless, LeaveOutTransaction
<1>2. ASSUME \/ Poll \/ Wake \/ Finish \/ LeaveInner \/ AskForBlock
             \/ RequestFails \/ Stop \/ SourceMoves
      PROVE  UNCHANGED <<store, ingest, highest>>
  BY <1>2 DEF Poll, Wake, Finish, LeaveInner, AskForBlock, RequestFails, Stop,
                 SourceMoves
<1>3. UNCHANGED vars => UNCHANGED <<store, ingest, highest>>
  BY DEF vars
<1>4. QED
  BY <1>1, <1>2, <1>3 DEF Next, Ingest, Terminated

LEMMA NextIInv ==
  ASSUME Lossless, IInv, [Next]_vars
  PROVE  IInv'
<1>1. ASSUME NEW b \in Block, BeginBlock(b) \/ Rollback(b) \/ RefuseReorg(b)
      PROVE  IInv'
  BY <1>1, BeginBlockStep, RollbackStep, RefuseReorgStep
<1>2. ASSUME ApplyTransaction \/ CommitBlock \/ SourceAnswers
      PROVE  IInv'
  BY <1>2, ApplyTransactionStep, CommitBlockStep, SourceAnswersStep
<1>3. ASSUME UNCHANGED <<store, ingest, highest>>,
             \/ Poll \/ Wake \/ Finish \/ LeaveInner \/ AskForBlock \/ RequestFails
             \/ Stop \/ SourceMoves \/ UNCHANGED vars
      PROVE  IInv'
  BY <1>3, ControlStep
<1>4. QED
  BY <1>1, <1>2, <1>3, StepCases

\* The inductive invariant holds of every state the loop reaches, if the
\* source leaves no transaction out.
THEOREM Inductive ==
  ASSUME Lossless
  PROVE  Spec => []IInv
<1>1. Init => IInv
  BY InitIInv
<1>2. IInv /\ [Next]_vars => IInv'
  BY NextIInv
<1>3. QED
  BY <1>1, <1>2, PTL DEF Spec

\* Records, undo log, cursor and locals keep to their types, the captured
\* values included.
THEOREM TypeCorrect ==
  ASSUME Lossless
  PROVE  Spec => []TypeOK
<1>1. IInv => TypeOK
  BY DEF IInv
<1>2. QED
  BY <1>1, Inductive, PTL

\* Whatever the chain did and however deep it was reorganised, the index holds
\* what a fresh index of the chain at the cursor would hold (indexer.js:7-16).
THEOREM IndexCorrect ==
  ASSUME Lossless
  PROVE  Spec => []IndexMatchesChain
<1>1. IInv => IndexMatchesChain
  BY DEF IInv
<1>2. QED
  BY <1>1, Inductive, PTL

\* The undo log always reaches UndoDepth blocks below the highest block ever
\* committed, and a refused reorg is one that goes deeper (store.js:71-100).
THEOREM UndoWindowCorrect ==
  ASSUME Lossless
  PROVE  Spec => []UndoWindowHolds
<1>1. IInv => UndoWindowHolds
  BY DEF IInv
<1>2. QED
  BY <1>1, Inductive, PTL

\* A rolled-back block is not on the chain of the block that was fetched.
LEMMA RolledBackIsOrphan ==
  ASSUME IInv, NEW b \in Block, Rollback(b)
  PROVE  cursor.hash \notin {ChainTo[fetched][h] : h \in DOMAIN ChainTo[fetched]}
<1>1. Fetched(b) /\ ~Fits(b) /\ cursor # None /\ undo # << >> /\ next = Height + 1
      /\ fetched = b /\ HeightOf[b] = next
  BY BlockAssumption DEF Rollback, Fits, Fetched, IInv, BlockPlaced
<1>2. /\ next \in Int /\ StartHeight \in Int
      /\ DOMAIN ChainTo[b] = StartHeight .. next
      /\ Height = cursor.height
  BY <1>1, BlockAssumption, ChainAssumption DEF IInv, TypeOK, Height
<1> SUFFICES ASSUME NEW h \in StartHeight .. next, cursor.hash = ChainTo[b][h]
             PROVE  FALSE
  BY <1>1, <1>2
<1>3. cursor.hash \in Block /\ HeightOf[cursor.hash] = h /\ h \in Int
      /\ h >= StartHeight
  <2>1. h \in StartHeight .. HeightOf[b]
    BY <1>1
  <2>2. h \in Int /\ h >= StartHeight
    BY <1>2
  <2>3. ChainTo[b] \in [StartHeight .. HeightOf[b] -> Block]
        /\ HeightOf[ChainTo[b][h]] = h
    BY <2>1, ChainAssumption
  <2>4. ChainTo[b][h] \in Block
    BY <2>1, <2>3
  <2>5. QED
    BY <2>2, <2>3, <2>4
<1>4. cursor.height = h
  BY <1>1, <1>3 DEF IInv, CursorPlaced
<1>5. next = h + 1 /\ next > StartHeight
  BY <1>1, <1>2, <1>3, <1>4
<1>6. ParentOf[b] = ChainTo[b][h]
  <2>1. next \in StartHeight .. HeightOf[b] /\ ChainTo[b][next] = b
    BY <1>1, <1>2, <1>5, ChainAssumption
  <2>2. ParentOf[ChainTo[b][next]] = ChainTo[b][next - 1]
    BY <1>5, <2>1, ChainAssumption
  <2>3. QED
    BY <1>3, <1>5, <2>1, <2>2
<1>7. Fits(b)
  BY <1>1, <1>6, CursorHash DEF IInv, Fits
<1>8. QED
  BY <1>1, <1>7

\* A block is taken back only on the word of a chain without it, the one the
\* source had when it answered (indexer.js:44-50).
THEOREM OnlyOrphansRolledBack ==
  ASSUME Lossless
  PROVE  Spec => RollsBackOnlyOrphans
<1> DEFINE Orphaned ==
      Height' < Height
        => cursor.hash \notin {ChainTo[fetched][h] : h \in DOMAIN ChainTo[fetched]}
<1>1. IInv /\ [Next]_vars => [Orphaned]_vars
  <2> SUFFICES ASSUME IInv, [Next]_vars PROVE Orphaned
    OBVIOUS
  <2>1. Height \in Int
    BY BlockAssumption DEF IInv, TypeOK, Height
  <2>2. ASSUME UNCHANGED store
        PROVE  Orphaned
    BY <2>1, <2>2 DEF store, Height
  <2>3. ASSUME NEW b \in Block, BeginBlock(b) \/ Rollback(b) \/ RefuseReorg(b)
        PROVE  Orphaned
    <3>1. CASE Rollback(b)
      BY <3>1, RolledBackIsOrphan
    <3>2. CASE BeginBlock(b) \/ RefuseReorg(b)
      BY <2>2, <3>2 DEF BeginBlock, RefuseReorg
    <3>3. QED
      BY <2>3, <3>1, <3>2
  <2>4. CASE ApplyTransaction
    BY <2>1, <2>4 DEF ApplyTransaction, Height
  <2>5. CASE CommitBlock
    <3>1. IInv'
      BY <2>5, CommitBlockStep
    <3>2. block \in Block /\ HeightOf[block] = Height + 1
          /\ cursor' = [height |-> HeightOf[block], hash |-> block]
      BY <2>5, BlockAssumption DEF IInv, TypeOK, BlockPlaced, CommitBlock
    <3>3. Height' = Height + 1
      BY <3>2, NoneAssumption DEF Height
    <3>4. QED
      BY <2>1, <3>3
  <2>6. CASE SourceAnswers
    BY <2>2, <2>6 DEF SourceAnswers
  <2>7. QED
    BY <2>2, <2>3, <2>4, <2>5, <2>6, StepCases
<1>2. QED
  BY <1>1, Inductive, PTL DEF Spec, RollsBackOnlyOrphans

\* What a reader is promised is there, at every moment.
ContentHolds == Content = IndexAt(Indexed)

\* To a reader the index is ChainIndex: committing a block extends it, rolling
\* one back retracts it, and nothing else shows.
THEOREM Refinement ==
  ASSUME Lossless
  PROVE  Spec => ImplementsChainIndex
<1>1. Init => Promise!Init
  <2> SUFFICES ASSUME Init PROVE Promise!Init
    OBVIOUS
  <2>1. Indexed = None /\ Content = Empty
    BY DEF Init, Indexed, Content
  <2>2. IndexAt(None) = Empty
    BY BlockAssumption DEF IndexAt
  <2>3. QED
    BY <2>1, <2>2 DEF Promise!Init
<1>2. IInv /\ [Next]_vars => [Promise!Next]_(Promise!vars)
  <2> SUFFICES ASSUME IInv, [Next]_vars PROVE [Promise!Next]_(Promise!vars)
    OBVIOUS
  <2>1. IInv'
    BY NextIInv
  <2>2. ContentHolds /\ ContentHolds'
    BY <2>1 DEF ContentHolds, Content, IInv, IndexMatchesChain
  <2>3. ASSUME UNCHANGED cursor
        PROVE  UNCHANGED Promise!vars
    <3>1. Indexed' = Indexed
      BY <2>3 DEF Indexed
    <3>2. Content' = Content
      BY <2>2, <3>1 DEF ContentHolds
    <3>3. QED
      BY <3>1, <3>2 DEF Promise!vars
  <2>4. ASSUME NEW b \in Block, BeginBlock(b) \/ Rollback(b) \/ RefuseReorg(b)
        PROVE  [Promise!Next]_(Promise!vars)
    <3>1. CASE BeginBlock(b) \/ RefuseReorg(b)
      BY <2>3, <3>1 DEF BeginBlock, RefuseReorg, store
    <3>2. CASE Rollback(b)
      <4>1. undo # << >> /\ cursor' = CursorBelow(undo)
        BY <3>2 DEF Rollback
      <4> DEFINE top == undo[Len(undo)]
      <4>2. /\ top \in Undo /\ cursor # None
            /\ cursor = [height |-> top.height, hash |-> top.hash]
            /\ top.height = HeightOf[top.hash]
            /\ top.previousHash = ParentOf[top.hash]
            /\ cursor' = [height |-> top.height - 1, hash |-> top.previousHash]
        BY <4>1, BelowLast DEF IInv
      <4>3. top.hash \in Block
        BY <4>2 DEF Undo
      <4>4. cursor' # None
        BY <4>2, <4>3, NoneAssumption
      <4>5. Indexed = top.hash /\ Indexed' = ParentOf[top.hash]
        BY <4>2, <4>4 DEF Indexed
      <4>6. Promise!Retract
        BY <2>2, <4>3, <4>5 DEF Promise!Retract, ContentHolds
      <4>7. QED
        BY <4>6 DEF Promise!Next
    <3>3. QED
      BY <2>4, <3>1, <3>2
  <2>5. CASE ApplyTransaction
    BY <2>3, <2>5 DEF ApplyTransaction
  <2>6. CASE CommitBlock
    <3>1. /\ block \in Block
          /\ IF HeightOf[block] = StartHeight THEN Indexed \notin Block
                                              ELSE Indexed = ParentOf[block]
          /\ cursor' = [height |-> HeightOf[block], hash |-> block]
      BY <2>6, BlockAssumption DEF IInv, TypeOK, BlockPlaced, CommitBlock
    <3>2. Indexed' = block
      BY <3>1, NoneAssumption DEF Indexed
    <3>3. Promise!Extend(block)
      BY <2>2, <3>1, <3>2 DEF Promise!Extend, ContentHolds
    <3>4. QED
      BY <3>1, <3>3 DEF Promise!Next
  <2>7. ASSUME UNCHANGED <<store, ingest, highest>>
        PROVE  UNCHANGED Promise!vars
    BY <2>3, <2>7 DEF store
  <2>8. CASE SourceAnswers
    BY <2>3, <2>8 DEF SourceAnswers, store
  <2>9. QED
    BY <2>4, <2>5, <2>6, <2>7, <2>8, StepCases
<1>3. QED
  BY <1>1, <1>2, Inductive, PTL DEF Spec, ImplementsChainIndex, Promise!Spec

-----------------------------------------------------------------------------
(* Over the database: SqliteIndexer, restarts included.                       *)

\* A process ends where no record was written that only its own memory
\* accounts for: what Restart assumes unless CrashAnywhere lets it end anywhere.
EndsUndisturbed == CrashAnywhere = FALSE

\* Either every block there can be at StartHeight names a parent or none does:
\* only a genesis block has none.
FirstBlocksAlike ==
  \A b, c \in Block :
    HeightOf[b] = StartHeight /\ HeightOf[c] = StartHeight
      => (ParentOf[b] = NoHash <=> ParentOf[c] = NoHash)

-----------------------------------------------------------------------------
(* The loops of the store are what Store says of them.                        *)

\* One more write applied is one more round of the loop.
LEMMA OneRound ==
  ASSUME NEW rec, NEW W, NEW list \in Seq(W), NEW n \in 1 .. Len(list)
  PROVE  Apply(rec, SubSeq(list, 1, n)) = Set(Apply(rec, SubSeq(list, 1, n - 1)), list[n])
<1> DEFINE first == SubSeq(list, 1, n - 1)
           one == <<list[n]>>
           mid == Apply(rec, first)
<1>1. first \in Seq(W) /\ one \in Seq(W)
  OBVIOUS
<1>2. SubSeq(list, 1, n) = first \o one
  OBVIOUS
<1>3. mid = [k \in DOMAIN mid |-> mid[k]]
  BY DEF Apply
<1> HIDE DEF first
<1>4. Apply(mid, one)
        = [k \in DOMAIN mid |-> IF k = list[n].key THEN list[n].value ELSE mid[k]]
  BY ApplyOne
<1>5. Set(mid, list[n])
        = [k \in DOMAIN mid |-> IF k = list[n].key THEN list[n].value ELSE mid[k]]
  BY <1>3 DEF Set
<1> HIDE DEF one
<1>6. Apply(rec, first \o one) = Apply(mid, one)
  BY <1>1, ApplyTwice
<1>7. QED
  BY <1>2, <1>4, <1>5, <1>6 DEF first

\* After n rounds the maps hold what the first n writes leave.
LEMMA RoundsAre ==
  ASSUME NEW rec, rec = [k \in DOMAIN rec |-> rec[k]], NEW W, NEW list \in Seq(W)
  PROVE  \A n \in 0 .. Len(list) : Rounds(rec, list)[n] = Apply(rec, SubSeq(list, 1, n))
<1> DEFINE N == Len(list)
           Loops(f) == f = [n \in 0 .. N |->
                              IF n = 0 THEN rec ELSE Set(f[n - 1], list[n])]
           closed == [n \in 0 .. N |-> Apply(rec, SubSeq(list, 1, n))]
           map == CHOOSE f : Loops(f)
           Reached == {n \in 0 .. N : map[n] = closed[n]}
<1>1. N \in Nat
  OBVIOUS
<1>2. Rounds(rec, list) = map
  BY DEF Rounds
<1>3. closed[0] = rec
  <2>1. SubSeq(list, 1, 0) = << >>
    OBVIOUS
  <2>2. Apply(rec, << >>) = rec
    BY ApplyNone
  <2>3. 0 \in 0 .. N
    BY <1>1
  <2>4. QED
    BY <2>1, <2>2, <2>3
<1>4. \A n \in 1 .. N : closed[n] = Set(closed[n - 1], list[n])
  <2>1. ASSUME NEW n \in 1 .. N
        PROVE  closed[n] = Set(closed[n - 1], list[n])
    <3>1. Apply(rec, SubSeq(list, 1, n)) = Set(Apply(rec, SubSeq(list, 1, n - 1)), list[n])
      BY OneRound
    <3>2. n \in 0 .. N /\ n - 1 \in 0 .. N
      BY <1>1
    <3>3. QED
      BY <3>1, <3>2
  <2>2. QED
    BY <2>1
<1>5. closed = [n \in 0 .. N |-> closed[n]]
  OBVIOUS
<1> HIDE DEF closed, N
<1>6. Loops(closed)
  <2>1. ASSUME NEW n \in 0 .. N
        PROVE  closed[n] = IF n = 0 THEN rec ELSE Set(closed[n - 1], list[n])
    BY <1>1, <1>3, <1>4
  <2>2. QED
    BY <1>5, <2>1
<1>7. Loops(map)
  <2> HIDE DEF Loops
  <2>1. QED
    BY <1>6
<1> HIDE DEF map
<1>8. 0 \in Reached
  BY <1>1, <1>3, <1>7
<1>9. ASSUME NEW n \in 1 .. N, n - 1 \in Reached
      PROVE  n \in Reached
  <2>1. n \in 0 .. N /\ n # 0
    BY <1>1
  <2>2. map[n] = Set(map[n - 1], list[n])
    BY <1>7, <2>1
  <2>3. QED
    BY <1>4, <1>9, <2>1, <2>2
<1>10. \A n \in 0 .. N : n \in Reached
  <2> HIDE DEF Reached
  <2>1. QED
    BY <1>1, <1>8, <1>9, StepByStep
<1>11. QED
  BY <1>2, <1>10 DEF closed, N

\* apply(): what it leaves, and what it returns.
LEMMA ApplyLoopIs ==
  ASSUME NEW rec, rec = [k \in DOMAIN rec |-> rec[k]], NEW W, NEW writes \in Seq(W)
  PROVE  ApplyLoop(rec, writes) = [map |-> Apply(rec, writes), before |-> Before(rec, writes)]
<1> DEFINE map == Rounds(rec, writes)
           captured == [i \in 1 .. Len(writes) |-> Capture(map[i - 1], writes[i])]
<1>1. \A n \in 0 .. Len(writes) : map[n] = Apply(rec, SubSeq(writes, 1, n))
  BY RoundsAre
<1>2. Len(writes) \in Nat /\ DOMAIN writes = 1 .. Len(writes)
  OBVIOUS
<1>3. ApplyLoop(rec, writes) = [map |-> map[Len(writes)], before |-> captured]
  BY DEF ApplyLoop
<1> HIDE DEF map
<1>4. map[Len(writes)] = Apply(rec, writes)
  <2>1. SubSeq(writes, 1, Len(writes)) = writes
    OBVIOUS
  <2>2. Len(writes) \in 0 .. Len(writes)
    BY <1>2
  <2>3. map[Len(writes)] = Apply(rec, SubSeq(writes, 1, Len(writes)))
    BY Zenon, <1>1, <2>2
  <2>4. QED
    BY <2>1, <2>3
<1>5. ASSUME NEW i \in 1 .. Len(writes)
      PROVE  captured[i] = Before(rec, writes)[i]
  <2>1. map[i - 1] = Apply(rec, SubSeq(writes, 1, i - 1))
    BY <1>1, <1>2
  <2>2. QED
    BY <1>2, <2>1 DEF Before, Capture
<1>6. captured = Before(rec, writes)
  BY <1>2, <1>5 DEF Before
<1>7. QED
  BY <1>3, <1>4, <1>6

\* What a list reversed writes last, the list writes first.
LEMMA FirstIsLast ==
  ASSUME NEW B, NEW list \in Seq(B), NEW k, Touches(list, k) # {}
  PROVE  /\ Touches(Reverse(list), k) # {}
         /\ Reverse(list)[Max(Touches(Reverse(list), k))] = list[Min(Touches(list, k))]
<1> DEFINE N == Len(list)
           back == Reverse(list)
           m == Min(Touches(list, k))
           there == (N - m) + 1
<1>1. N \in Nat /\ DOMAIN list = 1 .. N
  OBVIOUS
<1>2. DOMAIN back = 1 .. N /\ \A i \in 1 .. N : back[i] = list[(N - i) + 1]
  BY DEF Reverse
<1>3. m \in Touches(list, k) /\ \A n \in Touches(list, k) : m <= n
  <2>1. Touches(list, k) \in SUBSET Nat
    BY <1>1 DEF Touches
  <2>2. QED
    BY <2>1, MinIsLeast
<1> HIDE DEF N, back, m
<1>4. m \in 1 .. N /\ list[m].key = k
  BY <1>1, <1>3 DEF Touches
<1>5. there \in 1 .. N /\ (N - there) + 1 = m
  BY <1>1, <1>4
<1> HIDE DEF there
<1>6. there \in Touches(back, k) /\ back[there] = list[m]
  BY <1>2, <1>4, <1>5 DEF Touches
<1>7. ASSUME NEW i \in Touches(back, k)
      PROVE  i \in 1 .. N /\ i <= there
  <2>1. i \in 1 .. N /\ list[(N - i) + 1].key = k
    BY <1>2 DEF Touches
  <2>2. (N - i) + 1 \in 1 .. N
    BY <1>1, <2>1
  <2>3. m <= (N - i) + 1
    BY <1>1, <1>3, <2>1, <2>2 DEF Touches
  <2>4. QED
    BY <1>1, <1>4, <1>5, <2>1, <2>3 DEF there
<1>8. Max(Touches(back, k)) = there
  <2>1. Touches(back, k) \in SUBSET (1 .. N)
    BY <1>7
  <2>2. Max(Touches(back, k)) \in Touches(back, k)
        /\ \A y \in Touches(back, k) : Max(Touches(back, k)) >= y
    BY <1>1, <1>6, <2>1, MaxIsGreatest
  <2>3. Max(Touches(back, k)) \in 1 .. N
    BY <2>1, <2>2
  <2>4. QED
    BY <1>5, <1>6, <1>7, <2>2, <2>3
<1>9. QED
  BY <1>6, <1>8 DEF back, m

\* revert().
LEMMA RevertLoopIs ==
  ASSUME NEW rec, rec = [k \in DOMAIN rec |-> rec[k]], NEW B, NEW list \in Seq(B)
  PROVE  RevertLoop(rec, list) = Revert(rec, list)
<1> DEFINE back == Reverse(list)
           N == Len(list)
<1>1. N \in Nat /\ DOMAIN list = 1 .. N /\ \A i \in 1 .. N : list[i] \in B
  OBVIOUS
<1>2. back = [i \in 1 .. N |-> list[(N - i) + 1]]
  BY DEF Reverse
<1> HIDE DEF N
<1>3. back \in Seq(B) /\ Len(back) = N /\ SubSeq(back, 1, N) = back
  <2>1. \A i \in 1 .. N : (N - i) + 1 \in 1 .. N
    BY <1>1
  <2>2. back \in [1 .. N -> B]
    BY <1>1, <1>2, <2>1
  <2> HIDE DEF back
  <2>3. back \in Seq(B) /\ Len(back) = N
    BY <1>1, <2>2
  <2>4. QED
    BY <1>1, <2>3
<1>4. RevertLoop(rec, list) = Rounds(rec, back)[N]
  BY DEF RevertLoop, N
<1>5. Rounds(rec, back)[N] = Apply(rec, back)
  <2> HIDE DEF back
  <2>1. \A n \in 0 .. Len(back) : Rounds(rec, back)[n] = Apply(rec, SubSeq(back, 1, n))
    BY ZenonT(30), <1>3, RoundsAre
  <2>2. N \in 0 .. Len(back)
    BY <1>1, <1>3
  <2>3. Rounds(rec, back)[N] = Apply(rec, SubSeq(back, 1, N))
    BY Zenon, <2>1, <2>2
  <2>4. QED
    BY <1>3, <2>3
<1>6. ASSUME NEW k \in DOMAIN rec
      PROVE  Apply(rec, back)[k] = Revert(rec, list)[k]
  <2>1. CASE Touches(list, k) = {}
    <3>1. ASSUME NEW i \in Touches(back, k)
          PROVE  FALSE
      <4>1. i \in 1 .. N /\ list[(N - i) + 1].key = k
        BY <1>2 DEF Touches
      <4>2. (N - i) + 1 \in 1 .. N
        BY <1>1, <4>1
      <4>3. QED
        BY <1>1, <2>1, <4>1, <4>2 DEF Touches
    <3>2. Touches(back, k) = {}
      BY <3>1
    <3>3. QED
      BY <2>1, <3>2 DEF Apply, Revert
  <2>2. CASE Touches(list, k) # {}
    <3>1. /\ Touches(back, k) # {}
          /\ back[Max(Touches(back, k))] = list[Min(Touches(list, k))]
      BY <2>2, FirstIsLast
    <3>2. QED
      BY <2>2, <3>1 DEF Apply, Revert
  <2>3. QED
    BY <2>1, <2>2
<1>7. Apply(rec, back) = Revert(rec, list)
  BY <1>6 DEF Apply, Revert
<1>8. QED
  BY <1>4, <1>5, <1>7

\* Whatever the index holds, each of the store's two loops, run on it and on
\* what the transaction at hand writes or the block captured so far, does what
\* the closed forms say. (store.js:51-69)
THEOREM LoopsDoWhatTheyShould ==
  ASSUME Lossless
  PROVE  Spec => []LoopsAreClosedForms
<1>1. ASSUME IInv
      PROVE  LoopsAreClosedForms
  <2>1. records \in Records /\ before \in Seq(Write)
    BY <1>1 DEF IInv, TypeOK
  <2>2. records = [k \in DOMAIN records |-> records[k]]
    BY <2>1 DEF Records
  <2>3. RevertLoop(records, before) = Revert(records, before)
    BY <2>1, <2>2, RevertLoopIs
  <2>4. ASSUME pc = "apply", pos <= TxCount[block]
        PROVE  ApplyLoop(records, Writes(records, block, pos, idx))
                 = [map |-> Apply(records, Writes(records, block, pos, idx)),
                    before |-> Before(records, Writes(records, block, pos, idx))]
    <3>1. Writes(records, block, pos, idx) \in Seq(Write)
      BY <1>1, <2>4, ReplayAssumption DEF IInv, TypeOK, IndexMatchesChain, BlockPlaced
    <3>2. QED
      BY <2>2, <3>1, ApplyLoopIs
  <2>5. QED
    BY <2>3, <2>4 DEF LoopsAreClosedForms
<1>2. QED
  BY <1>1, Inductive, PTL

-----------------------------------------------------------------------------
(* Facts about the rows. *)

\* Every row is one that was inserted.
LEMMA RowTypes ==
  ASSUME NEW rows \in Seq(Undo)
  PROVE  \A i \in 1 .. Len(rows) :
           /\ rows[i] \in Undo
           /\ rows[i].height \in Int /\ rows[i].hash \in Block
           /\ rows[i].before \in Seq(Write)
<1>1. \A i \in 1 .. Len(rows) : rows[i] \in Undo
  OBVIOUS
<1>2. \A row \in Undo : row.height \in Int /\ row.hash \in Block
                        /\ row.before \in Seq(Write)
  BY DEF Undo
<1>3. QED
  BY <1>1, <1>2

\* If the rows below height h are the first k, there are k of them.
LEMMA BelowIs ==
  ASSUME NEW rows \in Seq(Undo), NEW h \in Int, NEW k \in 0 .. Len(rows),
         \A i \in 1 .. Len(rows) : rows[i].height < h <=> i <= k
  PROVE  Below(rows, h) = k
<1>1. {i \in DOMAIN rows : rows[i].height < h} = 1 .. k
  OBVIOUS
<1>2. Cardinality(1 .. k) = k
  BY FS_Interval
<1>3. QED
  BY <1>1, <1>2 DEF Below

\* A row that is higher than all others is appended.
LEMMA RowOnTop ==
  ASSUME NEW rows \in Seq(Undo), NEW row \in Undo, Stacked(rows),
         rows # << >> => rows[Len(rows)].height < row.height
  PROVE  WithRow(rows, row) = Append(rows, row)
<1> DEFINE n == Len(rows)
           h == row.height
<1>1. n \in Nat /\ h \in Int /\ DOMAIN rows = 1 .. n
  BY DEF Undo
<1>2. \A i \in 1 .. n : rows[i].height \in Int
  BY RowTypes
<1> HIDE DEF n, h
<1>3. ASSUME NEW i \in 1 .. n
      PROVE  rows[i].height < h
  <2>1. n \in 1 .. n /\ rows # << >>
    BY <1>1 DEF n
  <2>2. rows[n].height < h /\ rows[n].height \in Int
    BY <1>2, <2>1 DEF n, h
  <2>3. rows[i].height = rows[n].height - n + i
    BY <1>1 DEF Stacked, n
  <2>4. QED
    BY <1>1, <2>2, <2>3
<1>4. Below(rows, h) = n
  <2>1. \A i \in 1 .. n : rows[i].height < h <=> i <= n
    BY <1>1, <1>3
  <2>2. n \in 0 .. Len(rows)
    BY <1>1 DEF n
  <2>3. QED
    BY <1>1, <2>1, <2>2, BelowIs DEF n
<1>5. Below(rows, h + 1) = n
  <2>1. \A i \in 1 .. n : rows[i].height < h + 1 <=> i <= n
    BY <1>1, <1>2, <1>3
  <2>2. n \in 0 .. Len(rows) /\ h + 1 \in Int
    BY <1>1 DEF n
  <2>3. QED
    BY <2>1, <2>2, BelowIs DEF n
<1>6. RowsBelow(rows, h) = rows
  BY <1>1, <1>4 DEF RowsBelow, n
<1>7. RowsFrom(rows, h + 1) = << >>
  BY <1>1, <1>5 DEF RowsFrom, n
<1>8. Append(rows, row) \o << >> = Append(rows, row)
  OBVIOUS
<1>9. QED
  BY <1>6, <1>7, <1>8 DEF WithRow, h

\* Below the newest row are the others, above it nothing.
LEMMA AroundTop ==
  ASSUME NEW rows \in Seq(Undo), Stacked(rows), rows # << >>
  PROVE  LET n == Len(rows)
             h == rows[n].height
         IN  /\ RowsBelow(rows, h) = SubSeq(rows, 1, n - 1)
             /\ RowsFrom(rows, h + 1) = << >>
             /\ h \in Int
<1> DEFINE n == Len(rows)
           h == rows[n].height
<1>1. n \in Nat /\ n >= 1 /\ DOMAIN rows = 1 .. n
  OBVIOUS
<1>2. \A i \in 1 .. n : rows[i].height \in Int
  BY RowTypes
<1>3. h \in Int
  <2>1. n \in 1 .. n
    BY <1>1
  <2>2. QED
    BY <1>2, <2>1
<1>4. \A i \in 1 .. n : rows[i].height = h - n + i
  BY <1>1 DEF Stacked
<1>5. n - 1 \in 0 .. Len(rows) /\ n \in 0 .. Len(rows) /\ h + 1 \in Int
  BY <1>1, <1>3
<1>6. n = Len(rows)
  OBVIOUS
<1> HIDE DEF h, n
<1>7. \A i \in 1 .. n : rows[i].height < h <=> i <= n - 1
  BY <1>1, <1>3, <1>4
<1>8. \A i \in 1 .. n : rows[i].height < h + 1 <=> i <= n
  BY <1>1, <1>3, <1>4
<1>9. Below(rows, h) = n - 1
  BY <1>3, <1>5, <1>6, <1>7, BelowIs
<1>10. Below(rows, h + 1) = n
  BY <1>5, <1>6, <1>8, BelowIs
<1>11. RowsBelow(rows, h) = SubSeq(rows, 1, n - 1)
  BY <1>9 DEF RowsBelow
<1>12. RowsFrom(rows, h + 1) = << >>
  BY <1>1, <1>6, <1>10 DEF RowsFrom
<1>13. QED
  BY <1>3, <1>11, <1>12 DEF h, n

\* A row as high as the newest one replaces it.
LEMMA RowInPlace ==
  ASSUME NEW rows \in Seq(Undo), NEW row \in Undo, Stacked(rows), rows # << >>,
         rows[Len(rows)].height = row.height
  PROVE  WithRow(rows, row) = Append(SubSeq(rows, 1, Len(rows) - 1), row)
<1> DEFINE rest == SubSeq(rows, 1, Len(rows) - 1)
<1>1. WithRow(rows, row) = Append(rest, row) \o << >>
  <2>1. RowsBelow(rows, row.height) = rest /\ RowsFrom(rows, row.height + 1) = << >>
    BY AroundTop
  <2>2. QED
    BY <2>1 DEF WithRow
<1>2. Append(rest, row) \in Seq(Undo)
  OBVIOUS
<1>3. QED
  BY <1>1, <1>2

\* Deleting the newest row leaves the others.
LEMMA TopDeleted ==
  ASSUME NEW rows \in Seq(Undo), Stacked(rows), rows # << >>
  PROVE  WithoutRow(rows, rows[Len(rows)].height) = SubSeq(rows, 1, Len(rows) - 1)
<1> DEFINE rest == SubSeq(rows, 1, Len(rows) - 1)
<1>1. WithoutRow(rows, rows[Len(rows)].height) = rest \o << >>
  BY AroundTop DEF WithoutRow
<1>2. rest \in Seq(Undo)
  OBVIOUS
<1>3. QED
  BY <1>1, <1>2

\* One row too many: the oldest goes.
LEMMA OldestTrimmed ==
  ASSUME NEW rows \in Seq(Undo), Stacked(rows), Len(rows) <= UndoDepth + 1
  PROVE  Trimmed(rows) = IF Len(rows) = UndoDepth + 1 THEN SubSeq(rows, 2, Len(rows))
                                                      ELSE rows
<1>1. Len(rows) \in Nat /\ UndoDepth \in Nat /\ UndoDepth > 0
  BY SizeAssumption
<1>2. CASE Len(rows) # UndoDepth + 1
  <2>1. Len(rows) - UndoDepth <= 0
    BY <1>1, <1>2
  <2>2. QED
    BY <1>2, <2>1 DEF Trimmed
<1>3. CASE Len(rows) = UndoDepth + 1
  <2>1. Len(rows) - UndoDepth = 1 /\ Len(rows) >= 2
    BY <1>1, <1>3
  <2>2. 1 \in 1 .. Len(rows) /\ Len(rows) \in 1 .. Len(rows)
    BY <1>1, <2>1
  <2>3. /\ rows[Len(rows)].height \in Int /\ rows[1].height \in Int
        /\ \A i \in 1 .. Len(rows) :
             rows[i].height = rows[Len(rows)].height - Len(rows) + i
    BY <2>2, RowTypes DEF Stacked
  <2>4. \A i \in 1 .. Len(rows) : rows[i].height < rows[1].height + 1 <=> i <= 1
    <3>1. rows[1].height = rows[Len(rows)].height - Len(rows) + 1
      BY <2>2, <2>3
    <3>2. \A i \in 1 .. Len(rows) : rows[i].height = rows[1].height - 1 + i
      BY <1>1, <2>3, <3>1
    <3>3. QED
      BY <1>1, <2>3, <3>2
  <2>5. Below(rows, rows[1].height + 1) = 1
    <3>1. 1 \in 0 .. Len(rows) /\ rows[1].height + 1 \in Int
      BY <1>1, <2>1, <2>3
    <3>2. QED
      BY <2>4, <3>1, BelowIs
  <2>6. Trimmed(rows) = RowsFrom(rows, rows[1].height + 1)
    BY <2>1 DEF Trimmed
  <2>7. QED
    BY <1>3, <2>5, <2>6 DEF RowsFrom
<1>4. QED
  BY <1>2, <1>3

\* Rows stay linked when the newest goes; the next one is its parent's.
LEMMA LinkedFront ==
  ASSUME NEW rows \in Seq(Undo), rows # << >>, Linked(rows)
  PROVE  LET n == Len(rows)
             front == SubSeq(rows, 1, n - 1)
         IN  /\ front \in Seq(Undo) /\ Len(front) = n - 1 /\ Linked(front)
             /\ \A i \in 1 .. n - 1 : front[i] = rows[i]
             /\ front # << >> =>
                  /\ front[1] = rows[1]
                  /\ front[n - 1].hash = rows[n].previousHash
                  /\ front[n - 1].height = rows[n].height - 1
<1>1. Len(rows) \in Nat /\ Len(rows) >= 1 /\ DOMAIN rows = 1 .. Len(rows)
  OBVIOUS
<1> SUFFICES ASSUME NEW n \in Nat, n = Len(rows), n >= 1, DOMAIN rows = 1 .. n,
                    NEW front, front = SubSeq(rows, 1, n - 1)
             PROVE  /\ front \in Seq(Undo) /\ Len(front) = n - 1 /\ Linked(front)
                    /\ \A i \in 1 .. n - 1 : front[i] = rows[i]
                    /\ front # << >> =>
                         /\ front[1] = rows[1]
                         /\ front[n - 1].hash = rows[n].previousHash
                         /\ front[n - 1].height = rows[n].height - 1
  BY <1>1
<1>2. /\ front \in Seq(Undo) /\ Len(front) = n - 1 /\ DOMAIN front = 1 .. n - 1
      /\ \A i \in 1 .. n - 1 : front[i] = rows[i]
  OBVIOUS
<1>3. /\ \A i \in 1 .. n : rows[i].height = rows[n].height - n + i
      /\ \A i \in 1 .. n : RowOfBlock(rows[i])
      /\ \A i \in 1 .. n : i > 1 => rows[i].previousHash = rows[i - 1].hash
  BY DEF Linked, Stacked
<1>4. \A i \in 1 .. n : rows[i].height \in Int
  BY RowTypes
<1>5. ASSUME front # << >>
      PROVE  /\ n > 1 /\ front[1] = rows[1]
             /\ front[n - 1].hash = rows[n].previousHash
             /\ front[n - 1].height = rows[n].height - 1
  <2>1. n > 1
    <3>1. n - 1 # 0
      BY <1>2, <1>5
    <3>2. QED
      BY <3>1
  <2>2. 1 \in 1 .. n - 1 /\ n - 1 \in 1 .. n - 1 /\ n \in 1 .. n /\ n - 1 \in 1 .. n
    BY <2>1
  <2>3. rows[n - 1].height = rows[n].height - n + (n - 1) /\ rows[n].height \in Int
    BY <1>3, <1>4, <2>2
  <2>4. rows[n - 1].height = rows[n].height - 1
    BY <2>3
  <2>5. QED
    BY <1>2, <1>3, <2>1, <2>2, <2>4
<1>6. Linked(front)
  <2>1. ASSUME NEW i \in 1 .. n - 1
        PROVE  /\ front[i].height = front[n - 1].height - (n - 1) + i
               /\ RowOfBlock(front[i])
               /\ i > 1 => front[i].previousHash = front[i - 1].hash
    <3>1. i \in 1 .. n /\ front # << >> /\ front[i] = rows[i]
      <4>1. i \in 1 .. n /\ n - 1 # 0
        OBVIOUS
      <4>2. Len(front) # 0
        BY <1>2, <4>1
      <4>3. front # << >>
        BY <4>2
      <4>4. front[i] = rows[i]
        BY <1>2
      <4>5. QED
        BY <4>1, <4>3, <4>4
    <3>2. front[n - 1].height = rows[n].height - 1 /\ n \in 1 .. n
      BY <1>5, <3>1
    <3>3. rows[i].height = rows[n].height - n + i /\ rows[n].height \in Int
      BY <1>3, <1>4, <3>1, <3>2
    <3>4. front[i].height = front[n - 1].height - (n - 1) + i
      <4>1. \A h, m, j \in Int : h - m + j = (h - 1) - (m - 1) + j
        OBVIOUS
      <4>2. i \in Int /\ n \in Int
        BY <3>1
      <4>3. rows[n].height - n + i = (rows[n].height - 1) - (n - 1) + i
        BY <3>3, <4>1, <4>2
      <4>4. QED
        BY <3>1, <3>2, <3>3, <4>3
    <3>5. i > 1 => front[i - 1] = rows[i - 1]
      BY <1>2
    <3>6. QED
      BY <1>3, <3>1, <3>4, <3>5
  <2>2. QED
    BY <1>2, <2>1 DEF Linked, Stacked
<1>7. QED
  BY <1>2, <1>5, <1>6

\* Rows stay linked when the oldest goes.
LEMMA LinkedTail ==
  ASSUME NEW rows \in Seq(Undo), Len(rows) > 1, Linked(rows)
  PROVE  LET n == Len(rows)
             rest == SubSeq(rows, 2, n)
         IN  /\ rest \in Seq(Undo) /\ Len(rest) = n - 1 /\ Linked(rest)
             /\ rest # << >>
             /\ rest[n - 1] = rows[n]
             /\ rest[1].height = rows[n].height - n + 2
<1>1. Len(rows) \in Nat /\ DOMAIN rows = 1 .. Len(rows)
  OBVIOUS
<1> SUFFICES ASSUME NEW n \in Nat, n = Len(rows), n > 1, DOMAIN rows = 1 .. n,
                    NEW rest, rest = SubSeq(rows, 2, n)
             PROVE  /\ rest \in Seq(Undo) /\ Len(rest) = n - 1 /\ Linked(rest)
                    /\ rest # << >>
                    /\ rest[n - 1] = rows[n]
                    /\ rest[1].height = rows[n].height - n + 2
  BY <1>1
<1>2. /\ rest \in Seq(Undo) /\ Len(rest) = n - 1 /\ DOMAIN rest = 1 .. n - 1
      /\ \A i \in 1 .. n - 1 : rest[i] = rows[i + 1]
  OBVIOUS
<1>3. /\ \A i \in 1 .. n : rows[i].height = rows[n].height - n + i
      /\ \A i \in 1 .. n : RowOfBlock(rows[i])
      /\ \A i \in 1 .. n : i > 1 => rows[i].previousHash = rows[i - 1].hash
  BY DEF Linked, Stacked
<1>4. \A i \in 1 .. n : rows[i].height \in Int
  BY RowTypes
<1>5. rest # << >> /\ rest[n - 1] = rows[n] /\ rest[1] = rows[2]
  <2>1. 1 \in 1 .. n - 1 /\ n - 1 \in 1 .. n - 1 /\ (n - 1) + 1 = n /\ 1 + 1 = 2
    OBVIOUS
  <2>2. QED
    BY SMTT(20), <1>2, <2>1
<1>6. rows[2].height = rows[n].height - n + 2
  <2>1. 2 \in 1 .. n
    OBVIOUS
  <2>2. QED
    BY <1>3, <2>1
<1>7. Linked(rest)
  <2>1. ASSUME NEW i \in 1 .. n - 1
        PROVE  /\ rest[i].height = rest[n - 1].height - (n - 1) + i
               /\ RowOfBlock(rest[i])
               /\ i > 1 => rest[i].previousHash = rest[i - 1].hash
    <3>1. i + 1 \in 1 .. n /\ n \in 1 .. n /\ rest[i] = rows[i + 1]
      BY <1>2
    <3>2. rows[i + 1].height = rows[n].height - n + (i + 1) /\ rows[n].height \in Int
      BY <1>3, <1>4, <3>1
    <3>3. rest[i].height = rest[n - 1].height - (n - 1) + i
      BY <1>5, <3>1, <3>2
    <3>4. ASSUME i > 1
          PROVE  rest[i].previousHash = rest[i - 1].hash
      <4>1. i - 1 \in 1 .. n - 1 /\ (i - 1) + 1 = i /\ (i + 1) - 1 = i
        BY <3>4
      <4>2. rest[i - 1] = rows[i]
        BY <1>2, <4>1
      <4>3. rows[i + 1].previousHash = rows[i].hash
        BY <1>3, <3>1, <4>1
      <4>4. QED
        BY <3>1, <4>2, <4>3
    <3>5. QED
      BY <1>3, <3>1, <3>3, <3>4
  <2>2. QED
    BY <1>2, <2>1 DEF Linked, Stacked
<1>8. QED
  BY <1>2, <1>5, <1>6, <1>7

\* Rows stay linked when the row of a block on the newest one is added.
LEMMA LinkedAppend ==
  ASSUME NEW rows \in Seq(Undo), Linked(rows), NEW row \in Undo, RowOfBlock(row),
         rows # << >> =>
           /\ row.height = rows[Len(rows)].height + 1
           /\ row.previousHash = rows[Len(rows)].hash
  PROVE  Linked(Append(rows, row))
<1>1. Len(rows) \in Nat /\ DOMAIN rows = 1 .. Len(rows)
  OBVIOUS
<1> SUFFICES ASSUME NEW n \in Nat, n = Len(rows), DOMAIN rows = 1 .. n,
                    NEW more, more = Append(rows, row)
             PROVE  Linked(more)
  BY <1>1
<1>2. /\ Len(more) = n + 1 /\ DOMAIN more = 1 .. n + 1
      /\ more[n + 1] = row
      /\ \A i \in 1 .. n : more[i] = rows[i]
  OBVIOUS
<1>3. /\ \A i \in 1 .. n : rows[i].height = rows[n].height - n + i
      /\ \A i \in 1 .. n : RowOfBlock(rows[i])
      /\ \A i \in 1 .. n : i > 1 => rows[i].previousHash = rows[i - 1].hash
  BY DEF Linked, Stacked
<1>4. row.height \in Int /\ \A i \in 1 .. n : rows[i].height \in Int
  BY RowTypes DEF Undo
<1>5. n > 0 => rows # << >>
  OBVIOUS
<1>6. ASSUME NEW i \in 1 .. n + 1
      PROVE  /\ more[i].height = more[n + 1].height - (n + 1) + i
             /\ RowOfBlock(more[i])
             /\ i > 1 => more[i].previousHash = more[i - 1].hash
  <2>1. CASE i = n + 1
    <3>1. i > 1 => n \in 1 .. n /\ i - 1 = n /\ rows # << >>
      BY <1>5, <2>1
    <3>2. QED
      BY <1>2, <1>4, <2>1, <3>1
  <2>2. CASE i # n + 1
    <3>1. i \in 1 .. n /\ n \in 1 .. n /\ rows # << >>
      BY <1>5, <2>2
    <3>2. rows[i].height = rows[n].height - n + i /\ rows[n].height \in Int
      BY <1>3, <1>4, <3>1
    <3>3. more[i].height = more[n + 1].height - (n + 1) + i
      BY <1>2, <1>4, <3>1, <3>2
    <3>4. i > 1 => i - 1 \in 1 .. n
      BY <3>1
    <3>5. QED
      BY <1>2, <1>3, <3>1, <3>3, <3>4
  <2>3. QED
    BY <2>1, <2>2
<1>7. QED
  BY <1>2, <1>6 DEF Linked, Stacked

-----------------------------------------------------------------------------
(* Facts about the states of DurableIInv. *)

\* What a block that fits on the cursor builds on is what the index holds.
LEMMA BuildsOnIndex ==
  ASSUME DurableTypeOK, DurableCursorPlaced, NEW b \in Block, BuildsOnCursor(b)
  PROVE  /\ IF HeightOf[b] = StartHeight THEN Indexed \notin Block
                                         ELSE Indexed = ParentOf[b] /\ Indexed \in Block
         /\ IndexAt(ParentOf[b]) = IndexAt(Indexed)
<1>1. /\ StartHeight \in Int /\ NoHash \notin Block /\ None \notin Block
      /\ \A c \in Block : HeightOf[c] \in Int /\ HeightOf[c] >= StartHeight
      /\ IF HeightOf[b] = StartHeight THEN ParentOf[b] \notin Block
                                      ELSE ParentOf[b] \in Block
  BY BlockAssumption
<1>2. HeightOf[b] = Height + 1
      /\ (cursor # None => ParentOf[b] = NoHash \/ ParentOf[b] = cursor.hash)
  BY DEF BuildsOnCursor
<1>3. CASE cursor = None
  <2>1. Height = StartHeight - 1 /\ Indexed = None
    BY <1>3 DEF Height, Indexed
  <2>2. HeightOf[b] = StartHeight
    BY <1>1, <1>2, <2>1
  <2>3. QED
    BY <1>1, <2>1, <2>2 DEF IndexAt
<1>4. CASE cursor # None
  <2>1. Height = cursor.height /\ Indexed = cursor.hash
    BY <1>4 DEF Height, Indexed
  <2>2. cursor.height = IF cursor.hash \in Block THEN HeightOf[cursor.hash]
                                                ELSE StartHeight - 1
    BY <1>4 DEF DurableCursorPlaced, CursorPlaced
  <2>3. CASE HeightOf[b] = StartHeight
    <3>1. cursor.hash \notin Block
      BY <1>1, <1>2, <2>1, <2>2, <2>3
    <3>2. QED
      BY <1>1, <2>1, <2>3, <3>1 DEF IndexAt
  <2>4. CASE HeightOf[b] # StartHeight
    BY <1>1, <1>2, <1>4, <2>1, <2>4
  <2>5. QED
    BY <2>3, <2>4
<1>5. QED
  BY <1>3, <1>4

\* If the first blocks are alike, it names the cursor's hash as its parent.
LEMMA BuildsOnHash ==
  ASSUME FirstBlocksAlike, DurableTypeOK, DurableCursorPlaced, cursor # None,
         NEW b \in Block, BuildsOnCursor(b)
  PROVE  ParentOf[b] = cursor.hash
<1>1. ParentOf[b] = NoHash \/ ParentOf[b] = cursor.hash
  BY DEF BuildsOnCursor
<1>2. CASE HeightOf[b] # StartHeight
  BY <1>2, BuildsOnIndex DEF Indexed
<1>3. CASE HeightOf[b] = StartHeight /\ ParentOf[b] = NoHash
  <2>1. cursor.hash \notin Block
    BY <1>3, BuildsOnIndex DEF Indexed
  <2>2. PICK c \in Block : HeightOf[c] = StartHeight /\ ParentOf[c] = cursor.hash
    BY <2>1 DEF DurableCursorPlaced
  <2>3. ParentOf[c] = NoHash
    BY <1>3, <2>2 DEF FirstBlocksAlike
  <2>4. QED
    BY <1>3, <2>2, <2>3
<1>4. QED
  BY <1>1, <1>2, <1>3

\* blockHashAt at the cursor's height is the cursor's own hash, whatever row a
\* process left above it.
LEMMA DurableCursorHash ==
  ASSUME DurableIInv, cursor # None, pc # "move"
  PROVE  BlockHashAt(cursor.height) = cursor.hash
<1> DEFINE at == {i \in DOMAIN undo : undo[i].height = cursor.height}
           n == Len(undo)
<1>1. /\ undo \in Seq(Undo) /\ n \in Nat /\ DOMAIN undo = 1 .. n
      /\ cursor.height \in Int /\ Height = cursor.height
  BY DEF DurableIInv, DurableTypeOK, Height
<1>2. Linked(undo)
  BY DEF DurableIInv, Rows
<1>3. CASE at = {}
  BY <1>3 DEF BlockHashAt
<1>4. CASE at # {}
  <2>1. n \in 1 .. n /\ undo # << >>
    BY <1>1, <1>4
  <2> DEFINE top == undo[n]
  <2>2. /\ \A i \in 1 .. n : undo[i].height = top.height - n + i
        /\ \A i \in 1 .. n : RowOfBlock(undo[i])
        /\ \A i \in 1 .. n : i > 1 => undo[i].previousHash = undo[i - 1].hash
    BY <1>1, <1>2 DEF Linked, Stacked
  <2>3. \A i \in 1 .. n : undo[i].height \in Int /\ undo[i].hash \in Block
    BY <1>1, RowTypes
  <2>4. \/ cursor = [height |-> top.height, hash |-> top.hash]
        \/ BuildsOnCursor(top.hash)
    BY <2>1 DEF DurableIInv, TopPlaced, Rows
  <2>5. top.height \in Int
    BY <2>1, <2>3
  <2>6. CASE cursor = [height |-> top.height, hash |-> top.hash]
    <3>1. cursor.height = top.height /\ cursor.hash = top.hash
      BY <2>6
    <3> HIDE DEF top
    <3> HIDE DEF n
    <3>2. \A i \in 1 .. n : undo[i].height = cursor.height => i = n
      BY <1>1, <2>2, <2>5, <3>1
    <3>3. at = {n} /\ at \in SUBSET Nat
      BY <1>1, <1>4, <3>2
    <3>4. Min(at) = n
      BY <3>3, MinIsLeast
    <3>5. QED
      BY <1>4, <3>1, <3>4 DEF BlockHashAt, top
  <2>7. CASE BuildsOnCursor(top.hash)
    <3>1. HeightOf[top.hash] = cursor.height + 1 /\ RowOfBlock(top) /\ top.hash \in Block
      BY <1>1, <2>1, <2>2, <2>3, <2>7 DEF BuildsOnCursor
    <3>2. top.height = cursor.height + 1 /\ top.previousHash = ParentOf[top.hash]
      BY <3>1 DEF RowOfBlock
    <3>3. n > 1 => top.previousHash = undo[n - 1].hash
      BY <2>1, <2>2
    <3> HIDE DEF top
    <3> HIDE DEF n
    <3>4. \A i \in 1 .. n : undo[i].height = cursor.height => i = n - 1
      BY <1>1, <2>2, <2>5, <3>2
    <3>5. at = {n - 1} /\ at \in SUBSET Nat /\ n > 1 /\ n - 1 \in 1 .. n
      <4>1. PICK i \in 1 .. n : undo[i].height = cursor.height
        BY <1>1, <1>4
      <4>2. i = n - 1
        BY <3>4, <4>1
      <4>3. n > 1 /\ n - 1 \in 1 .. n /\ n - 1 \in Nat
        BY <1>1, <4>2
      <4>4. at = {n - 1}
        BY <1>1, <3>4, <4>1, <4>2
      <4>5. QED
        BY <4>3, <4>4
    <3>6. Min(at) = n - 1
      BY <3>5, MinIsLeast
    <3>7. BlockHashAt(cursor.height) = undo[n - 1].hash
      BY <1>4, <3>6 DEF BlockHashAt
    <3>8. undo[n - 1].hash = ParentOf[top.hash] /\ undo[n - 1].hash \in Block
      BY <2>3, <3>2, <3>3, <3>5
    <3>9. ParentOf[top.hash] = NoHash \/ ParentOf[top.hash] = cursor.hash
      BY <2>7 DEF BuildsOnCursor, top
    <3>10. QED
      BY <3>7, <3>8, <3>9, BlockAssumption
  <2>8. QED
    BY <2>4, <2>6, <2>7
<1>5. QED
  BY <1>3, <1>4

\* The block served next either builds on the cursor or does not fit.
LEMMA DurableFitting ==
  ASSUME DurableIInv, NEW b \in Block, Fetched(b), Fits(b)
  PROVE  BuildsOnCursor(b)
<1>1. pc = "await" /\ next = Height + 1
  BY DEF DurableIInv, DurableBlockPlaced, Fetched
<1>2. HeightOf[b] = Height + 1
  BY <1>1, BlockAssumption DEF DurableIInv, DurableBlockPlaced, Fetched
<1>3. cursor # None => ParentOf[b] \in {NoHash, cursor.hash}
  BY <1>1, DurableCursorHash DEF Fits
<1>4. QED
  BY <1>2, <1>3 DEF BuildsOnCursor

-----------------------------------------------------------------------------
(* The initial states, and one lemma per step. *)

LEMMA DurableInitIInv == DurableInit => DurableIInv
<1> SUFFICES ASSUME DurableInit PROVE DurableIInv
  OBVIOUS
<1>1. /\ StartHeight \in Int /\ UndoDepth \in Nat /\ UndoDepth > 0
      /\ MaxReorgs \in Nat /\ MaxRestarts \in Nat
      /\ Empty \in Records /\ None \notin Block
  BY BlockAssumption, SizeAssumption, ReplayAssumption, RestartAssumption
<1>2. /\ records = Empty /\ undo = << >> /\ cursor = None /\ pc = "poll"
      /\ fetched = None /\ block = None /\ pos = 0 /\ before = << >>
      /\ failure = "none" /\ last = None
      /\ highest = StartHeight - 1
  BY DEF DurableInit, Init
<1>3. DurableTypeOK
  <2>1. undo \in Seq(Undo) /\ before \in Seq(Write)
    BY <1>2
  <2>2. tip \in Int /\ next \in Int /\ highest \in Int /\ reorgs \in 0 .. MaxReorgs
        /\ restarts \in 0 .. MaxRestarts
    BY <1>1 DEF DurableInit, Init
  <2>3. idx \in Nat /\ stopping \in BOOLEAN /\ best \in Block
    BY DEF DurableInit, Init
  <2>4. QED
    BY <1>1, <1>2, <2>1, <2>2, <2>3 DEF DurableTypeOK, Running, RollingBack
<1>4. Rows = << >>
  BY <1>2 DEF Rows
<1>5. Linked(Rows)
  BY <1>4 DEF Linked, Stacked
<1>6. TopPlaced
  BY <1>2, <1>4 DEF TopPlaced, Committing
<1>7. DurableCursorPlaced /\ DurableBlockPlaced
  BY <1>2 DEF DurableCursorPlaced, CursorPlaced, DurableBlockPlaced, Committing,
              RollingBack
<1>8. WindowKept
  <2>1. Reach = StartHeight - 1
    BY <1>2, <1>4 DEF Reach, Height
  <2>2. Max({StartHeight - 1, highest - UndoDepth}) = StartHeight - 1
    BY <1>1, <1>2, MaxOfTwo
  <2>3. Len(Rows) = 0
    BY <1>4
  <2>4. QED
    BY <1>1, <1>2, <2>1, <2>2, <2>3 DEF WindowKept
<1>9. DurableIndexMatchesChain
  <2>1. DurableIndexed = None
    BY <1>2 DEF DurableIndexed, RollingBack, Indexed
  <2>2. Revert(records, before) = Empty
    BY <1>1, <1>2, RevertNothing
  <2>3. QED
    BY <1>1, <2>1, <2>2 DEF DurableIndexMatchesChain, IndexAt
<1>10. QED
  BY <1>3, <1>5, <1>6, <1>7, <1>8, <1>9 DEF DurableIInv

\* A step that leaves the rows and the cursor alone, outside of commits and
\* rollbacks, leaves what is said of them alone.
LEMMA RowsUntouched ==
  ASSUME DurableIInv, UNCHANGED <<undo, cursor, highest, last>>,
         pc \notin Committing \cup RollingBack, pc' \notin Committing \cup RollingBack
  PROVE  /\ Linked(Rows)' /\ TopPlaced' /\ DurableCursorPlaced' /\ WindowKept'
         /\ Height' = Height /\ Indexed' = Indexed
         /\ DurableIndexed = Indexed /\ DurableIndexed' = Indexed
<1>1. Height' = Height /\ Indexed' = Indexed
  BY DEF Height, Indexed
<1>2. Rows = undo /\ Rows' = undo /\ pc # "move" /\ pc # "drop" /\ pc' # "drop"
      /\ pc # "meta" /\ pc' # "meta"
  BY DEF Rows, RollingBack, Committing
<1>3. Linked(Rows)'
  BY <1>2 DEF DurableIInv, Linked, Stacked, RowOfBlock
<1>4. \A b : BuildsOnCursor(b)' <=> BuildsOnCursor(b)
  BY <1>1 DEF BuildsOnCursor
<1>5. TopPlaced'
  BY <1>2, <1>4 DEF DurableIInv, TopPlaced
<1>6. DurableCursorPlaced'
  BY DEF DurableIInv, DurableCursorPlaced, CursorPlaced
<1>7. Reach' = Reach
  BY <1>1, <1>2 DEF Reach
<1>8. WindowKept'
  BY <1>1, <1>2, <1>7 DEF DurableIInv, WindowKept
<1>9. DurableIndexed = Indexed /\ DurableIndexed' = Indexed
  BY <1>1 DEF DurableIndexed
<1>10. QED
  BY <1>1, <1>3, <1>5, <1>6, <1>8, <1>9

LEMMA DurableBeginBlockStep ==
  ASSUME DurableIInv, NEW b \in Block, BeginBlock(b), UNCHANGED <<last, restarts>>
  PROVE  DurableIInv'
<1>1. BuildsOnCursor(b)
  BY DurableFitting DEF BeginBlock
<1>2. /\ b # None /\ TxCount[b] \in Nat
      /\ IndexAt(ParentOf[b]) = IndexAt(Indexed) /\ Replay[b][1] = IndexAt(ParentOf[b])
  BY <1>1, BlockAssumption, ReplayAssumption, BuildsOnIndex DEF DurableIInv
<1>3. /\ UNCHANGED <<records, undo, cursor, next, failure, best, reorgs, highest>>
      /\ block' = b /\ pos' = 1 /\ idx' = 0 /\ before' = << >> /\ pc' = "apply"
      /\ UNCHANGED <<tip, stopping, last, restarts>>
      /\ pc = "await" /\ fetched' = None
  BY DEF BeginBlock, Fetched, store, source
<1>4. pc \notin Committing \cup RollingBack /\ pc' \notin Committing \cup RollingBack
  BY <1>3 DEF Committing, RollingBack
<1>5. /\ Linked(Rows)' /\ TopPlaced' /\ DurableCursorPlaced' /\ WindowKept'
      /\ Height' = Height /\ Indexed' = Indexed
      /\ DurableIndexed = Indexed /\ DurableIndexed' = Indexed
  BY <1>3, <1>4, RowsUntouched
<1>6. block = None /\ before = << >> /\ records \in Records /\ failure = "none"
      /\ next = Height + 1
  BY <1>3 DEF DurableIInv, DurableTypeOK, DurableBlockPlaced, Committing
<1>7. records = IndexAt(Indexed)
  BY <1>5, <1>6, RevertNothing DEF DurableIInv, DurableIndexMatchesChain
<1>8. DurableTypeOK'
  BY <1>3, <1>4 DEF DurableIInv, DurableTypeOK, Running
<1>9. BuildsOnCursor(b)'
  BY <1>1, <1>3, <1>5 DEF BuildsOnCursor
<1>10. DurableBlockPlaced'
  BY <1>2, <1>3, <1>4, <1>5, <1>6, <1>7, <1>9 DEF DurableBlockPlaced
<1>11. DurableIndexMatchesChain'
  BY <1>3, <1>5, <1>6, <1>7, RevertNothing DEF DurableIndexMatchesChain
<1>12. QED
  BY <1>5, <1>8, <1>10, <1>11 DEF DurableIInv

LEMMA DurableApplyTransactionStep ==
  ASSUME DurableIInv, ApplyTransaction, UNCHANGED <<last, restarts>>
  PROVE  DurableIInv'
<1> DEFINE writes == Writes(records, block, pos, idx)
<1>1. /\ block \in Block /\ pos \in 1 .. TxCount[block] /\ idx = pos - 1
      /\ records = Replay[block][pos] /\ BuildsOnCursor(block)
      /\ records \in Records /\ before \in Seq(Write) /\ block # None /\ pc = "apply"
  BY BlockAssumption
     DEF DurableIInv, ApplyTransaction, DurableBlockPlaced, DurableTypeOK
<1>2. writes \in Seq(Write) /\ Replay[block][pos + 1] = Apply(records, writes)
  BY <1>1, ReplayAssumption
<1>3. /\ records' = Apply(records, writes)
      /\ before' = before \o Before(records, writes)
      /\ pos' = pos + 1 /\ idx' = idx + 1
      /\ UNCHANGED <<undo, cursor, pc, tip, next, fetched, block, stopping, failure,
                     best, reorgs, highest, last, restarts>>
  BY DEF ApplyTransaction, source
<1>4. pc \notin Committing \cup RollingBack /\ pc' \notin Committing \cup RollingBack
  BY <1>1, <1>3 DEF Committing, RollingBack
<1>5. /\ Linked(Rows)' /\ TopPlaced' /\ DurableCursorPlaced' /\ WindowKept'
      /\ Height' = Height /\ Indexed' = Indexed
      /\ DurableIndexed = Indexed /\ DurableIndexed' = Indexed
  BY <1>3, <1>4, RowsUntouched
<1>6. records' \in Records /\ before' \in Seq(Write)
  BY <1>1, <1>2, <1>3, ApplyInRecords, BeforeIsWrites
<1>7. DurableTypeOK'
  BY <1>1, <1>3, <1>6 DEF DurableIInv, DurableTypeOK
<1>8. BuildsOnCursor(block)'
  BY <1>1, <1>3, <1>5 DEF BuildsOnCursor
<1>9. DurableBlockPlaced'
  <2>1. TxCount[block] \in Nat
    BY <1>1, BlockAssumption
  <2>2. pos + 1 \in 1 .. TxCount[block] + 1 /\ idx + 1 = (pos + 1) - 1
    BY <1>1, <2>1
  <2>3. next = Height + 1 /\ failure = "none" /\ fetched = None
    BY <1>1 DEF DurableIInv, DurableBlockPlaced
  <2>4. QED
    BY <1>1, <1>2, <1>3, <1>4, <1>5, <1>8, <2>2, <2>3 DEF DurableBlockPlaced
<1>10. DurableIndexMatchesChain'
  <2>1. Revert(records', before') = Revert(records, before)
    BY <1>1, <1>2, <1>3, RevertUndoesApply
  <2>2. QED
    BY <1>5, <2>1 DEF DurableIInv, DurableIndexMatchesChain
<1>11. QED
  BY <1>5, <1>7, <1>9, <1>10 DEF DurableIInv

\* The steps that leave the store and the block at hand alone.
LEMMA DurableControlStep ==
  ASSUME DurableIInv, UNCHANGED <<store, ingest, highest, last, restarts>>,
         \/ Poll \/ Wake \/ Finish \/ LeaveInner \/ AskForBlock \/ RequestFails
         \/ Stop \/ SourceMoves \/ UNCHANGED vars
  PROVE  DurableIInv'
<1>1. UNCHANGED <<records, undo, cursor, fetched, block, pos, idx, before, highest,
                  last, restarts>>
  BY DEF store, ingest
<1>2. Height' = Height /\ Indexed' = Indexed
  BY <1>1 DEF Height, Indexed
<1>3. /\ \/ pc' = pc /\ next' = next /\ tip' = tip
         \/ /\ pc \in Running /\ pc' \in Running \cup {"done", "failed"}
            /\ (block # None => pc' \in {"apply", "failed"})
            /\ (pc' = "apply" => block # None)
            /\ (pc' \in {"fetch", "await", "apply"} => next' = Height + 1)
            /\ (fetched # None => pc' = "await" /\ HeightOf[fetched] = next')
            /\ tip' \in Int /\ next' \in Int
      /\ failure' \in {"none", "upstream", "reorg_beyond_undo_window"}
      /\ (failure' = failure \/ failure' = "upstream")
      /\ (pc' # "failed" => failure' = "none")
      /\ stopping' \in BOOLEAN
      /\ best' \in Block /\ reorgs' \in 0 .. MaxReorgs
  <2>1. /\ StartHeight \in Int /\ MaxReorgs \in Nat
        /\ HeightOf[best] \in Int /\ Target \in Int
    BY BlockAssumption, SizeAssumption
       DEF DurableIInv, DurableTypeOK, Target, TipHeight
  <2>2. Height \in Int
    BY <2>1 DEF DurableIInv, DurableTypeOK, Height
  <2>3. /\ failure \in {"none", "upstream", "reorg_beyond_undo_window"}
        /\ (pc # "failed" => failure = "none")
        /\ (block # None => pc \in {"apply", "failed"} \cup Committing)
        /\ (pc = "apply" => block # None)
        /\ (pc \in {"fetch", "await", "apply"} => next = Height + 1)
        /\ (fetched # None => pc = "await" /\ HeightOf[fetched] = next)
        /\ tip \in Int /\ next \in Int /\ stopping \in BOOLEAN
        /\ best \in Block /\ reorgs \in 0 .. MaxReorgs
    BY DEF DurableIInv, DurableTypeOK, DurableBlockPlaced
  <2>4. CASE Poll
    BY <2>1, <2>2, <2>3, <2>4 DEF Poll, source, Running, Committing
  <2>5. CASE Wake \/ Finish \/ LeaveInner \/ AskForBlock
    BY <2>3, <2>5 DEF Wake, Finish, LeaveInner, AskForBlock, source, Running, Committing
  <2>6. CASE RequestFails
    BY <2>3, <2>6 DEF RequestFails, source, Running, Committing
  <2>7. CASE Stop
    BY <2>3, <2>7 DEF Stop, source
  <2>8. CASE SourceMoves
    BY <2>1, <2>3, <2>8 DEF SourceMoves
  <2>9. CASE UNCHANGED vars
    BY <2>3, <2>9 DEF vars, source
  <2>10. QED
    BY <2>4, <2>5, <2>6, <2>7, <2>8, <2>9
<1>4. DurableTypeOK'
  <2>1. /\ pc' \in Running \cup Committing \cup RollingBack \cup {"done", "failed"}
        /\ tip' \in Int /\ next' \in Int
        /\ (pc' \in RollingBack <=> pc \in RollingBack)
    BY <1>3 DEF DurableIInv, DurableTypeOK, Running, RollingBack
  <2>2. QED
    BY <1>1, <1>3, <2>1 DEF DurableIInv, DurableTypeOK
<1>5. /\ Linked(Rows)' /\ TopPlaced' /\ DurableCursorPlaced' /\ WindowKept'
      /\ DurableIndexed' = DurableIndexed
  <2>1. CASE pc' # pc
    <3>1. pc \notin Committing \cup RollingBack /\ pc' \notin Committing \cup RollingBack
      BY <1>3, <2>1 DEF Running, Committing, RollingBack
    <3>2. QED
      BY <1>1, <3>1, RowsUntouched
  <2>2. CASE pc' = pc
    <3>1. Rows' = Rows /\ Entry' = Entry /\ Reach' = Reach
          /\ DurableIndexed' = DurableIndexed
      BY <1>1, <1>2, <2>2 DEF Rows, Entry, Reach, DurableIndexed
    <3>2. \A b : BuildsOnCursor(b)' <=> BuildsOnCursor(b)
      BY <1>1, <1>2 DEF BuildsOnCursor
    <3>3. Linked(Rows)'
      BY <3>1 DEF DurableIInv, Linked, Stacked, RowOfBlock
    <3>4. TopPlaced'
      BY <1>1, <2>2, <3>1, <3>2 DEF DurableIInv, TopPlaced
    <3>5. DurableCursorPlaced'
      BY <1>1 DEF DurableIInv, DurableCursorPlaced, CursorPlaced
    <3>6. WindowKept'
      BY <1>1, <1>2, <2>2, <3>1 DEF DurableIInv, WindowKept
    <3>7. QED
      BY <3>1, <3>3, <3>4, <3>5, <3>6
  <2>3. QED
    BY <2>1, <2>2
<1>6. DurableIndexMatchesChain'
  BY <1>1, <1>5 DEF DurableIInv, DurableIndexMatchesChain
<1>7. DurableBlockPlaced'
  <2>1. \A b : BuildsOnCursor(b)' <=> BuildsOnCursor(b)
    BY <1>1, <1>2 DEF BuildsOnCursor
  <2>2. CASE pc' = pc /\ next' = next
    BY <1>1, <1>2, <1>3, <2>1, <2>2 DEF DurableIInv, DurableBlockPlaced
  <2>3. CASE ~(pc' = pc /\ next' = next)
    BY <1>1, <1>2, <1>3, <2>1, <2>3
       DEF DurableIInv, DurableBlockPlaced, Running, Committing, RollingBack
  <2>4. QED
    BY <2>2, <2>3
<1>8. QED
  BY <1>4, <1>5, <1>6, <1>7 DEF DurableIInv

LEMMA DurableSourceAnswersStep ==
  ASSUME DurableIInv, SourceAnswers, UNCHANGED <<last, restarts>>
  PROVE  DurableIInv'
<1>1. /\ pc = "await" /\ pc' = "await"
      /\ UNCHANGED <<records, undo, cursor, tip, next, block, pos, idx, before,
                     stopping, failure, best, reorgs, highest, last, restarts>>
  BY DEF SourceAnswers, store, source
<1>2. fetched' \in Block /\ HeightOf[fetched'] = next
  BY AnsweredBlock DEF DurableIInv, DurableTypeOK
<1>3. pc \notin Committing \cup RollingBack /\ pc' \notin Committing \cup RollingBack
  BY <1>1 DEF Committing, RollingBack
<1>4. /\ Linked(Rows)' /\ TopPlaced' /\ DurableCursorPlaced' /\ WindowKept'
      /\ Height' = Height /\ Indexed' = Indexed
      /\ DurableIndexed = Indexed /\ DurableIndexed' = Indexed
  BY <1>1, <1>3, RowsUntouched
<1>5. DurableTypeOK'
  BY <1>1, <1>2, <1>3 DEF DurableIInv, DurableTypeOK
<1>6. DurableIndexMatchesChain'
  BY <1>1, <1>4 DEF DurableIInv, DurableIndexMatchesChain
<1>7. block = None
  BY <1>1 DEF DurableIInv, DurableBlockPlaced, Committing
<1>8. DurableBlockPlaced'
  BY <1>1, <1>2, <1>3, <1>4, <1>7 DEF DurableIInv, DurableBlockPlaced
<1>9. QED
  BY <1>4, <1>5, <1>6, <1>8 DEF DurableIInv

\* A refusal finds the cursor at the bottom of the window.
LEMMA DurableRefuseReorgStep ==
  ASSUME DurableIInv, NEW b \in Block, RefuseReorg(b), UNCHANGED <<last, restarts>>
  PROVE  DurableIInv'
<1>1. /\ pc = "await" /\ undo = << >> /\ cursor # None /\ pc' = "failed"
      /\ failure' = "reorg_beyond_undo_window" /\ fetched' = None
      /\ UNCHANGED <<records, undo, cursor, tip, next, block, pos, idx, before,
                     stopping, best, reorgs, highest, last, restarts>>
  BY DEF RefuseReorg, Fetched, Fits, store, ingest, source
<1>2. block = None /\ pos = 0 /\ before = << >>
  BY <1>1 DEF DurableIInv, DurableBlockPlaced, Committing
<1>3. pc \notin Committing \cup RollingBack /\ pc' \notin Committing \cup RollingBack
  BY <1>1 DEF Committing, RollingBack
<1>4. /\ Linked(Rows)' /\ TopPlaced' /\ DurableCursorPlaced' /\ WindowKept'
      /\ DurableIndexed = Indexed /\ DurableIndexed' = Indexed
  BY <1>1, <1>3, RowsUntouched
<1>5. DurableTypeOK'
  BY <1>1, <1>3 DEF DurableIInv, DurableTypeOK
<1>6. DurableIndexMatchesChain'
  BY <1>1, <1>4 DEF DurableIInv, DurableIndexMatchesChain
<1>7. DurableBlockPlaced'
  BY <1>1, <1>2, <1>3 DEF DurableBlockPlaced
<1>8. QED
  BY <1>4, <1>5, <1>6, <1>7 DEF DurableIInv

\* The floor of the window rises with the highest block.
LEMMA FloorIs ==
  ASSUME NEW h \in Int
  PROVE  /\ Max({StartHeight - 1, h - UndoDepth})
              = IF StartHeight - 1 >= h - UndoDepth THEN StartHeight - 1
                                                   ELSE h - UndoDepth
         /\ StartHeight \in Int /\ UndoDepth \in Nat /\ UndoDepth > 0
<1>1. StartHeight \in Int /\ UndoDepth \in Nat /\ UndoDepth > 0
  BY BlockAssumption, SizeAssumption
<1>2. QED
  BY <1>1, MaxOfTwo

\* The row pushed for a block goes on top of the cursor's, in place of the one
\* that a process may have left there.
LEMMA PushedRow ==
  ASSUME DurableIInv, pc = "apply", Entry \in Undo, RowOfBlock(Entry),
         block \in Block, BuildsOnCursor(block)
  PROVE  LET rows == WithRow(undo, Entry)
         IN  /\ rows \in Seq(Undo) /\ Linked(rows) /\ rows # << >>
             /\ rows[Len(rows)] = Entry
             /\ rows[1].height - 1 = Reach
             /\ Len(rows) <= UndoDepth + 1
<1> DEFINE n == Len(undo)
           top == undo[n]
<1>1. /\ undo \in Seq(Undo) /\ n \in Nat /\ Rows = undo /\ Linked(undo) /\ Stacked(undo)
      /\ UndoDepth \in Nat /\ n <= UndoDepth + 1
      /\ n = UndoDepth + 1 => top.height = Height + 1
  BY SizeAssumption DEF DurableIInv, DurableTypeOK, Rows, Linked, WindowKept
<1>2. /\ Entry.height = HeightOf[block] /\ Entry.previousHash = ParentOf[block]
      /\ HeightOf[block] = Height + 1 /\ Entry.height \in Int /\ Height \in Int
  <2>1. Height \in Int
    BY BlockAssumption DEF DurableIInv, DurableTypeOK, Height
  <2>2. Entry.height \in Int
    BY DEF Undo
  <2>3. QED
    BY <2>1, <2>2 DEF Entry, BuildsOnCursor
<1>3. IF HeightOf[block] = StartHeight THEN Indexed \notin Block
                                       ELSE Indexed = ParentOf[block]
  BY BuildsOnIndex DEF DurableIInv
<1>4. CASE undo = << >>
  <2>1. WithRow(undo, Entry) = <<Entry>>
    <3>1. WithRow(undo, Entry) = Append(undo, Entry)
      BY <1>1, <1>4, RowOnTop
    <3>2. Append(<< >>, Entry) = <<Entry>>
      OBVIOUS
    <3>3. QED
      BY <1>4, <3>1, <3>2
  <2>2. Linked(<<Entry>>)
    BY <1>2 DEF Linked, Stacked
  <2>3. Reach = Height
    BY <1>1, <1>4 DEF Reach
  <2>4. QED
    BY <1>1, <1>2, <2>1, <2>2, <2>3
<1>5. ASSUME undo # << >>
      PROVE  /\ n >= 1 /\ n \in 1 .. n /\ 1 \in 1 .. n /\ n \in DOMAIN undo
             /\ top \in Undo /\ top.height \in Int /\ top.hash \in Block
             /\ undo[1].height \in Int
             /\ RowOfBlock(top)
             /\ \/ cursor = [height |-> top.height, hash |-> top.hash]
                \/ BuildsOnCursor(top.hash)
             /\ Reach = undo[1].height - 1
  <2>1. n >= 1 /\ n \in 1 .. n /\ 1 \in 1 .. n /\ n \in DOMAIN undo
    BY <1>1, <1>5
  <2>2. top \in Undo /\ top.height \in Int /\ top.hash \in Block
        /\ undo[1].height \in Int
    BY <1>1, <2>1, RowTypes
  <2>3. QED
    BY <1>1, <1>5, <2>1, <2>2 DEF DurableIInv, TopPlaced, Linked, Reach
<1>6. CASE undo # << >> /\ cursor = [height |-> top.height, hash |-> top.hash]
  <2>1. Height = top.height /\ Indexed = top.hash
    <3>1. cursor # None
      BY <1>5, <1>6, NoneAssumption DEF RowOfBlock
    <3>2. QED
      BY <1>6, <3>1 DEF Height, Indexed
  <2>2. top.height < Entry.height /\ Entry.height = top.height + 1 /\ n # UndoDepth + 1
    BY <1>1, <1>2, <1>5, <1>6, <2>1
  <2>3. Entry.previousHash = top.hash
    BY <1>2, <1>3, <1>5, <1>6, <2>1
       DEF RowOfBlock
  <2>4. WithRow(undo, Entry) = Append(undo, Entry)
    BY <1>1, <2>2, RowOnTop
  <2>5. Linked(Append(undo, Entry))
    BY <1>1, <2>2, <2>3, LinkedAppend
  <2>6. /\ Append(undo, Entry) \in Seq(Undo) /\ Len(Append(undo, Entry)) = n + 1
        /\ Append(undo, Entry)[n + 1] = Entry /\ Append(undo, Entry)[1] = undo[1]
        /\ Append(undo, Entry) # << >>
    BY <1>1, <1>5, <1>6
  <2>7. n + 1 <= UndoDepth + 1
    BY <1>1, <2>2
  <2>8. QED
    BY <1>5, <1>6, <2>4, <2>5, <2>6, <2>7
<1>7. CASE undo # << >> /\ BuildsOnCursor(top.hash)
  <2> DEFINE front == SubSeq(undo, 1, n - 1)
  <2>1. top.height = Entry.height
    BY <1>2, <1>5, <1>7 DEF RowOfBlock, BuildsOnCursor
  <2>2. /\ front \in Seq(Undo) /\ Len(front) = n - 1 /\ Linked(front)
        /\ front # << >> =>
             /\ front[1] = undo[1]
             /\ front[n - 1].hash = top.previousHash
             /\ front[n - 1].height = top.height - 1
    BY <1>1, <1>7, LinkedFront
  <2>3. WithRow(undo, Entry) = Append(front, Entry)
    BY <1>1, <1>7, <2>1, RowInPlace
  <2>4. ASSUME front # << >>
        PROVE  /\ Entry.previousHash = front[Len(front)].hash
               /\ Entry.height = front[Len(front)].height + 1
    <3>1. n - 1 \in 1 .. n - 1
      BY <1>1, <2>2, <2>4
    <3>2. front[n - 1].hash \in Block
      BY <2>2, <3>1, RowTypes
    <3>3. ParentOf[top.hash] \in Block /\ top.previousHash = ParentOf[top.hash]
      BY <1>5, <1>7, <2>2, <2>4, <3>2 DEF RowOfBlock
    <3>4. HeightOf[top.hash] # StartHeight
      BY <1>5, <1>7, <3>3, BlockAssumption
    <3>5. Indexed = ParentOf[top.hash]
      BY <1>5, <1>7, <3>4, BuildsOnIndex DEF DurableIInv
    <3>6. HeightOf[block] # StartHeight
      BY <1>2, <1>7, <3>4 DEF BuildsOnCursor
    <3>7. QED
      BY <1>2, <1>3, <1>5, <1>7, <2>1, <2>2, <2>4, <3>3, <3>5, <3>6
  <2>5. Linked(Append(front, Entry))
    BY <2>2, <2>4, LinkedAppend
  <2>6. /\ Append(front, Entry) \in Seq(Undo) /\ Len(Append(front, Entry)) = n
        /\ Append(front, Entry)[n] = Entry
        /\ Append(front, Entry) # << >>
    BY <1>1, <1>5, <1>7, <2>2
  <2>7. Append(front, Entry)[1].height = undo[1].height
    <3>1. CASE n = 1
      BY <2>1, <2>6, <3>1
    <3>2. CASE n # 1
      <4>1. n - 1 # 0 /\ 1 \in 1 .. n - 1
        <5>1. \A m \in Nat : m >= 1 /\ m # 1 => m - 1 # 0 /\ 1 \in 1 .. m - 1
          OBVIOUS
        <5>2. QED
          BY <1>1, <1>5, <1>7, <3>2, <5>1
      <4>2. front # << >>
        BY <2>2, <4>1
      <4>3. Append(front, Entry)[1] = front[1]
        <5>1. \A i \in 1 .. Len(front) : Append(front, Entry)[i] = front[i]
          BY <2>2, AppendProperties
        <5>2. 1 \in 1 .. Len(front)
          BY <2>2, <4>1
        <5>3. QED
          BY <5>1, <5>2
      <4>4. QED
        BY <2>2, <4>2, <4>3
    <3>3. QED
      BY <3>1, <3>2
  <2>8. QED
    BY <1>1, <1>5, <1>7, <2>3, <2>5, <2>6, <2>7
<1>8. QED
  BY <1>4, <1>5, <1>6, <1>7

LEMMA PushRowStep ==
  ASSUME DurableIInv, PushRow
  PROVE  DurableIInv'
<1>1. /\ pc = "apply" /\ pos > TxCount[block]
      /\ undo' = WithRow(undo, Entry)
      /\ highest' = Max({highest, HeightOf[block]})
      /\ pc' = "trim"
      /\ UNCHANGED <<records, cursor, tip, next, fetched, block, pos, idx, before, stopping,
                     failure, best, reorgs, last, restarts>>
  BY DEF PushRow, ingest, source
<1>2. /\ block \in Block /\ block # None /\ failure = "none" /\ next = Height + 1
      /\ pos \in 1 .. TxCount[block] + 1 /\ idx = pos - 1 /\ BuildsOnCursor(block)
      /\ records = Replay[block][pos] /\ before \in Seq(Write) /\ fetched = None
      /\ highest \in Int /\ restarts \in 0 .. MaxRestarts
  BY <1>1, BlockAssumption DEF DurableIInv, DurableTypeOK, DurableBlockPlaced
<1>3. /\ TxCount[block] \in Nat /\ HeightOf[block] \in Int
      /\ HeightOf[block] = Height + 1
  BY <1>2, BlockAssumption DEF BuildsOnCursor
<1>4. pos = TxCount[block] + 1 /\ records = IndexAt(block)
  BY <1>1, <1>2, <1>3 DEF IndexAt
<1>5. /\ Height' = Height /\ Indexed' = Indexed /\ Entry' = Entry
      /\ DurableIndexed = Indexed /\ DurableIndexed' = Indexed
  BY <1>1 DEF Height, Indexed, Entry, DurableIndexed, RollingBack
<1>6. Revert(records, before) = IndexAt(ParentOf[block])
  BY <1>2, <1>5, BuildsOnIndex DEF DurableIInv, DurableIndexMatchesChain
<1>7. Entry \in Undo
  BY <1>2, <1>3 DEF Entry, Undo
<1>8. RowOfBlock(Entry)
  BY <1>4, <1>6 DEF Entry, RowOfBlock
<1>9. /\ undo' \in Seq(Undo) /\ Linked(undo') /\ undo' # << >>
      /\ undo'[Len(undo')] = Entry
      /\ undo'[1].height - 1 = Reach
      /\ Len(undo') <= UndoDepth + 1
  BY <1>1, <1>2, <1>7, <1>8, PushedRow
<1>10. Rows' = undo'
  BY <1>1 DEF Rows
<1>11. highest' = IF highest >= HeightOf[block] THEN highest ELSE HeightOf[block]
  BY <1>1, <1>2, <1>3, MaxOfTwo
<1>12. DurableTypeOK'
  <2>1. highest' \in Int
    BY <1>2, <1>3, <1>11
  <2>2. QED
    BY <1>1, <1>9, <2>1 DEF DurableIInv, DurableTypeOK, Committing, RollingBack
<1>13. Linked(Rows)'
  BY <1>9, <1>10 DEF Linked, Stacked, RowOfBlock
<1>14. BuildsOnCursor(block)'
  BY <1>1, <1>2, <1>5 DEF BuildsOnCursor
<1>15. Entry.hash = block /\ Entry.height = HeightOf[block]
  BY DEF Entry
<1>16. TopPlaced'
  <2>1. Entry.height <= highest'
    BY <1>2, <1>3, <1>11, <1>15
  <2>2. BuildsOnCursor(Entry.hash)'
    BY <1>1, <1>14, <1>15, <1>5
  <2>3. QED
    BY <1>1, <1>5, <1>9, <1>10, <2>1, <2>2 DEF TopPlaced, Committing
<1>17. DurableCursorPlaced'
  BY <1>1 DEF DurableIInv, DurableCursorPlaced, CursorPlaced
<1>18. DurableBlockPlaced'
  BY <1>1, <1>2, <1>4, <1>5, <1>14 DEF DurableBlockPlaced, Committing, RollingBack
<1>19. WindowKept'
  <2>1. Reach' = Reach
    BY <1>9, <1>10 DEF Reach
  <2>2. Reach <= Max({StartHeight - 1, highest - UndoDepth}) /\ Reach \in Int
    <3>1. undo'[1].height \in Int
      BY <1>9, RowTypes
    <3>2. QED
      BY <1>9, <3>1 DEF DurableIInv, WindowKept
  <2>3. Reach' <= Max({StartHeight - 1, highest' - UndoDepth})
    <3>1. highest' \in Int /\ highest' >= highest
      BY <1>2, <1>3, <1>11
    <3>2. QED
      BY SMTT(20), <1>2, <2>1, <2>2, <3>1, FloorIs
  <2>4. QED
    BY <1>1, <1>3, <1>5, <1>9, <1>10, <1>15, <2>3 DEF WindowKept
<1>20. DurableIndexMatchesChain'
  BY <1>1, <1>5 DEF DurableIInv, DurableIndexMatchesChain
<1>21. QED
  BY <1>12, <1>13, <1>16, <1>17, <1>18, <1>19, <1>20 DEF DurableIInv

LEMMA TrimRowsStep ==
  ASSUME DurableIInv, TrimRows
  PROVE  DurableIInv'
<1> DEFINE n == Len(undo)
<1>1. /\ pc = "trim" /\ pc' = "meta" /\ undo' = Trimmed(undo)
      /\ UNCHANGED <<records, cursor, tip, next, fetched, block, pos, idx, before, stopping,
                     failure, best, reorgs, highest, last, restarts>>
  BY DEF TrimRows, ingest, source
<1>2. /\ undo \in Seq(Undo) /\ undo # << >> /\ undo[n] = Entry
      /\ Rows = undo /\ Rows' = undo' /\ Linked(undo) /\ Stacked(undo)
      /\ n <= UndoDepth + 1 /\ Entry.height <= highest
      /\ Reach <= Max({StartHeight - 1, highest - UndoDepth})
      /\ highest \in Int
  BY <1>1 DEF DurableIInv, DurableTypeOK, TopPlaced, Committing, Rows, Linked,
              WindowKept
<1>3. n \in Nat /\ n >= 1 /\ UndoDepth \in Nat /\ UndoDepth > 0 /\ StartHeight \in Int
  BY <1>2, SizeAssumption, BlockAssumption
<1>4. Reach = undo[1].height - 1 /\ undo[1].height \in Int /\ Entry.height \in Int
  <2>1. 1 \in 1 .. n /\ n \in 1 .. n
    BY <1>3
  <2>2. undo[1].height \in Int /\ undo[n].height \in Int
    BY <1>2, <2>1, RowTypes
  <2>3. QED
    BY <1>2, <2>2 DEF Reach
<1>5. /\ undo' \in Seq(Undo) /\ undo' # << >> /\ Linked(undo') /\ Len(undo') <= UndoDepth
      /\ undo'[Len(undo')] = Entry
      /\ undo'[1].height - 1 <= Max({StartHeight - 1, highest - UndoDepth})
  <2>1. CASE n = UndoDepth + 1
    <3>1. undo' = SubSeq(undo, 2, n)
      BY <1>1, <1>2, <2>1, OldestTrimmed
    <3>2. n > 1
      <4>1. \A m, d \in Nat : m = d + 1 /\ d > 0 => m > 1
        OBVIOUS
      <4>2. QED
        BY <1>3, <2>1, <4>1
    <3>3. /\ undo' \in Seq(Undo) /\ Len(undo') = n - 1 /\ Linked(undo')
          /\ undo' # << >> /\ undo'[n - 1] = undo[n]
          /\ undo'[1].height = undo[n].height - n + 2
      BY <1>2, <3>1, <3>2, LinkedTail
    <3>4. undo'[1].height - 1 = Entry.height - UndoDepth /\ n - 1 = UndoDepth
      <4>1. \A h \in Int, m, d \in Nat : m = d + 1 => (h - m + 2) - 1 = h - d /\ m - 1 = d
        OBVIOUS
      <4>2. QED
        BY SMTT(20), <1>2, <1>3, <1>4, <2>1, <3>3, <4>1
    <3>5. Entry.height - UndoDepth <= Max({StartHeight - 1, highest - UndoDepth})
      <4>1. Max({StartHeight - 1, highest - UndoDepth})
              = IF StartHeight - 1 >= highest - UndoDepth THEN StartHeight - 1
                                                         ELSE highest - UndoDepth
        BY <1>2, FloorIs
      <4>2. \A e, h, s, d \in Int :
              e <= h => e - d <= (IF s - 1 >= h - d THEN s - 1 ELSE h - d)
        OBVIOUS
      <4>3. QED
        BY <1>2, <1>3, <1>4, <4>1, <4>2
    <3>6. QED
      BY <1>2, <3>3, <3>4, <3>5
  <2>2. CASE n # UndoDepth + 1
    <3>1. undo' = undo
      BY <1>1, <1>2, <2>2, OldestTrimmed
    <3>2. n <= UndoDepth
      BY <1>2, <1>3, <2>2
    <3>3. QED
      BY <1>2, <1>4, <3>1, <3>2
  <2>3. QED
    BY <2>1, <2>2
<1>6. /\ Height' = Height /\ Indexed' = Indexed /\ Entry' = Entry
      /\ DurableIndexed = Indexed /\ DurableIndexed' = Indexed
  BY <1>1 DEF Height, Indexed, Entry, DurableIndexed, RollingBack
<1>7. \A b : BuildsOnCursor(b)' <=> BuildsOnCursor(b)
  BY <1>1, <1>6 DEF BuildsOnCursor
<1>8. DurableTypeOK'
  BY <1>1, <1>5 DEF DurableIInv, DurableTypeOK, Committing, RollingBack
<1>9. Linked(Rows)'
  BY <1>2, <1>5 DEF Linked, Stacked, RowOfBlock
<1>10. BuildsOnCursor(block) /\ block = Entry.hash
  <2>1. block # None
    BY <1>1 DEF DurableIInv, DurableBlockPlaced, Committing
  <2>2. QED
    BY <2>1 DEF DurableIInv, DurableBlockPlaced, Entry
<1>11. TopPlaced'
  BY <1>1, <1>2, <1>5, <1>6, <1>7, <1>10 DEF TopPlaced, Committing
<1>12. DurableCursorPlaced'
  BY <1>1 DEF DurableIInv, DurableCursorPlaced, CursorPlaced
<1>13. DurableBlockPlaced'
  BY <1>1, <1>6, <1>7 DEF DurableIInv, DurableBlockPlaced, Committing, RollingBack
<1>14. WindowKept'
  <2>1. Reach' = undo'[1].height - 1
    BY <1>2, <1>5 DEF Reach
  <2>2. Len(undo') \in Nat
    BY <1>5
  <2>3. QED
    BY <1>1, <1>2, <1>3, <1>5, <2>1, <2>2 DEF WindowKept
<1>15. DurableIndexMatchesChain'
  BY <1>1, <1>6 DEF DurableIInv, DurableIndexMatchesChain
<1>16. QED
  BY <1>8, <1>9, <1>11, <1>12, <1>13, <1>14, <1>15 DEF DurableIInv

LEMMA SetCursorStep ==
  ASSUME DurableIInv, SetCursor
  PROVE  DurableIInv' /\ cursor' # None /\ Indexed' = block
<1>1. /\ pc = "meta" /\ pc' = "fetch" /\ cursor' = [height |-> HeightOf[block], hash |-> block]
      /\ next' = next + 1 /\ block' = None /\ pos' = 0 /\ idx' = 0 /\ before' = << >>
      /\ UNCHANGED <<records, undo, tip, fetched, stopping, failure, best, reorgs, highest,
                     last, restarts>>
  BY DEF SetCursor, source
<1>2. /\ block \in Block /\ block # None /\ failure = "none" /\ next = Height + 1
      /\ pos = TxCount[block] + 1 /\ BuildsOnCursor(block) /\ fetched = None
      /\ records = Replay[block][pos] /\ next \in Int /\ records \in Records
      /\ undo # << >> /\ undo[Len(undo)] = Entry
  BY <1>1, BlockAssumption
     DEF DurableIInv, DurableTypeOK, DurableBlockPlaced, TopPlaced, Committing
<1>3. /\ HeightOf[block] \in Int /\ HeightOf[block] = Height + 1
      /\ HeightOf[block] >= StartHeight
      /\ Entry.height = HeightOf[block] /\ Entry.hash = block
      /\ records = IndexAt(block)
  BY <1>2, BlockAssumption DEF BuildsOnCursor, Entry, IndexAt
<1>4. cursor' # None /\ Height' = HeightOf[block] /\ Indexed' = block
      /\ cursor'.height = HeightOf[block] /\ cursor'.hash = block
  <2>1. cursor' # None
    BY <1>1, <1>2, NoneAssumption
  <2>2. QED
    BY <1>1, <2>1 DEF Height, Indexed
<1>5. Rows = undo /\ Rows' = undo /\ Reach' = Reach
  BY <1>1, <1>2 DEF Rows, Reach
<1>6. DurableTypeOK'
  <2>1. cursor' \in [height : Int, hash : Block \cup {ParentOf[b] : b \in Block}]
    BY <1>1, <1>2, <1>3
  <2>2. next' \in Int /\ before' \in Seq(Write)
    BY <1>1, <1>2
  <2>3. QED
    BY <1>1, <2>1, <2>2 DEF DurableIInv, DurableTypeOK, Running, RollingBack
<1>7. Linked(Rows)'
  BY <1>5 DEF DurableIInv, Linked, Stacked, RowOfBlock
<1>8. TopPlaced'
  BY <1>1, <1>2, <1>3, <1>5 DEF DurableIInv, TopPlaced, Committing
<1>9. DurableCursorPlaced'
  BY <1>2, <1>4 DEF DurableCursorPlaced, CursorPlaced
<1>10. DurableBlockPlaced'
  BY <1>1, <1>2, <1>3, <1>4 DEF DurableBlockPlaced, Committing, RollingBack
<1>11. WindowKept'
  <2>1. Len(undo) <= UndoDepth /\ Len(undo) \in Nat /\ UndoDepth \in Nat
    BY <1>1, SizeAssumption DEF DurableIInv, DurableTypeOK, WindowKept
  <2>2. Reach <= Max({StartHeight - 1, highest - UndoDepth})
    BY DEF DurableIInv, WindowKept
  <2>3. QED
    BY <1>1, <1>5, <2>1, <2>2 DEF WindowKept
<1>12. DurableIndexMatchesChain'
  <2>1. DurableIndexed' = block
    BY <1>1, <1>4 DEF DurableIndexed, RollingBack
  <2>2. QED
    BY <1>1, <1>2, <1>3, <2>1, RevertNothing DEF DurableIndexMatchesChain
<1>13. QED
  BY <1>4, <1>6, <1>7, <1>8, <1>9, <1>10, <1>11, <1>12 DEF DurableIInv

\* Where a rollback finds the newest row: at the cursor, or above it and empty.
LEMMA RevertLastStep ==
  ASSUME DurableIInv, NEW b \in Block, RevertLast(b)
  PROVE  /\ DurableIInv'
         /\ DurableIndexed = Indexed /\ DurableIndexed' = last'.previousHash
         /\ \/ Indexed \in Block /\ last'.previousHash = ParentOf[Indexed]
            \/ /\ cursor # None /\ last'.hash \in Block /\ BuildsOnCursor(last'.hash)
               /\ last'.previousHash = ParentOf[last'.hash]
<1> DEFINE n == Len(undo)
           top == undo[n]
<1>1. /\ pc = "await" /\ pc' = "drop" /\ undo # << >> /\ last' = top /\ cursor # None
      /\ fetched' = None
      /\ records' = Revert(records, top.before)
      /\ UNCHANGED <<undo, cursor, tip, next, block, pos, idx, before, stopping,
                     failure, best, reorgs, highest, restarts>>
  BY DEF RevertLast, Fetched, Fits, ingest, source
<1>2. /\ undo \in Seq(Undo) /\ records \in Records /\ Linked(undo)
      /\ block = None /\ pos = 0 /\ before = << >> /\ failure = "none"
      /\ top.height <= highest
      /\ \/ cursor = [height |-> top.height, hash |-> top.hash]
         \/ BuildsOnCursor(top.hash) /\ top.before = << >>
  BY <1>1 DEF DurableIInv, DurableTypeOK, DurableBlockPlaced, TopPlaced, Committing,
              Rows
<1>3. n \in 1 .. n /\ n \in DOMAIN undo
  BY <1>1, <1>2
<1>4. top \in Undo /\ top.hash \in Block /\ RowOfBlock(top)
  BY <1>2, <1>3, RowTypes DEF Linked
<1>5. /\ Height' = Height /\ Indexed' = Indexed /\ Rows = undo /\ Rows' = undo
      /\ DurableIndexed = Indexed /\ DurableIndexed' = top.previousHash
      /\ Reach' = Reach
  BY <1>1 DEF Height, Indexed, Rows, DurableIndexed, RollingBack, Reach
<1>6. records = IndexAt(Indexed)
  BY <1>2, <1>5, RevertNothing DEF DurableIInv, DurableIndexMatchesChain
<1>7. records' = IndexAt(top.previousHash)
  <2>1. CASE cursor = [height |-> top.height, hash |-> top.hash]
    <3>1. Indexed = top.hash
      BY <1>1, <2>1 DEF Indexed
    <3>2. QED
      BY <1>1, <1>4, <1>6, <3>1 DEF RowOfBlock
  <2>2. CASE BuildsOnCursor(top.hash) /\ top.before = << >>
    <3>1. IndexAt(ParentOf[top.hash]) = IndexAt(Indexed)
      BY <1>4, <2>2, BuildsOnIndex DEF DurableIInv
    <3>2. records' = records
      BY <1>1, <1>2, <2>2, RevertNothing
    <3>3. QED
      BY <1>4, <1>6, <3>1, <3>2 DEF RowOfBlock
  <2>3. QED
    BY <1>2, <2>1, <2>2
<1>8. \A c : BuildsOnCursor(c)' <=> BuildsOnCursor(c)
  BY <1>1, <1>5 DEF BuildsOnCursor
<1>9. records' \in Records
  BY <1>7, IndexAtInRecords
<1>10. DurableTypeOK'
  BY <1>1, <1>4, <1>9 DEF DurableIInv, DurableTypeOK, RollingBack
<1>11. Linked(Rows)'
  BY <1>2, <1>5 DEF Linked, Stacked, RowOfBlock
<1>12. TopPlaced'
  BY <1>1, <1>2, <1>5, <1>8 DEF TopPlaced, Committing
<1>13. DurableCursorPlaced'
  BY <1>1 DEF DurableIInv, DurableCursorPlaced, CursorPlaced
<1>14. DurableBlockPlaced'
  BY <1>1, <1>2 DEF DurableBlockPlaced, Committing, RollingBack
<1>15. WindowKept'
  BY <1>1, <1>5 DEF DurableIInv, WindowKept
<1>16. DurableIndexMatchesChain'
  BY <1>1, <1>2, <1>5, <1>7, <1>9, RevertNothing DEF DurableIndexMatchesChain
<1>17. \/ Indexed \in Block /\ top.previousHash = ParentOf[Indexed]
       \/ /\ cursor # None /\ top.hash \in Block /\ BuildsOnCursor(top.hash)
          /\ top.previousHash = ParentOf[top.hash]
  BY <1>1, <1>2, <1>4 DEF RowOfBlock, Indexed
<1>18. QED
  BY <1>1, <1>5, <1>10, <1>11, <1>12, <1>13, <1>14, <1>15, <1>16, <1>17
     DEF DurableIInv

\* The newest row, taken away and put back, and put back and taken away.
LEMMA FrontAndTop ==
  ASSUME NEW S, NEW s \in Seq(S), NEW x \in S
  PROVE  /\ s # << >> => Append(SubSeq(s, 1, Len(s) - 1), s[Len(s)]) = s
         /\ SubSeq(Append(s, x), 1, Len(Append(s, x)) - 1) = s
         /\ Append(s, x) # << >> /\ Append(s, x)[Len(Append(s, x))] = x
<1>1. Len(s) \in Nat
  OBVIOUS
<1>2. ASSUME s # << >>
      PROVE  Append(SubSeq(s, 1, Len(s) - 1), s[Len(s)]) = s
  <2>1. Len(s) >= 1 /\ Len(s) \in 1 .. Len(s)
    BY <1>1, <1>2
  <2> DEFINE t == SubSeq(s, 1, Len(s) - 1)
  <2>2. t \in Seq(S) /\ Len(t) = Len(s) - 1 /\ \A i \in 1 .. Len(s) - 1 : t[i] = s[i]
    BY <2>1
  <2>3. s[Len(s)] \in S
    BY <2>1
  <2> HIDE DEF t
  <2>4. /\ Append(t, s[Len(s)]) \in Seq(S) /\ Len(Append(t, s[Len(s)])) = Len(s)
        /\ \A i \in 1 .. Len(s) : Append(t, s[Len(s)])[i] = s[i]
    BY <2>1, <2>2, <2>3
  <2>5. QED
    BY <2>4, SeqEqual DEF t
<1>3. /\ Append(s, x) \in Seq(S) /\ Len(Append(s, x)) = Len(s) + 1
      /\ Append(s, x)[Len(s) + 1] = x
      /\ \A i \in 1 .. Len(s) : Append(s, x)[i] = s[i]
  OBVIOUS
<1>4. SubSeq(Append(s, x), 1, Len(Append(s, x)) - 1) = s
  <2> DEFINE t == Append(s, x)
  <2>1. Len(t) - 1 = Len(s)
    BY <1>1, <1>3
  <2> HIDE DEF t
  <2>2. /\ SubSeq(t, 1, Len(s)) \in Seq(S) /\ Len(SubSeq(t, 1, Len(s))) = Len(s)
        /\ \A i \in 1 .. Len(s) : SubSeq(t, 1, Len(s))[i] = s[i]
    BY <1>1, <1>3 DEF t
  <2>3. SubSeq(t, 1, Len(s)) = s
    BY <2>2, SeqEqual
  <2>4. QED
    BY <2>1, <2>3 DEF t
<1>5. Append(s, x) # << >>
  BY <1>1, <1>3
<1>6. QED
  BY <1>2, <1>3, <1>4, <1>5

LEMMA DropRowStep ==
  ASSUME DurableIInv, DropRow
  PROVE  DurableIInv'
<1>1. /\ pc = "drop" /\ pc' = "move" /\ undo' = WithoutRow(undo, last.height)
      /\ UNCHANGED <<records, cursor, tip, next, fetched, block, pos, idx, before, stopping,
                     failure, best, reorgs, highest, last, restarts>>
  BY DEF DropRow, ingest, source
<1>2. /\ undo \in Seq(Undo) /\ undo # << >> /\ undo[Len(undo)] = last
      /\ Rows = undo /\ Linked(undo) /\ Stacked(undo)
  BY <1>1 DEF DurableIInv, DurableTypeOK, TopPlaced, Rows, Linked
<1>3. undo' = SubSeq(undo, 1, Len(undo) - 1)
  BY <1>1, <1>2, TopDeleted
<1>4. undo' \in Seq(Undo)
  BY <1>2, <1>3, LinkedFront
<1>5. Rows' = Rows
  <2>1. last \in Undo
    BY <1>1 DEF DurableIInv, DurableTypeOK, RollingBack
  <2>2. Append(SubSeq(undo, 1, Len(undo) - 1), undo[Len(undo)]) = undo
    BY <1>2, <2>1, FrontAndTop
  <2>3. QED
    BY <1>1, <1>2, <1>3, <2>2 DEF Rows
<1>6. /\ Height' = Height /\ Indexed' = Indexed /\ DurableIndexed' = DurableIndexed
      /\ Reach' = Reach
  BY <1>1, <1>5 DEF Height, Indexed, DurableIndexed, RollingBack, Reach
<1>7. \A c : BuildsOnCursor(c)' <=> BuildsOnCursor(c)
  BY <1>1, <1>6 DEF BuildsOnCursor
<1>8. DurableTypeOK'
  BY <1>1, <1>4 DEF DurableIInv, DurableTypeOK, RollingBack
<1>9. Linked(Rows)'
  BY <1>2, <1>5 DEF Linked, Stacked, RowOfBlock
<1>10. TopPlaced'
  BY <1>1, <1>5, <1>7 DEF DurableIInv, TopPlaced, Committing
<1>11. DurableCursorPlaced'
  BY <1>1 DEF DurableIInv, DurableCursorPlaced, CursorPlaced
<1>12. block = None /\ pos = 0 /\ fetched = None /\ before = << >> /\ failure = "none"
       /\ cursor # None
  BY <1>1 DEF DurableIInv, DurableBlockPlaced, Committing, RollingBack
<1>13. DurableBlockPlaced'
  BY <1>1, <1>12 DEF DurableBlockPlaced, Committing, RollingBack
<1>14. WindowKept'
  BY <1>1, <1>5, <1>6 DEF DurableIInv, WindowKept
<1>15. DurableIndexMatchesChain'
  BY <1>1, <1>6 DEF DurableIInv, DurableIndexMatchesChain
<1>16. QED
  BY <1>8, <1>9, <1>10, <1>11, <1>13, <1>14, <1>15 DEF DurableIInv

\* The cursor goes to the parent of the row that was taken back, whether that
\* parent has a row or not.
LEMMA MoveCursorStep ==
  ASSUME DurableIInv, MoveCursor
  PROVE  /\ DurableIInv'
         /\ DurableIndexed' = DurableIndexed
<1> DEFINE n == Len(undo)
<1>1. /\ pc = "move" /\ pc' = "fetch" /\ last' = None
      /\ cursor' = IF undo # << >>
                   THEN [height |-> undo[n].height, hash |-> undo[n].hash]
                   ELSE [height |-> last.height - 1, hash |-> last.previousHash]
      /\ next' = cursor'.height + 1
      /\ UNCHANGED <<records, undo, tip, fetched, block, pos, idx, before, stopping,
                     failure, best, reorgs, highest, restarts>>
  BY DEF MoveCursor, ingest, source
<1>2. /\ undo \in Seq(Undo) /\ last \in Undo /\ Rows = Append(undo, last)
      /\ Rows' = undo /\ Linked(Rows) /\ n \in Nat
      /\ fetched = None
      /\ block = None /\ pos = 0 /\ before = << >> /\ failure = "none"
  BY <1>1 DEF DurableIInv, DurableTypeOK, DurableBlockPlaced, Committing, RollingBack,
              Rows
<1>3. /\ Rows \in Seq(Undo) /\ Rows # << >> /\ Len(Rows) = n + 1
      /\ Rows[Len(Rows)] = last /\ SubSeq(Rows, 1, Len(Rows) - 1) = undo
  BY <1>2, FrontAndTop
<1>4. /\ Linked(undo)
      /\ undo # << >> =>
           /\ undo[1] = Rows[1]
           /\ undo[n].hash = last.previousHash
           /\ undo[n].height = last.height - 1
  <2>1. Len(Rows) - 1 = n
    BY <1>2, <1>3
  <2> DEFINE front == SubSeq(Rows, 1, Len(Rows) - 1)
  <2>2. /\ Linked(front)
        /\ front # << >> =>
             /\ front[1] = Rows[1]
             /\ front[Len(Rows) - 1].hash = Rows[Len(Rows)].previousHash
             /\ front[Len(Rows) - 1].height = Rows[Len(Rows)].height - 1
    BY <1>2, <1>3, LinkedFront
  <2>3. front = undo
    BY <1>3
  <2> HIDE DEF front
  <2>4. QED
    BY <1>3, <2>1, <2>2, <2>3
<1>5. /\ last.hash \in Block /\ last.height \in Int /\ last.height = HeightOf[last.hash]
      /\ last.previousHash = ParentOf[last.hash]
      /\ last.height <= highest /\ highest \in Int
  <2>1. Len(Rows) \in DOMAIN Rows
    BY <1>2, <1>3
  <2>2. RowOfBlock(last)
    BY <1>2, <1>3, <2>1 DEF Linked
  <2>3. last.height <= highest
    BY <1>3 DEF DurableIInv, TopPlaced
  <2>4. QED
    BY <1>2, <2>2, <2>3 DEF Undo, RowOfBlock, DurableIInv, DurableTypeOK
<1>6. cursor' = [height |-> last.height - 1, hash |-> last.previousHash]
  BY <1>1, <1>4
<1>7. cursor' # None /\ Height' = last.height - 1 /\ Indexed' = last.previousHash
      /\ cursor'.height = last.height - 1 /\ cursor'.hash = last.previousHash
  <2>1. cursor' # None
    BY <1>5, <1>6, NoneAssumption
  <2>2. QED
    BY <1>6, <2>1 DEF Height, Indexed
<1>8. DurableIndexed = last.previousHash /\ DurableIndexed' = last.previousHash
  BY <1>1, <1>7 DEF DurableIndexed, RollingBack
<1>9. DurableTypeOK'
  <2>1. cursor' \in [height : Int, hash : Block \cup {ParentOf[b] : b \in Block}]
    BY <1>5, <1>6
  <2>2. next' \in Int
    BY <1>1, <1>5, <1>7
  <2>3. QED
    BY <1>1, <2>1, <2>2 DEF DurableIInv, DurableTypeOK, Running, RollingBack
<1>10. Linked(Rows)'
  BY <1>2, <1>4 DEF Linked, Stacked, RowOfBlock
<1>11. TopPlaced'
  <2>1. undo # << >> => undo[n].height <= highest
    BY <1>4, <1>5
  <2>2. QED
    BY <1>1, <1>2, <2>1 DEF TopPlaced, Committing
<1>12. DurableCursorPlaced'
  <2>1. /\ StartHeight \in Int /\ HeightOf[last.hash] >= StartHeight
        /\ IF HeightOf[last.hash] = StartHeight
           THEN ParentOf[last.hash] \notin Block
           ELSE /\ ParentOf[last.hash] \in Block
                /\ HeightOf[ParentOf[last.hash]] = HeightOf[last.hash] - 1
    BY <1>5, BlockAssumption
  <2>2. QED
    BY <1>5, <1>7, <2>1 DEF DurableCursorPlaced, CursorPlaced
<1>13. DurableBlockPlaced'
  BY <1>1, <1>2, <1>7 DEF DurableBlockPlaced, Committing, RollingBack
<1>14. WindowKept'
  <2>1. Reach' = Reach
    <3>1. CASE undo = << >>
      <4>1. Rows[1] = last
        BY <1>2, <1>3, <3>1
      <4>2. QED
        BY <1>2, <1>3, <1>7, <3>1, <4>1 DEF Reach
    <3>2. CASE undo # << >>
      BY <1>2, <1>3, <1>4, <3>2 DEF Reach
    <3>3. QED
      BY <3>1, <3>2
  <2>2. n <= UndoDepth /\ UndoDepth \in Nat
    BY <1>2, <1>3, SizeAssumption DEF DurableIInv, WindowKept
  <2>3. Reach <= Max({StartHeight - 1, highest - UndoDepth})
    BY DEF DurableIInv, WindowKept
  <2>4. QED
    BY <1>1, <1>2, <2>1, <2>2, <2>3 DEF WindowKept
<1>15. DurableIndexMatchesChain'
  BY <1>1, <1>8 DEF DurableIInv, DurableIndexMatchesChain
<1>16. QED
  BY <1>8, <1>9, <1>10, <1>11, <1>12, <1>13, <1>14, <1>15 DEF DurableIInv

\* A process that ends undisturbed leaves at most a row above the cursor, and
\* that one takes nothing back.
LEMMA RestartStep ==
  ASSUME EndsUndisturbed, DurableIInv, Restart
  PROVE  /\ DurableIInv'
         /\ DurableIndexed' = DurableIndexed
<1>1. /\ before = << >> /\ pc \notin RollingBack /\ pc' = "poll"
      /\ restarts < MaxRestarts /\ restarts' = restarts + 1
      /\ tip' = StartHeight - 1 /\ next' = StartHeight
      /\ fetched' = None /\ block' = None /\ pos' = 0 /\ idx' = 0 /\ before' = << >>
      /\ stopping' = FALSE /\ failure' = "none" /\ last' = None
      /\ UNCHANGED <<records, undo, cursor, best, reorgs, highest>>
  BY DEF EndsUndisturbed, Restart, Undisturbed, store, source
<1>2. /\ Rows = undo /\ Rows' = undo /\ Height' = Height /\ Indexed' = Indexed
      /\ Reach' = Reach /\ DurableIndexed = Indexed /\ DurableIndexed' = Indexed
  BY <1>1 DEF Rows, Height, Indexed, Reach, DurableIndexed, RollingBack
<1>3. DurableTypeOK'
  <2>1. restarts' \in 0 .. MaxRestarts
    BY <1>1, RestartAssumption DEF DurableIInv, DurableTypeOK
  <2>2. tip' \in Int /\ next' \in Int /\ before' \in Seq(Write)
    BY <1>1, BlockAssumption
  <2>3. QED
    BY <1>1, <2>1, <2>2 DEF DurableIInv, DurableTypeOK, Running, RollingBack
<1>4. Linked(Rows)'
  BY <1>2 DEF DurableIInv, Linked, Stacked, RowOfBlock
<1>5. \A c : BuildsOnCursor(c)' <=> BuildsOnCursor(c)
  BY <1>1, <1>2 DEF BuildsOnCursor
<1>6. TopPlaced'
  <2>1. pc \in Committing => undo # << >> /\ undo[Len(undo)].before = << >>
    BY <1>1 DEF DurableIInv, TopPlaced, Entry
  <2>2. QED
    BY <1>1, <1>2, <1>5, <2>1 DEF DurableIInv, TopPlaced, Committing
<1>7. DurableCursorPlaced'
  BY <1>1 DEF DurableIInv, DurableCursorPlaced, CursorPlaced
<1>8. DurableBlockPlaced'
  BY <1>1 DEF DurableBlockPlaced, Committing, RollingBack
<1>9. WindowKept'
  BY <1>1, <1>2 DEF DurableIInv, WindowKept
<1>10. DurableIndexMatchesChain'
  BY <1>1, <1>2 DEF DurableIInv, DurableIndexMatchesChain
<1>11. QED
  BY <1>2, <1>3, <1>4, <1>6, <1>7, <1>8, <1>9, <1>10 DEF DurableIInv

-----------------------------------------------------------------------------
(* The theorems. *)

\* Every step from a state of DurableIInv is one of these.
LEMMA DurableStepCases ==
  ASSUME Lossless, [DurableNext]_durableVars
  PROVE  \/ /\ UNCHANGED <<last, restarts>>
            /\ \/ \E b \in Block : BeginBlock(b) \/ RefuseReorg(b)
               \/ ApplyTransaction \/ SourceAnswers
         \/ PushRow \/ TrimRows \/ SetCursor
         \/ \E b \in Block : RevertLast(b)
         \/ DropRow \/ MoveCursor \/ Restart
         \/ /\ UNCHANGED <<store, ingest, highest, last, restarts>>
            /\ \/ Poll \/ Wake \/ Finish \/ LeaveInner \/ AskForBlock \/ RequestFails
               \/ Stop \/ SourceMoves \/ UNCHANGED vars
<1>1. ~LeaveOutTransaction
  BY DEF Lossless, LeaveOutTransaction
<1>2. ASSUME \/ Poll \/ Wake \/ Finish \/ LeaveInner \/ AskForBlock
             \/ RequestFails \/ Stop \/ SourceMoves
      PROVE  UNCHANGED <<store, ingest, highest>>
  BY <1>2 DEF Poll, Wake, Finish, LeaveInner, AskForBlock, RequestFails, Stop,
                 SourceMoves
<1>3. ASSUME UNCHANGED durableVars
      PROVE  UNCHANGED vars /\ UNCHANGED <<store, ingest, highest, last, restarts>>
  BY <1>3 DEF durableVars, vars
<1>4. CASE DurableIngest
  BY <1>2, <1>4 DEF DurableIngest, Shared
<1>5. CASE Surroundings /\ UNCHANGED <<last, restarts>>
  BY <1>1, <1>2, <1>5 DEF Surroundings
<1>6. QED
  BY <1>3, <1>4, <1>5 DEF DurableNext

LEMMA DurableNextIInv ==
  ASSUME Lossless, EndsUndisturbed, DurableIInv, [DurableNext]_durableVars
  PROVE  DurableIInv'
<1>1. ASSUME UNCHANGED <<last, restarts>>,
             NEW b \in Block, BeginBlock(b) \/ RefuseReorg(b)
      PROVE  DurableIInv'
  BY <1>1, DurableBeginBlockStep, DurableRefuseReorgStep
<1>2. ASSUME UNCHANGED <<last, restarts>>, ApplyTransaction \/ SourceAnswers
      PROVE  DurableIInv'
  BY <1>2, DurableApplyTransactionStep, DurableSourceAnswersStep
<1>3. ASSUME PushRow \/ TrimRows \/ SetCursor
      PROVE  DurableIInv'
  BY <1>3, PushRowStep, TrimRowsStep, SetCursorStep
<1>4. ASSUME NEW b \in Block, RevertLast(b)
      PROVE  DurableIInv'
  BY <1>4, RevertLastStep
<1>5. ASSUME DropRow \/ MoveCursor \/ Restart
      PROVE  DurableIInv'
  BY <1>5, DropRowStep, MoveCursorStep, RestartStep
<1>6. ASSUME UNCHANGED <<store, ingest, highest, last, restarts>>,
             \/ Poll \/ Wake \/ Finish \/ LeaveInner \/ AskForBlock \/ RequestFails
             \/ Stop \/ SourceMoves \/ UNCHANGED vars
      PROVE  DurableIInv'
  BY <1>6, DurableControlStep
<1>7. QED
  BY <1>1, <1>2, <1>3, <1>4, <1>5, <1>6, DurableStepCases

\* The inductive invariant holds of every state the processes reach between
\* them, if none ends with part of a block written.
THEOREM DurableInductive ==
  ASSUME Lossless, EndsUndisturbed
  PROVE  DurableSpec => []DurableIInv
<1>1. DurableInit => DurableIInv
  BY DurableInitIInv
<1>2. DurableIInv /\ [DurableNext]_durableVars => DurableIInv'
  BY DurableNextIInv
<1>3. QED
  BY <1>1, <1>2, PTL DEF DurableSpec

\* After any history of reorgs, failures and restarts the database holds what a
\* fresh index of the chain at its cursor would hold (sqliteStore.js:11-13).
THEOREM DurableIndexCorrect ==
  ASSUME Lossless, EndsUndisturbed
  PROVE  DurableSpec => []DurableIndexMatchesChain
<1>1. DurableIInv => DurableIndexMatchesChain
  BY DEF DurableIInv
<1>2. QED
  BY <1>1, DurableInductive, PTL

\* The reorg window survives a restart: the rows always reach UndoDepth blocks
\* below the highest block ever pushed, by whichever process
\* (sqliteStore.js:11-13, 152-160).
THEOREM DurableWindowCorrect ==
  ASSUME Lossless, EndsUndisturbed
  PROVE  DurableSpec => []WindowSurvivesRestart
<1>1. DurableIInv => WindowSurvivesRestart
  <2> SUFFICES ASSUME DurableIInv PROVE WindowSurvivesRestart
    OBVIOUS
  <2> DEFINE floor == Max({StartHeight - 1, highest - UndoDepth})
  <2>1. Reach <= floor /\ Len(Rows) <= UndoDepth + 1 /\ undo \in Seq(Undo)
    BY DEF DurableIInv, WindowKept, DurableTypeOK
  <2>2. ASSUME cursor # None, pc # "move"
        PROVE  (IF undo = << >> THEN cursor.height ELSE undo[1].height - 1) <= floor
    BY <2>1, <2>2 DEF Rows, Reach, Height
  <2>3. ASSUME failure = "reorg_beyond_undo_window"
        PROVE  cursor.height <= floor
    <3>1. undo = << >> /\ cursor # None /\ pc # "move"
      BY <2>3 DEF DurableIInv, DurableBlockPlaced
    <3>2. QED
      BY <2>2, <3>1
  <2>4. Len(undo) <= UndoDepth + 1
    <3>1. CASE pc = "move"
      <4>1. last \in Undo
        BY <3>1 DEF DurableIInv, DurableTypeOK, RollingBack
      <4>2. Len(Append(undo, last)) = Len(undo) + 1 /\ Len(undo) \in Nat
        BY <2>1, <4>1
      <4>3. QED
        BY <2>1, <3>1, <4>2, SizeAssumption DEF Rows
    <3>2. CASE pc # "move"
      BY <2>1, <3>2 DEF Rows
    <3>3. QED
      BY <3>1, <3>2
  <2>5. DurableTypeOK
    BY DEF DurableIInv
  <2>6. QED
    BY <2>2, <2>3, <2>4, <2>5 DEF WindowSurvivesRestart
<1>2. QED
  BY <1>1, DurableInductive, PTL

\* What the tables hold, as far as TableIndex speaks of it.
TablesHold ==
  /\ block = None => records = IndexAt(DurableIndexed)
  /\ before = << >> => records = IndexAt(DurableIndexed)
  /\ block # None => records = Replay[block][pos] /\ pc \notin RollingBack

LEMMA TablesAre == DurableIInv => TablesHold
<1> SUFFICES ASSUME DurableIInv PROVE TablesHold
  OBVIOUS
<1>1. before = << >> => records = IndexAt(DurableIndexed)
  BY RevertNothing DEF DurableIInv, DurableTypeOK, DurableIndexMatchesChain
<1>2. block = None => before = << >>
  BY DEF DurableIInv, DurableBlockPlaced
<1>3. block # None => records = Replay[block][pos] /\ pc \notin RollingBack
  BY DEF DurableIInv, DurableBlockPlaced, Committing, RollingBack
<1>4. QED
  BY <1>1, <1>2, <1>3 DEF TablesHold

\* The row being taken back is the cursor's own, or one left above the cursor
\* by a process that wrote nothing of its block.
RowLeaves ==
  pc \in RollingBack =>
    /\ Indexed = cursor.hash
    /\ last.hash = cursor.hash =>
         Indexed \in Block /\ last.previousHash = ParentOf[Indexed]
    /\ last.hash # cursor.hash => last.previousHash = Indexed

LEMMA LeavingRow ==
  ASSUME FirstBlocksAlike
  PROVE  DurableIInv => RowLeaves
<1> SUFFICES ASSUME DurableIInv, pc \in RollingBack PROVE RowLeaves
  BY DEF RowLeaves
<1>1. cursor # None /\ last \in Undo /\ undo \in Seq(Undo)
  BY DEF DurableIInv, DurableTypeOK, DurableBlockPlaced
<1>2. Rows \in Seq(Undo) /\ Rows # << >> /\ Rows[Len(Rows)] = last
  <2>1. CASE pc = "drop"
    BY <1>1, <2>1 DEF Rows, DurableIInv, TopPlaced
  <2>2. CASE pc = "move"
    BY <1>1, <2>2, FrontAndTop DEF Rows
  <2>3. QED
    BY <2>1, <2>2 DEF RollingBack
<1>3. last.hash \in Block /\ RowOfBlock(last)
  <2>1. Len(Rows) \in DOMAIN Rows
    BY <1>2
  <2>2. QED
    BY <1>1, <1>2, <2>1 DEF DurableIInv, Linked, Undo
<1>4. \/ cursor = [height |-> last.height, hash |-> last.hash]
      \/ BuildsOnCursor(last.hash)
  BY <1>2 DEF DurableIInv, TopPlaced
<1>5. Indexed = cursor.hash /\ last.previousHash = ParentOf[last.hash]
  BY <1>1, <1>3 DEF Indexed, RowOfBlock
<1>6. ASSUME last.hash # cursor.hash
      PROVE  last.previousHash = Indexed
  <2>1. BuildsOnCursor(last.hash)
    BY <1>4, <1>6
  <2>2. ParentOf[last.hash] = cursor.hash
    BY <1>1, <1>3, <2>1, BuildsOnHash DEF DurableIInv
  <2>3. QED
    BY <1>5, <2>2
<1>7. QED
  BY <1>3, <1>5, <1>6 DEF RowLeaves

\* To a process that reads the tables they are TableIndex: statement by
\* statement, the writer only ever begins a block, shows its next transaction,
\* completes it, gives up one of which nothing showed, or takes a block back.
THEOREM DurableRefinement ==
  ASSUME Lossless, EndsUndisturbed, FirstBlocksAlike
  PROVE  DurableSpec => DurableImplementsTableIndex
<1>1. DurableInit => TablePromise!Init
  <2> SUFFICES ASSUME DurableInit PROVE TablePromise!Init
    OBVIOUS
  <2>1. TablesHold
    BY DurableInitIInv, TablesAre
  <2>2. Indexed = None /\ DurableIndexed = None /\ Leaving = FALSE
    BY DEF DurableInit, Init, DurableIndexed, RollingBack, Indexed, Leaving
  <2>3. block = None /\ pos = 0
    BY DEF DurableInit, Init
  <2>4. QED
    BY <2>1, <2>2, <2>3 DEF TablesHold, TablePromise!Init
<1>2. DurableIInv => RowLeaves
  BY LeavingRow
<1>3. DurableIInv /\ [DurableNext]_durableVars
        => [TablePromise!Next]_(TablePromise!vars)
  <2> SUFFICES ASSUME DurableIInv, [DurableNext]_durableVars
               PROVE  [TablePromise!Next]_(TablePromise!vars)
    OBVIOUS
  <2>1. TablesHold /\ DurableIInv' /\ TablesHold'
    <3>1. DurableIInv'
      BY DurableNextIInv
    <3>2. TablesHold'
      BY <3>1, TablesAre, PTL
    <3>3. QED
      BY <3>1, <3>2, TablesAre
  <2>2. ASSUME pc \notin RollingBack
        PROVE  Leaving = FALSE /\ DurableIndexed = Indexed
    BY <2>2 DEF Leaving, DurableIndexed
  <2>3. ASSUME pc' \notin RollingBack
        PROVE  Leaving' = FALSE
    BY <2>3 DEF Leaving
  <2>4. ASSUME UNCHANGED <<cursor, last, records, block, pos>>,
               \/ pc' = pc
               \/ pc \notin RollingBack /\ pc' \notin RollingBack
        PROVE  UNCHANGED TablePromise!vars
    <3>1. Indexed' = Indexed /\ Leaving' = Leaving
      BY <2>2, <2>3, <2>4 DEF Indexed, Leaving
    <3>2. QED
      BY <2>4, <3>1 DEF TablePromise!vars
  <2>5. ASSUME NEW b \in Block, BeginBlock(b)
        PROVE  TablePromise!Begin(b)
    <3>1. /\ pc \notin RollingBack /\ pc' \notin RollingBack
          /\ UNCHANGED <<cursor, records>> /\ block' = b /\ pos' = 1
          /\ pc = "await"
      BY <2>5 DEF BeginBlock, Fetched, store, RollingBack
    <3>2. block = None
      BY <3>1 DEF DurableIInv, DurableBlockPlaced, Committing
    <3>3. BuildsOnCursor(b)
      BY <2>5, DurableFitting DEF BeginBlock
    <3>4. IF HeightOf[b] = StartHeight THEN Indexed \notin Block
                                       ELSE Indexed = ParentOf[b]
      BY <3>3, BuildsOnIndex DEF DurableIInv
    <3>5. Indexed' = Indexed /\ Leaving = FALSE /\ Leaving' = FALSE
      BY <2>2, <2>3, <3>1 DEF Indexed
    <3>6. QED
      BY <3>1, <3>2, <3>4, <3>5 DEF TablePromise!Begin
  <2>6. ASSUME ApplyTransaction
        PROVE  TablePromise!Transact
    <3>1. /\ pc = "apply" /\ pc' = "apply" /\ UNCHANGED <<cursor, block>>
          /\ pos <= TxCount[block] /\ pos' = pos + 1
      BY <2>6 DEF ApplyTransaction
    <3>2. block # None
      BY <3>1 DEF DurableIInv, DurableBlockPlaced
    <3>3. records = Replay[block][pos] /\ records' = Replay[block][pos + 1]
      BY <2>1, <3>1, <3>2 DEF TablesHold
    <3>4. Indexed' = Indexed /\ Leaving = FALSE /\ Leaving' = FALSE
      BY <2>2, <2>3, <3>1 DEF Indexed, RollingBack
    <3>5. QED
      BY <3>1, <3>2, <3>3, <3>4 DEF TablePromise!Transact
  <2>7. ASSUME PushRow \/ TrimRows
        PROVE  UNCHANGED TablePromise!vars
    BY <2>4, <2>7 DEF PushRow, TrimRows, ingest, RollingBack
  <2>8. ASSUME SetCursor
        PROVE  TablePromise!Complete
    <3>1. /\ Indexed' = block /\ pc = "meta" /\ pc' = "fetch"
          /\ records' = records /\ block' = None /\ pos' = 0
      BY <2>8, SetCursorStep DEF SetCursor
    <3>2. block \in Block /\ block # None /\ pos = TxCount[block] + 1
      BY <3>1, BlockAssumption
         DEF DurableIInv, DurableTypeOK, DurableBlockPlaced, Committing
    <3>3. records = IndexAt(block)
      BY <2>1, <3>2 DEF TablesHold, IndexAt
    <3>4. Leaving = FALSE /\ Leaving' = FALSE
      BY <2>2, <2>3, <3>1 DEF RollingBack
    <3>5. QED
      BY <3>1, <3>2, <3>3, <3>4 DEF TablePromise!Complete
  <2>9. ASSUME NEW b \in Block, RevertLast(b)
        PROVE  [TablePromise!Next]_(TablePromise!vars)
    <3>1. /\ pc = "await" /\ pc' \in RollingBack /\ UNCHANGED <<cursor, block, pos>>
          /\ pc \notin RollingBack
      BY <2>9 DEF RevertLast, Fetched, RollingBack
    <3>2. block = None
      BY <3>1 DEF DurableIInv, DurableBlockPlaced, Committing
    <3>3. Indexed' = Indexed /\ Leaving = FALSE /\ DurableIndexed = Indexed
          /\ DurableIndexed' = last'.previousHash
      BY <2>2, <3>1 DEF Indexed, DurableIndexed
    <3>4. records = IndexAt(Indexed) /\ records' = IndexAt(last'.previousHash)
      BY <2>1, <3>1, <3>2, <3>3 DEF TablesHold
    <3>5. /\ (last.hash = cursor.hash =>
                Indexed \in Block /\ last.previousHash = ParentOf[Indexed])'
          /\ (last.hash # cursor.hash => last.previousHash = Indexed)'
      <4>1. RowLeaves'
        BY <1>2, <2>1, PTL
      <4>2. QED
        BY <3>1, <4>1 DEF RowLeaves
    <3>6. Leaving' = (last'.hash = cursor'.hash)
      BY <3>1 DEF Leaving
    <3>7. CASE last'.hash = cursor'.hash
      <4>1. Indexed \in Block /\ last'.previousHash = ParentOf[Indexed]
        BY <3>3, <3>5, <3>7
      <4>2. TablePromise!TakeBack
        BY <3>1, <3>2, <3>3, <3>4, <3>6, <3>7, <4>1 DEF TablePromise!TakeBack
      <4>3. QED
        BY <4>2 DEF TablePromise!Next
    <3>8. CASE last'.hash # cursor'.hash
      <4>1. records' = records /\ Leaving' = Leaving
        BY <3>3, <3>4, <3>5, <3>6, <3>8 DEF Leaving
      <4>2. QED
        BY <3>1, <3>3, <4>1 DEF TablePromise!vars
    <3>9. QED
      BY <3>7, <3>8
  <2>10. ASSUME DropRow
         PROVE  UNCHANGED TablePromise!vars
    <3>1. Indexed' = Indexed /\ Leaving' = Leaving
      BY <2>10 DEF DropRow, Indexed, Leaving, RollingBack
    <3>2. QED
      BY <2>10, <3>1 DEF DropRow, ingest, TablePromise!vars
  <2>11. ASSUME MoveCursor
         PROVE  [TablePromise!Next]_(TablePromise!vars)
    <3>1. /\ pc \in RollingBack /\ pc' \notin RollingBack
          /\ UNCHANGED <<records, block, pos>>
      BY <2>11 DEF MoveCursor, RollingBack, ingest
    <3>2. /\ Indexed = cursor.hash /\ DurableIndexed = last.previousHash
          /\ last.hash = cursor.hash =>
               Indexed \in Block /\ last.previousHash = ParentOf[Indexed]
          /\ last.hash # cursor.hash => last.previousHash = Indexed
      BY <1>2, <3>1 DEF RowLeaves, DurableIndexed
    <3>3. Indexed' = last.previousHash
      BY <2>11, <3>1, <3>2, MoveCursorStep DEF DurableIndexed
    <3>4. block = None /\ records = IndexAt(last.previousHash)
      BY <2>1, <3>1, <3>2 DEF TablesHold
    <3>5. Leaving' = FALSE /\ Leaving = (last.hash = cursor.hash)
      BY <2>3, <3>1 DEF Leaving
    <3>6. CASE last.hash = cursor.hash
      <4>1. TablePromise!Retract
        BY <3>1, <3>2, <3>3, <3>4, <3>5, <3>6 DEF TablePromise!Retract
      <4>2. QED
        BY <4>1 DEF TablePromise!Next
    <3>7. CASE last.hash # cursor.hash
      BY <3>1, <3>2, <3>3, <3>5, <3>7 DEF TablePromise!vars
    <3>8. QED
      BY <3>6, <3>7
  <2>12. ASSUME Restart
         PROVE  [TablePromise!Next]_(TablePromise!vars)
    <3>1. /\ before = << >> /\ pc \notin RollingBack /\ pc' \notin RollingBack
          /\ UNCHANGED <<records, cursor>> /\ block' = None /\ pos' = 0
      BY <2>12 DEF EndsUndisturbed, Restart, Undisturbed, store, RollingBack
    <3>2. Indexed' = Indexed /\ Leaving = FALSE /\ Leaving' = FALSE /\ DurableIndexed = Indexed
      BY <2>2, <2>3, <3>1 DEF Indexed
    <3>3. CASE block # None
      <4>1. records = IndexAt(Indexed)
        BY <2>1, <3>1, <3>2 DEF TablesHold
      <4>2. TablePromise!Abandon
        BY <3>1, <3>2, <3>3, <4>1 DEF TablePromise!Abandon
      <4>3. QED
        BY <4>2 DEF TablePromise!Next
    <3>4. CASE block = None
      <4>1. pos = 0
        BY <3>4 DEF DurableIInv, DurableBlockPlaced
      <4>2. QED
        BY <3>1, <3>2, <3>4, <4>1 DEF TablePromise!vars
    <3>5. QED
      BY <3>3, <3>4
  <2>13. ASSUME UNCHANGED <<last, restarts>>,
                (\E b \in Block : RefuseReorg(b)) \/ SourceAnswers
         PROVE  UNCHANGED TablePromise!vars
    <3>1. /\ UNCHANGED <<cursor, last, records, block, pos>>
          /\ pc \notin RollingBack /\ pc' \notin RollingBack
      BY <2>13 DEF RefuseReorg, SourceAnswers, Fetched, store, RollingBack
    <3>2. QED
      BY <2>4, <3>1
  <2>14. ASSUME UNCHANGED <<store, ingest, highest, last, restarts>>,
                \/ Poll \/ Wake \/ Finish \/ LeaveInner \/ AskForBlock \/ RequestFails
                \/ Stop \/ SourceMoves \/ UNCHANGED vars
         PROVE  UNCHANGED TablePromise!vars
    <3>1. pc' = pc \/ (pc \notin RollingBack /\ pc' \notin RollingBack)
      BY <2>14 DEF Poll, Wake, Finish, LeaveInner, AskForBlock, RequestFails, Stop,
                   SourceMoves, vars, RollingBack
    <3>2. UNCHANGED <<cursor, last, records, block, pos>>
      BY <2>14 DEF store, ingest
    <3>3. QED
      BY <2>4, <3>1, <3>2
  <2>15. QED
    BY <2>5, <2>6, <2>7, <2>8, <2>9, <2>10, <2>11, <2>12, <2>13, <2>14,
       DurableStepCases DEF TablePromise!Next
<1>4. QED
  BY <1>1, <1>3, DurableInductive, PTL
     DEF DurableSpec, DurableImplementsTableIndex, TablePromise!Spec

=============================================================================
