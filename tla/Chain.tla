------------------------------- MODULE Chain -------------------------------
(* The blocks an index is built from, and what they amount to. A block stands *)
(* for its own hash; all blocks of all chains the source may ever serve are   *)
(* one tree of constants. What a transaction writes is the constant operator  *)
(* Writes: the indexers are about when writes land and are taken back, and    *)
(* TokenRules is about what they are.                                         *)
EXTENDS Store

CONSTANTS
  Block,            \* every block any chain may hold
  HeightOf,         \* [Block -> Int]
  ParentOf,         \* [Block -> hash]: previousHash, NoHash when there is none
  ChainTo,          \* [Block -> chain]: the blocks from StartHeight up to it
  TxCount,          \* [Block -> Nat]: how many txids the block lists
  Writes(_, _, _, _),
                    \* Writes(records, block, position, idx): what
                    \* applyTransaction returns, with idx counting the
                    \* transactions the source has yielded for this block
  Key, Value,
  Replay,           \* [Block -> sequence of records]: see ReplayAssumption
  NoHash,           \* null as a hash
  None,             \* null as a cursor
  StartHeight

Records == [Key -> Value \cup {Absent}]
Write == [key : Key, value : Value \cup {Absent}]
Empty == [k \in Key |-> Absent]

\* What an index built from StartHeight holds after the block with hash h.
IndexAt(h) == IF h \in Block THEN Replay[h][TxCount[h] + 1] ELSE Empty

ASSUME BlockAssumption ==
  /\ StartHeight \in Int
  /\ HeightOf \in [Block -> Int]
  /\ TxCount \in [Block -> Nat]
  /\ DOMAIN ParentOf = Block
  /\ \A b \in Block :
       /\ HeightOf[b] >= StartHeight
       /\ IF HeightOf[b] = StartHeight
          THEN ParentOf[b] \notin Block
          ELSE ParentOf[b] \in Block /\ HeightOf[ParentOf[b]] = HeightOf[b] - 1
  /\ NoHash \notin Block /\ None \notin Block

\* null is no cursor: neither at a block nor just below the first one.
ASSUME NoneAssumption ==
  \A b \in Block : None \notin {[height |-> HeightOf[b], hash |-> b],
                               [height |-> HeightOf[b] - 1, hash |-> ParentOf[b]]}

\* The chain ending at a block: a block per height, each naming the one below.
ASSUME ChainAssumption ==
  \A b \in Block :
    /\ ChainTo[b] \in [StartHeight .. HeightOf[b] -> Block]
    /\ ChainTo[b][HeightOf[b]] = b
    /\ \A h \in StartHeight .. HeightOf[b] :
         /\ HeightOf[ChainTo[b][h]] = h
         /\ h > StartHeight => ParentOf[ChainTo[b][h]] = ChainTo[b][h - 1]

\* Replay[b][p] is what the index holds just before transaction p of block b
\* when every block below b, and every transaction before p, was applied once
\* and in order to an index that started empty at StartHeight.
ASSUME ReplayAssumption ==
  /\ Empty \in Records
  /\ \A b \in Block :
       /\ Replay[b][1] = IndexAt(ParentOf[b])
       /\ \A p \in 1 .. TxCount[b] + 1 : Replay[b][p] \in Records
       /\ \A p \in 1 .. TxCount[b] :
            /\ Writes(Replay[b][p], b, p, p - 1) \in Seq(Write)
            /\ Replay[b][p + 1] =
                 Apply(Replay[b][p], Writes(Replay[b][p], b, p, p - 1))

=============================================================================
