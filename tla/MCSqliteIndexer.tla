-------------------------- MODULE MCSqliteIndexer --------------------------
(* SqliteIndexer over the lower part of the tree of BlockTree.                *)
EXTENDS SqliteIndexer, BlockTree

SmallBlock == {"a1", "a2", "a3", "a4", "b2", "b3"}
Low(f) == [b \in SmallBlock |-> f[b]]
LowParentOf == Low(MCParentOf)
LowHeightOf == Low(MCHeightOf)
LowChainTo == Low(MCChainTo)
LowTxCount == Low(MCTxCount)
MCUnavailable == {<<"a2", 2>>}

=============================================================================
