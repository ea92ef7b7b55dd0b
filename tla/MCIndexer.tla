----------------------------- MODULE MCIndexer -----------------------------
(* Indexer over the blocks of BlockTree. The transactions a bulk answer may   *)
(* leave out write nothing and are the last of their blocks, so leaving them  *)
(* out shows in nothing the properties speak of.                              *)
EXTENDS Indexer, BlockTree

MCUnavailable == {<<"a2", 2>>, <<"b4", 1>>}

=============================================================================
