--------------------------- MODULE MCChainPosition ---------------------------
(* The chain of MCVerify, inscribed: an ordinal inscribed again when it is     *)
(* transferred, one inscribed three times, the last content being the first,   *)
(* and one whose last inscription is on the output it is merged into.          *)
EXTENDS ChainPosition, MCVerify

CONSTANTS Cat, Dog

MCInscribed ==
  [o \in Outpoint |-> CASE o \in { <<4, 1>>, <<4, 2>>, <<4, 3>>, <<6, 2>> } -> Cat
                        [] o \in { <<5, 2>>, <<7, 1>>, <<8, 1>> } -> Dog
                        [] OTHER -> None]

MCLie == <<2, 1>>

\* A walk is the same whether or not an inspection follows.
MCRequests == { [verify |-> TRUE, reinscriptions |-> TRUE] }
                \cup [verify : {FALSE}, reinscriptions : BOOLEAN]

=============================================================================
