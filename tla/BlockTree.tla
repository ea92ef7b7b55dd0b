----------------------------- MODULE BlockTree -----------------------------
(* A tree of blocks for Chain:                                                *)
(*                                                                           *)
(*   g - a1 - a2 - a3 - a4 - a5      x - c1 - c2                              *)
(*          \ b2 - b3 - b4                                                    *)
(*                                                                           *)
(* What a transaction writes is chosen to tell histories apart rather than to *)
(* be about tokens: it appends itself, and the idx it was given, to what its  *)
(* keys hold, so no two orders, repetitions or omissions of transactions look *)
(* alike. Some write a key twice, or delete one, as the token rules do.       *)
(* The forks hold the same transactions in another order, as forks do.        *)
EXTENDS Store, SequencesExt

MCBlock == {"a1", "a2", "a3", "a4", "a5", "b2", "b3", "b4", "c1", "c2"}
MCParentOf ==
  [a1 |-> "g", a2 |-> "a1", a3 |-> "a2", a4 |-> "a3", a5 |-> "a4",
   b2 |-> "a1", b3 |-> "b2", b4 |-> "b3", c1 |-> "x", c2 |-> "c1"]
MCHeightOf ==
  [a1 |-> 1, a2 |-> 2, a3 |-> 3, a4 |-> 4, a5 |-> 5,
   b2 |-> 2, b3 |-> 3, b4 |-> 4, c1 |-> 1, c2 |-> 2]
MCChainTo ==
  [a1 |-> <<"a1">>, a2 |-> <<"a1", "a2">>, a3 |-> <<"a1", "a2", "a3">>,
   a4 |-> <<"a1", "a2", "a3", "a4">>, a5 |-> <<"a1", "a2", "a3", "a4", "a5">>,
   b2 |-> <<"a1", "b2">>, b3 |-> <<"a1", "b2", "b3">>,
   b4 |-> <<"a1", "b2", "b3", "b4">>, c1 |-> <<"c1">>, c2 |-> <<"c1", "c2">>]

MCKey == {"p", "q"}
\* A transaction: the keys it writes, in order; then the keys it deletes.
Tx(id, touches, deletes) == [id |-> id, touches |-> touches, deletes |-> deletes]
T1 == Tx(1, <<"p">>, << >>)
T2 == Tx(2, <<"p", "q", "p">>, << >>)
T3 == Tx(3, <<"q">>, <<"p">>)
T4 == Tx(4, <<"p">>, <<"q">>)
T5 == Tx(5, << >>, << >>)

TxsOf ==
  [a1 |-> <<T1>>, a2 |-> <<T2, T5>>, a3 |-> <<T3>>, a4 |-> << >>, a5 |-> <<T4>>,
   b2 |-> <<T3>>, b3 |-> <<T2, T4>>, b4 |-> <<T5>>, c1 |-> <<T1>>, c2 |-> <<T3>>]
MCTxCount == [b \in MCBlock |-> Len(TxsOf[b])]

MCWrites(rec, b, p, i) ==
  LET tx == TxsOf[b][p]
      logged(k) == IF rec[k] = Absent THEN << >> ELSE rec[k]
  IN  [j \in DOMAIN tx.touches |->
         [key |-> tx.touches[j], value |-> Append(logged(tx.touches[j]), <<tx.id, j, i>>)]]
      \o [j \in DOMAIN tx.deletes |-> [key |-> tx.deletes[j], value |-> Absent]]

MCValue == Seq((1 .. 5) \X (1 .. 3) \X (0 .. 1))

\* Replay, from its two equations, block by block: what the index holds
\* before each transaction of b and after the last, given what it held below b.
Through(b, below) ==
  LET step(states, p) ==
        Append(states, Apply(Last(states), MCWrites(Last(states), b, p, p - 1)))
  IN  FoldLeftDomain(step, <<below>>, TxsOf[b])

MCReplay ==
  LET a1 == Through("a1", [k \in MCKey |-> Absent])
      a2 == Through("a2", Last(a1))
      a3 == Through("a3", Last(a2))
      a4 == Through("a4", Last(a3))
      a5 == Through("a5", Last(a4))
      b2 == Through("b2", Last(a1))
      b3 == Through("b3", Last(b2))
      b4 == Through("b4", Last(b3))
      c1 == Through("c1", [k \in MCKey |-> Absent])
      c2 == Through("c2", Last(c1))
  IN  [a1 |-> a1, a2 |-> a2, a3 |-> a3, a4 |-> a4, a5 |-> a5,
       b2 |-> b2, b3 |-> b3, b4 |-> b4, c1 |-> c1, c2 |-> c2]

=============================================================================
