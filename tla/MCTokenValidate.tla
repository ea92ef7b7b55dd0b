--------------------------- MODULE MCTokenValidate ---------------------------
(* A chain of two tokens: a deploy and its transfers, split, walked to along   *)
(* two ways of unequal length, burned and spent short; an authority and its    *)
(* mints; tokens from nowhere, handed on; and documents nobody expects.        *)
EXTENDS TokenValidate

Doc(key, op, amount) == [satoshis |-> 1, token |-> [key |-> key, op |-> op, amount |-> amount]]
X(op, amount) == Doc("x", op, amount)
Y(op, amount) == Doc("y", op, amount)
Plain == [satoshis |-> 5, token |-> None]
Pays(inputs, outputs) == [inputs |-> inputs, outputs |-> outputs]

MCTxOf ==
  << Pays(<< >>, <<Plain, Plain, Plain, Plain, Plain>>),
     Pays(<< <<1, 1>> >>, <<X("deploy+mint", 4)>>),
     Pays(<< <<1, 2>> >>, <<Y("deploy+auth", None)>>),
     Pays(<< <<2, 1>>, <<1, 3>> >>,
          <<X("transfer", 1), X("transfer", 1), X("transfer", 2)>>),
     Pays(<< <<4, 1>> >>, <<X("transfer", 1)>>),
     Pays(<< <<4, 2>>, <<5, 1>> >>, <<X("transfer", 2), X("burn", 0)>>),
     Pays(<< <<3, 1>>, <<4, 3>> >>, <<Y("mint", 2), Y("auth", None), X("transfer", 1)>>),
     Pays(<< <<7, 3>>, <<6, 1>>, <<7, 1>> >>,
          <<X("transfer", 3), Y("transfer", 1), X("transfer", 0)>>),
     Pays(<< <<1, 4>>, <<7, 2>> >>, <<Y("mint", 1), Doc(None, None, None)>>),
     Pays(<< <<1, 5>> >>, <<X("transfer", 2)>>),
     Pays(<< <<10, 1>> >>, <<X("transfer", 2)>>),
     Pays(<< <<8, 2>> >>, <<Doc(None, None, None), Y("transfer", 1)>>),
     Pays(<< <<12, 2>> >>, <<[Y("transfer", 1) EXCEPT !.satoshis = 2]>>),
     Pays(<< <<8, 1>>, <<11, 1>> >>, <<X("transfer", 5), Y("transfer", 0)>>),
     Pays(<< <<9, 1>> >>, <<Y("transfer", 0), Doc(None, "deploy?", None)>>) >>

=============================================================================
