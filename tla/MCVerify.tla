------------------------------ MODULE MCVerify ------------------------------
(* A chain in which satoshis are packed, split and paid away: an ordinal that  *)
(* is transferred from behind other inputs, past an empty output and into the  *)
(* fee; one that is merged; one minted alone; one that stood alone twice.      *)
EXTENDS Verify

Made(inputs, outputs) == [inputs |-> inputs, outputs |-> outputs]

MCTxOf ==
  << Made(<<Coinbase>>, <<5>>),
     Made(<<Coinbase>>, <<2, 1>>),
     Made(<< <<1, 1>> >>, <<2, 1, 1>>),
     Made(<< <<3, 1>>, <<3, 2>> >>, <<1, 1, 1>>),
     Made(<< <<4, 3>> >>, <<0, 1>>),
     Made(<< <<2, 1>>, <<5, 2>> >>, <<2, 1>>),
     Made(<< <<4, 1>>, <<6, 2>> >>, <<1>>),
     Made(<< <<4, 2>>, <<2, 2>> >>, <<2>>),
     Made(<< <<8, 1>> >>, <<1, 1>>) >>

=============================================================================
