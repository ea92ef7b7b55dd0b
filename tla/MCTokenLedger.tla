--------------------------- MODULE MCTokenLedger ---------------------------
(* Small documents for TokenLedger and Replay: one ticker capped at 3 with a   *)
(* per-mint limit of 2, and one BSV-21 token that can only be the first output *)
(* of the first transaction. Amounts are chosen so that a mint crosses the     *)
(* cap, a transfer leaves a remainder, and two transfers compete for one       *)
(* input.                                                                      *)
EXTENDS Replay

CONSTANTS t, alice, bob

MCTick == {t}
MCOwner == {alice, bob}

Doc20(op, amount, owner) ==
  [standard |-> "BSV-20", op |-> op, wellFormed |-> TRUE, tick |-> t,
   id |-> NoKey, amount |-> amount, max |-> None, limit |-> None,
   satoshis |-> 1, owner |-> owner]
Deploy20 ==
  [Doc20("deploy", None, alice) EXCEPT !.max = 3, !.limit = 2]
Doc21(op, amount, owner) ==
  [standard |-> "BSV-21", op |-> op, wellFormed |-> TRUE, tick |-> NoKey,
   id |-> <<1, 1>>, amount |-> amount, max |-> None, limit |-> None,
   satoshis |-> 1, owner |-> owner]

\* A bsv-20 document that states no op.
Wordless ==
  [Doc21(None, None, alice) EXCEPT !.standard = "unknown", !.wellFormed = FALSE, !.id = NoKey]

Outputs20 ==
  { <<Deploy20>>,
    <<Doc20("mint", 2, alice)>>,
    <<Doc20("mint", 3, alice)>>,
    <<Doc20("mint", 1, NoOwner)>>,
    <<Doc20("mint", 2, bob), Doc20("mint", 2, alice)>>,
    <<Doc20("transfer", 1, bob), Doc20("transfer", 1, alice)>>,
    <<Doc20("transfer", 2, alice), Doc20("transfer", 1, bob)>>,
    <<[Doc20("transfer", 1, bob) EXCEPT !.satoshis = 2]>>,
    <<NoToken>> }

Outputs21 ==
  { <<Doc21("deploy+mint", 2, alice)>>,
    <<Doc21("deploy+auth", None, alice)>>,
    <<Doc21("mint", 2, bob), Doc21("auth", None, alice)>>,
    <<Doc21("mint", 1, alice), Wordless>>,
    <<Doc21("transfer", 1, bob), Doc21("burn", 1, alice)>>,
    <<[Doc21("transfer", 1, alice) EXCEPT !.wellFormed = FALSE],
      Doc21("transfer", 1, alice)>>,
    <<Doc21("auth", None, bob), Doc20("transfer", 1, alice)>> }

MCOutputs == Outputs20 \cup Outputs21

=============================================================================
