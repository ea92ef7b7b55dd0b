---------------------------- MODULE TokenRules ----------------------------
(* The token state machine of src/indexer/rules.js: applyTransaction as a     *)
(* function from the store and one transaction to the writes to make.        *)
(*                                                                           *)
(* A transaction is [id, inputs, outputs]: the outpoints it spends and, per   *)
(* output, the token document it carries (NoToken for none). An outpoint is  *)
(* <<id, position>>. A document is a record of what the rules read of it:     *)
(*   standard, op, wellFormed   as classifyToken (core/src/token.js) decides; *)
(*                 the op is None where the document states none               *)
(*   tick / id     the ticker, or the token id it names (NoKey for none)      *)
(*   amount, max, limit         naturals, None where the field is missing     *)
(*   satoshis, owner            of the output; NoOwner for a bare lock        *)
(* Every stored value is a record; the code keeps a spend and a balance as     *)
(* bare strings.                                                              *)
EXTENDS Store, SequencesExt

CONSTANTS NoToken, NoKey, NoOwner, None,
          Null              \* a key that is present and holds null

Utxo(o) == <<"utxo", o>>
Spend(o) == <<"spend", o>>
Token(k) == <<"token", k>>
Balance(owner, k) == <<"balance", <<owner, k>>>>

IsAuth(doc) == doc.op \in {"auth", "deploy+auth"}
IsDeploy(doc) == doc.op \in {"deploy", "deploy+mint", "deploy+auth"}

\* tokenKeyOf. The id of a BSV-21 deploy is the outpoint it is inscribed at.
KeyOf(doc, outpoint) ==
  CASE doc.standard = "BSV-20" -> doc.tick
    [] doc.standard # "BSV-20" /\ IsDeploy(doc) -> outpoint
    [] OTHER -> doc.id

\* store.get: null for a missing key and for a stored null alike.
Get(rec, k) == IF rec[k] = Null THEN Absent ELSE rec[k]
Held(rec, k) == Get(rec, k) # Absent

\* big(value): a missing amount counts for nothing.
Big(n) == IF n = None THEN 0 ELSE n

-----------------------------------------------------------------------------
(* While a transaction is worked through, input by input and output by output: *)
(*   writes      the writes so far                                            *)
(*   staged      the balances they make, by <<owner, token key>>              *)
(*   remaining   what the inputs of a token still carry, less what the        *)
(*               outputs drew; a token that is missing has nothing left       *)
(*   authorised  the tokens an authority input of which is spent              *)

NoMap == [x \in {} |-> 0]
Put(map, k, value) == [x \in DOMAIN map \cup {k} |-> IF x = k THEN value ELSE map[x]]
Left(st, k) == IF k \in DOMAIN st.remaining THEN st.remaining[k] ELSE 0

\* big(store.get(BALANCE, bkey)): no balance is nothing.
Stored(rec, owner, key) ==
  IF Held(rec, Balance(owner, key)) THEN rec[Balance(owner, key)].amount ELSE 0

\* Mutant of Adjust: a staged balance is not seen again.
AdjustBlind(rec, st, owner, key, delta) ==
  IF owner = NoOwner \/ delta = 0 THEN st
  ELSE [st EXCEPT !.staged = Put(@, <<owner, key>>, Max({Stored(rec, owner, key) + delta, 0}))]

\* adjust(): staged balances see each other, and are never below zero.
Current(rec, st, owner, key) ==
  IF <<owner, key>> \in DOMAIN st.staged THEN st.staged[<<owner, key>>]
  ELSE Stored(rec, owner, key)
Adjust(rec, st, owner, key, delta) ==
  IF owner = NoOwner \/ delta = 0 THEN st
  ELSE [st EXCEPT !.staged = Put(@, <<owner, key>>, Max({Current(rec, st, owner, key) + delta, 0}))]

\* What a spent output still carries; an authority carries no amount.
Carries(held) == IF held.authority THEN 0 ELSE held.amount

\* Mutant of Gone: the output is noted as spent and stays live.
GoneKeeping(tx, o) == << [key |-> Spend(o), value |-> [txid |-> tx.id]] >>

\* A spent token output is gone.
Gone(tx, o) ==
  << [key |-> Utxo(o), value |-> Absent], [key |-> Spend(o), value |-> [txid |-> tx.id]] >>

\* One input: a token output, if the store holds it, is spent whatever the
\* transaction then does.
Consume(rec, tx, st, o) ==
  LET held == rec[Utxo(o)]
      key == held.tokenKey
      taken == [st EXCEPT
                  !.writes = @ \o Gone(tx, o),
                  !.remaining = Put(@, key, Left(st, key) + Carries(held)),
                  !.authorised = @ \cup {k \in {key} : held.authority}]
  IN  IF ~Held(rec, Utxo(o)) THEN st
      ELSE Adjust(rec, taken, held.owner, key, -held.amount)

\* May this output issue the token? `record' is what the store held for the
\* token before the transaction: outputs of one transaction do not see what
\* the others wrote.
Mintable(doc, record, authorised) ==
  /\ record # Absent
  /\ doc.standard = "BSV-21" => authorised
  /\ record.limit # None => doc.amount <= record.limit
  /\ record.max # None => record.supply < record.max

\* Mutant of Filled: the mint that crosses the cap is honoured in full.
FilledWhole(doc, record) == doc.amount

\* The mint that crosses the cap is filled to what fits.
Filled(doc, record) ==
  IF record.max = None THEN doc.amount
  ELSE Min({doc.amount, record.max - record.supply})

\* Mutant of Accepted: a ticker may be deployed again.
AcceptedAgain(doc, record, authorised, remaining) ==
  /\ doc.wellFormed
  /\ doc.satoshis = 1
  /\ CASE IsDeploy(doc) -> TRUE
       [] doc.op = "mint" -> Mintable(doc, record, authorised)
       [] OTHER -> Big(doc.amount) <= remaining

Accepted(doc, record, authorised, remaining) ==
  /\ doc.wellFormed
  /\ doc.satoshis = 1
  /\ CASE IsDeploy(doc) -> record = Absent
       [] doc.op = "mint" -> Mintable(doc, record, authorised)
       [] OTHER -> Big(doc.amount) <= remaining  \* a transfer, a burn, an auth

\* The amount an accepted output holds.
Amount(doc, record) ==
  CASE doc.op = "deploy+mint" -> doc.amount
    [] doc.op = "mint" -> Filled(doc, record)
    [] doc.op \in {"deploy", "deploy+auth", "burn"} -> 0
    [] OTHER -> Big(doc.amount)

\* A deploy, a mint and a burn change what is recorded of the token.
Issues(doc) == IsDeploy(doc) \/ doc.op \in {"mint", "burn"}

\* What is recorded after such an output: a new record, or the one there was.
TokenAfter(doc, record, key, outpoint, height, idx) ==
  CASE IsDeploy(doc) ->
         [tokenKey |-> key, deployOutpoint |-> outpoint, max |-> doc.max,
          limit |-> doc.limit, supply |-> Amount(doc, record),
          burned |-> 0, height |-> height, idx |-> idx]
    [] doc.op = "mint" -> [record EXCEPT !.supply = @ + Filled(doc, record)]
    [] OTHER -> IF record = Absent THEN Null
                ELSE [record EXCEPT !.burned = @ + doc.amount]

TokenWrites(doc, record, key, outpoint, height, idx) ==
  IF Issues(doc)
  THEN << [key |-> Token(key),
           value |-> TokenAfter(doc, record, key, outpoint, height, idx)] >>
  ELSE << >>

\* tokenOutputs(tx), less those that name no token.
TokenOutputs(tx) ==
  {v \in DOMAIN tx.outputs :
     tx.outputs[v] # NoToken /\ KeyOf(tx.outputs[v], <<tx.id, v>>) # NoKey}

\* The live output an accepted document leaves behind; a burn leaves none.
LiveWrites(doc, amount, key, outpoint, height, idx) ==
  IF doc.op = "burn" THEN << >>
  ELSE << [key |-> Utxo(outpoint),
           value |-> [tokenKey |-> key, amount |-> amount, authority |-> IsAuth(doc),
                      owner |-> doc.owner, height |-> height, idx |-> idx]] >>

\* What an accepted output draws from the inputs.
Drawn(doc) == IF IsDeploy(doc) \/ doc.op = "mint" THEN 0 ELSE Big(doc.amount)

\* One output of the transaction, in the body of the inner loop.
Create(rec, tx, height, idx, st, v) ==
  LET doc == tx.outputs[v]
      outpoint == <<tx.id, v>>
      key == KeyOf(doc, outpoint)
      record == Get(rec, Token(key))
      amount == Amount(doc, record)
      noted == [st EXCEPT
                  !.writes = @ \o TokenWrites(doc, record, key, outpoint, height, idx)
                               \o LiveWrites(doc, amount, key, outpoint, height, idx),
                  !.remaining = Put(@, key, Left(st, key) - Drawn(doc))]
  IN  IF v \notin TokenOutputs(tx) THEN st
      ELSE IF ~Accepted(doc, record, key \in st.authorised, Left(st, key)) THEN st
      ELSE IF doc.op = "burn" THEN noted
      ELSE Adjust(rec, noted, doc.owner, key, amount)

Begun == [writes |-> << >>, staged |-> NoMap, remaining |-> NoMap, authorised |-> {}]
Advance(rec, tx, height, idx, st, n) ==
  IF n <= Len(tx.inputs) THEN Consume(rec, tx, st, tx.inputs[n])
  ELSE Create(rec, tx, height, idx, st, n - Len(tx.inputs))

\* How far the work is after n inputs and outputs, the inputs first. The code
\* takes the outputs token by token; outputs of different tokens share nothing,
\* so taking them in the order of the transaction writes the same values.
Steps(tx) == Len(tx.inputs) + Len(tx.outputs)
Work(rec, tx, height, idx) ==
  LET work[n \in 0 .. Steps(tx)] ==
        IF n = 0 THEN Begun ELSE Advance(rec, tx, height, idx, work[n - 1], n)
  IN  work

\* The balances staged are written last.
BalanceWrites(staged) ==
  LET held == SetToSeq(DOMAIN staged)
  IN  [i \in DOMAIN held |-> [key |-> <<"balance", held[i]>>,
                              value |-> [amount |-> staged[held[i]]]]]

\* The writes of one transaction.
TransactionWrites(rec, tx, height, idx) ==
  LET done == Work(rec, tx, height, idx)[Steps(tx)]
  IN  done.writes \o BalanceWrites(done.staged)

=============================================================================
