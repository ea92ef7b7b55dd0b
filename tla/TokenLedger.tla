---------------------------- MODULE TokenLedger ----------------------------
(* The token rules applied to every legal history of transactions: what the   *)
(* records of one index (src/indexer/rules.js over store.js) say about a      *)
(* token after any sequence of deploys, mints, transfers, burns and           *)
(* authority outputs, spending any outputs the chain still holds.             *)
EXTENDS TokenRules

CONSTANTS
  Tick,             \* the tickers documents name
  Owner,            \* the addresses documents pay
  Outputs,          \* the sequences of token documents a transaction may carry
  MaxInputs,        \* bound: outpoints one transaction spends
  MaxTxs            \* bound: transactions in the history

TxId == 1 .. MaxTxs
Outpoint == TxId \X UNION {DOMAIN o : o \in Outputs}
TokenKey == Tick \cup Outpoint
Key == {Utxo(o) : o \in Outpoint} \cup {Spend(o) : o \in Outpoint}
         \cup {Token(k) : k \in TokenKey}
         \cup {Balance(w, k) : w \in Owner, k \in TokenKey}

ASSUME BoundAssumption == MaxTxs \in Nat \ {0} /\ MaxInputs \in Nat

\* What the rules read of a document classifyToken made (TokenDocument).
Document ==
  [standard : {"BSV-20", "BSV-21", "unknown"}, op : STRING \cup {None}, wellFormed : BOOLEAN,
   tick : Tick \cup {NoKey}, id : Outpoint \cup {NoKey}, amount : Nat \cup {None},
   max : Nat \cup {None}, limit : Nat \cup {None},
   satoshis : Nat, owner : Owner \cup {NoOwner}]

\* classifyToken leaves numbers where they are and, in a well-formed document,
\* wherever its op has to state them. A well-formed document is of one of the
\* two standards, and its ticker is too short for an outpoint; only the deploy
\* of a ticker has a max and a limit. A document that states no op is of none.
ASSUME DocumentAssumption ==
  \A o \in Outputs :
    /\ o \in Seq(Document \cup {NoToken})
    /\ \A v \in DOMAIN o : o[v] # NoToken =>
         /\ o[v].op = None => o[v].standard = "unknown" /\ o[v].id = NoKey
         /\ o[v].wellFormed /\ o[v].op \in {"mint", "burn", "deploy+mint"} => o[v].amount \in Nat
         /\ o[v].wellFormed => o[v].standard # "unknown" /\ o[v].tick \notin Outpoint
         /\ o[v].max # None \/ o[v].limit # None => o[v].standard = "BSV-20" /\ o[v].op = "deploy"

VARIABLES
  records,          \* the store's maps
  chain             \* the transactions applied so far, in order

vars == <<records, chain>>

\* What the chain itself says: the outputs there are, and who spent them.
Outs(tx) == {<<tx.id, v>> : v \in DOMAIN tx.outputs}
Ins(tx) == ToSet(tx.inputs)
SpentBy(o) == {tx \in ToSet(chain) : o \in Ins(tx)}
Unspent == {o \in UNION {Outs(tx) : tx \in ToSet(chain)} : SpentBy(o) = {}}

UtxoRecord == [tokenKey : TokenKey, amount : Nat, authority : BOOLEAN,
               owner : Owner \cup {NoOwner}, height : Nat, idx : Nat]
TokenRecord == [tokenKey : TokenKey, deployOutpoint : Outpoint,
                max : Nat \cup {None}, limit : Nat \cup {None},
                supply : Nat, burned : Nat, height : Nat, idx : Nat]

\* The marks are none of the values they stand beside.
ASSUME MarkAssumption ==
  /\ None \notin Nat
  /\ NoOwner \notin Owner
  /\ NoKey \notin TokenKey
  /\ \A mark \in {Absent, Null} :
       mark \notin UtxoRecord /\ mark \notin TokenRecord
         /\ mark \notin [txid : TxId] /\ mark \notin [amount : Nat]

RecordsOK(rec) ==
  /\ DOMAIN rec = Key
  /\ \A o \in Outpoint : /\ rec[Utxo(o)] \in UtxoRecord \cup {Absent}
                         /\ rec[Spend(o)] \in [txid : TxId] \cup {Absent}
  /\ \A k \in TokenKey : rec[Token(k)] \in TokenRecord \cup {Absent, Null}
  /\ \A w \in Owner, k \in TokenKey : rec[Balance(w, k)] \in [amount : Nat] \cup {Absent}

TypeOK ==
  /\ RecordsOK(records)
  /\ chain \in Seq([id : TxId, inputs : Seq(Outpoint), outputs : Outputs])
  /\ Len(chain) \in 0 .. MaxTxs
  /\ \A i \in DOMAIN chain : chain[i].id = i

-----------------------------------------------------------------------------
Init ==
  /\ records = [k \in Key |-> Absent]
  /\ chain = << >>

\* The next transaction of the chain is applied.
ApplyNext(inputs, outputs) ==
  /\ Len(chain) < MaxTxs
  /\ inputs \subseteq Unspent
  /\ LET tx == [id |-> Len(chain) + 1, inputs |-> SetToSeq(inputs), outputs |-> outputs]
     IN  /\ records' = Apply(records, TransactionWrites(records, tx, tx.id, 0))
         /\ chain' = Append(chain, tx)

Next ==
  \E inputs \in {s \in SUBSET Unspent : Cardinality(s) <= MaxInputs},
     outputs \in Outputs : ApplyNext(inputs, outputs)

Spec == Init /\ [][Next]_vars

-----------------------------------------------------------------------------
(* Properties. *)

Live(rec) == {o \in Outpoint : Held(rec, Utxo(o))}
LiveOf(rec, k) == {o \in Live(rec) : rec[Utxo(o)].tokenKey = k}
LivePaid(rec, w, k) == {o \in LiveOf(rec, k) : rec[Utxo(o)].owner = w}
Total(rec, outpoints) == MapThenSumSet(LAMBDA o : rec[Utxo(o)].amount, outpoints)

\* The balance answered for an owner is the sum of the live token outputs paid
\* to that owner, whatever mix of debits and credits one transaction makes.
\* (rules.js:86-103, 247-262; store.js:129, 162)
BalancesMatchOutputs ==
  \A w \in Owner, k \in TokenKey :
    Stored(records, w, k) = Total(records, LivePaid(records, w, k))

\* A token output is live or spent, never both and never live once the chain
\* spent it; and the forward index names the transaction that did.
\* (rules.js:73-103, store.js:8-13)
OutputsAreLiveOrSpent ==
  /\ TypeOK
  /\ \A o \in Outpoint :
       /\ o \in Live(records) => o \in Unspent /\ ~Held(records, Spend(o))
       /\ Held(records, Spend(o)) =>
            \E tx \in SpentBy(o) : records[Spend(o)].txid = tx.id

\* What circulates, and what was burned, was accounted for when it was issued,
\* and never passes the deploy's max.
Accounted(record, circulating) ==
  IF record = Absent THEN circulating = 0
  ELSE /\ circulating + record.burned <= record.supply
       /\ record.max # None => record.supply <= record.max
SupplyAccounted(k) ==
  Accounted(Get(records, Token(k)), Total(records, LiveOf(records, k)))

\* The tokens that some transaction issued or burned in several outputs at once.
Issuing(tx, k) ==
  {v \in TokenOutputs(tx) :
     Issues(tx.outputs[v]) /\ KeyOf(tx.outputs[v], <<tx.id, v>>) = k}
Batches(tx, k) == \E v, w \in Issuing(tx, k) : v # w
Batched == {k \in TokenKey : \E tx \in ToSet(chain) : Batches(tx, k)}

\* A mint or a transfer never lets circulation outgrow the recorded supply, as
\* long as no transaction issued or burned the token in several outputs.
\* (rules.js:115-228)
SupplyCoversCirculation ==
  \A k \in TokenKey \ Batched : SupplyAccounted(k)

\* The same for every transaction: "mints accumulate against the deploy's max".
\* (rules.js:15-16)
MintsAccumulate == \A k \in TokenKey : SupplyAccounted(k)

\* The first deploy of a token stands: no later transaction replaces it or its
\* limits, and what was issued or burned is never taken back.
\* (rules.js:13-14, 139-144)
Continues(was, is) ==
  /\ is.deployOutpoint = was.deployOutpoint
  /\ is.max = was.max /\ is.limit = was.limit
  /\ is.supply >= was.supply /\ is.burned >= was.burned
DeployStands ==
  [][\A k \in TokenKey :
       Held(records, Token(k)) =>
         Held(records', Token(k)) /\ Continues(records[Token(k)], records'[Token(k)])]_vars

-----------------------------------------------------------------------------
(* The inductive invariant.                                                   *)

\* A transaction spends outputs of earlier ones.
SpendsEarlier == \A i \in DOMAIN chain : \A o \in Ins(chain[i]) : o[1] < i

LedgerIInv ==
  /\ OutputsAreLiveOrSpent
  /\ SpendsEarlier
  /\ BalancesMatchOutputs
  /\ SupplyCoversCirculation

=============================================================================
