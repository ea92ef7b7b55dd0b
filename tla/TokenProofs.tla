----------------------------- MODULE TokenProofs -----------------------------
(* The safety properties of TokenLedger and of Replay, for every set of        *)
(* tickers, owners and documents, and every length of the history: what the    *)
(* rules keep; then the order in which a token's history is replayed, and what *)
(* the replay says beside what the index of the whole chain says.              *)
EXTENDS Replay, HelperProofs

-----------------------------------------------------------------------------
(* Total adds the amounts up, and so has what is proved of sums.               *)

AmountAt(rec, o) == rec[Utxo(o)].amount

LEMMA TotalIsSum ==
  ASSUME NEW rec, NEW S, IsFiniteSet(S), NEW f, \A o \in S : f[o] = AmountAt(rec, o)
  PROVE  Total(rec, S) = Sum(f, S)
<1> DEFINE Adds(g) ==
             g = [T \in SUBSET S |-> IF T = {} THEN 0
                                     ELSE AmountAt(rec, Picked(T)) + g[T \ {Picked(T)}]]
           iter == CHOOSE g : Adds(g)
<1>1. PICK g : Sums(f, SUBSET S, g)
  BY SumsExist
<1>2. ASSUME NEW T \in SUBSET S, T # {}
      PROVE  f[Picked(T)] = AmountAt(rec, Picked(T))
  BY <1>2 DEF Picked
<1>3. Adds(g)
  BY <1>1, <1>2 DEF Sums
<1>4. Adds(iter)
  BY <1>3
<1>5. Total(rec, S) = iter[S]
  BY DEF Total, MapThenSumSet, MapThenFoldSet, AmountAt, Picked
<1>6. Sums(f, SUBSET S, iter)
  BY <1>2, <1>4 DEF Sums
<1> HIDE DEF iter
<1>7. QED
  BY <1>5, <1>6, SumIsOnly

LEMMA TotalOfNone == ASSUME NEW rec PROVE Total(rec, {}) = 0
<1> DEFINE f == << >>
<1>1. Total(rec, {}) = Sum(f, {})
  BY TotalIsSum, FS_EmptySet
<1>2. QED
  BY <1>1, SumOfNone

LEMMA TotalTake ==
  ASSUME NEW rec, NEW S, IsFiniteSet(S), \A o \in S : AmountAt(rec, o) \in Nat
  PROVE  /\ Total(rec, S) \in Nat
         /\ \A o \in S : /\ Total(rec, S \ {o}) \in Nat
                         /\ Total(rec, S) = AmountAt(rec, o) + Total(rec, S \ {o})
<1> DEFINE f == [o \in S |-> AmountAt(rec, o)]
<1>1. \A o \in S : f[o] = AmountAt(rec, o) /\ f[o] \in Nat
  OBVIOUS
<1> HIDE DEF f
<1>2. Total(rec, S) = Sum(f, S)
  BY <1>1, TotalIsSum
<1>3. ASSUME NEW o \in S
      PROVE  Total(rec, S \ {o}) = Sum(f, S \ {o})
  <2> DEFINE T == S \ {o}
  <2>1. IsFiniteSet(T) /\ \A p \in T : f[p] = AmountAt(rec, p)
    BY <1>1, FS_Subset
  <2> HIDE DEF T
  <2>2. Total(rec, T) = Sum(f, T)
    BY <2>1, TotalIsSum
  <2>3. QED
    BY <2>2 DEF T
<1>4. /\ Sum(f, S) \in Nat
      /\ \A o \in S : Sum(f, S \ {o}) \in Nat /\ Sum(f, S) = f[o] + Sum(f, S \ {o})
  BY <1>1, SumTake
<1>5. QED
  BY <1>1, <1>2, <1>3, <1>4

LEMMA TotalSame ==
  ASSUME NEW one, NEW other, NEW S, IsFiniteSet(S),
         \A o \in S : AmountAt(one, o) = AmountAt(other, o)
  PROVE  Total(one, S) = Total(other, S)
<1> DEFINE f == [o \in S |-> AmountAt(one, o)]
<1>1. \A o \in S : f[o] = AmountAt(one, o) /\ f[o] = AmountAt(other, o)
  OBVIOUS
<1> HIDE DEF f
<1>2. QED
  BY <1>1, TotalIsSum

-----------------------------------------------------------------------------
(* The helpers of the rules.                                                  *)

\* A finite set as a list: all of it, and each element once.
LEMMA SetToSeqIs ==
  ASSUME NEW S, IsFiniteSet(S)
  PROVE  /\ SetToSeq(S) \in Seq(S)
         /\ IsInjective(SetToSeq(S))
         /\ \A x \in S : \E i \in DOMAIN SetToSeq(S) : SetToSeq(S)[i] = x
<1> DEFINE n == Cardinality(S)
           f == SetToSeq(S)
<1>1. n \in Nat /\ ExistsBijection(1 .. n, S)
  BY FS_CardinalityType
<1>2. \E g \in [1 .. n -> S] : IsInjective(g)
  BY <1>1 DEF ExistsBijection, Bijection, Injection, IsInjective
<1>3. f \in [1 .. n -> S] /\ IsInjective(f)
  BY <1>2 DEF SetToSeq
<1>4. f \in Injection(1 .. n, S)
  BY <1>3 DEF Injection, IsInjective
<1>5. Cardinality(1 .. n) = n
  BY <1>1, FS_Interval
<1>6. f \in Surjection(1 .. n, S)
  BY <1>4, <1>5, FS_Injection
<1>7. \A x \in S : \E i \in 1 .. n : f[i] = x
  BY <1>6 DEF Surjection
<1> HIDE DEF f, n
<1>8. f \in Seq(S) /\ DOMAIN f = 1 .. n
  BY <1>1, <1>3
<1>9. QED
  BY <1>3, <1>7, <1>8 DEF f

\* A key tells its kind and what it is the key of.
LEMMA KeysDiffer ==
  /\ \A o, p : Utxo(o) = Utxo(p) <=> o = p
  /\ \A o, p : Spend(o) = Spend(p) <=> o = p
  /\ \A k, l : Token(k) = Token(l) <=> k = l
  /\ \A w, k, v, l : Balance(w, k) = Balance(v, l) <=> w = v /\ k = l
  /\ \A o, p : Utxo(o) # Spend(p) /\ Utxo(o) # Token(p) /\ Spend(o) # Token(p)
  /\ \A o, w, k : /\ Balance(w, k) # Utxo(o)
                  /\ Balance(w, k) # Spend(o)
                  /\ Balance(w, k) # Token(o)
BY DEF Utxo, Spend, Token, Balance

\* Maps that grow by Put.
Maps(S) == UNION {[D -> Nat] : D \in SUBSET S}

LEMMA PutIs ==
  ASSUME NEW S, NEW map \in Maps(S), NEW k \in S, NEW value \in Nat
  PROVE  Put(map, k, value) \in Maps(S)
<1>1. PICK D \in SUBSET S : map \in [D -> Nat]
  BY DEF Maps
<1>2. DOMAIN map = D /\ \A x \in D : map[x] \in Nat
  BY <1>1
<1>3. Put(map, k, value) \in [D \cup {k} -> Nat]
  BY <1>1, <1>2 DEF Put
<1>4. D \cup {k} \in SUBSET S
  OBVIOUS
<1>5. QED
  BY <1>3, <1>4 DEF Maps

LEMMA PutGives ==
  ASSUME NEW map, NEW k, NEW value, NEW put, put = Put(map, k, value)
  PROVE  /\ DOMAIN put = DOMAIN map \cup {k}
         /\ put[k] = value
         /\ \A x \in DOMAIN map : x # k => put[x] = map[x]
BY DEF Put

LEMMA MapIs ==
  ASSUME NEW S, NEW map \in Maps(S)
  PROVE  DOMAIN map \in SUBSET S /\ \A x \in DOMAIN map : map[x] \in Nat
BY DEF Maps

LEMMA NoMapIs == \A S : NoMap \in Maps(S) /\ DOMAIN NoMap = {}
BY DEF NoMap, Maps

\* The work advances step by step: its definition has a solution.
LEMMA WorkAdvances ==
  ASSUME NEW rec, NEW tx, NEW height, NEW idx, Steps(tx) \in Nat
  PROVE  /\ Work(rec, tx, height, idx)[0] = Begun
         /\ \A n \in 1 .. Steps(tx) :
              Work(rec, tx, height, idx)[n]
                = Advance(rec, tx, height, idx, Work(rec, tx, height, idx)[n - 1], n)
<1> DEFINE Solves(g, m) ==
             g = [n \in 0 .. m |->
                    IF n = 0 THEN Begun ELSE Advance(rec, tx, height, idx, g[n - 1], n)]
           Bad == {m \in Nat : ~ \E g : Solves(g, m)}
<1>1. ASSUME Bad # {}
      PROVE  FALSE
  <2> DEFINE m == Min(Bad)
  <2>1. m \in Nat /\ m \in Bad /\ \A k \in Bad : m <= k
    BY <1>1, MinIsLeast
  <2> HIDE DEF m
  <2>2. CASE m = 0
    <3> DEFINE g == [n \in 0 .. 0 |-> Begun]
    <3>1. Solves(g, 0)
      OBVIOUS
    <3>2. QED
      BY <2>1, <2>2, <3>1
  <2>3. CASE m # 0
    <3>1. m - 1 \in Nat /\ m - 1 \notin Bad
      <4> HIDE DEF Bad
      <4>1. QED
        BY <2>1, <2>3
    <3>2. PICK g : Solves(g, m - 1)
      BY <3>1
    <3> DEFINE h == [n \in 0 .. m |->
                       IF n = 0 THEN Begun ELSE Advance(rec, tx, height, idx, g[n - 1], n)]
    <3>3. ASSUME NEW n \in 0 .. m - 1
          PROVE  h[n] = g[n]
      <4>1. n \in 0 .. m
        BY <2>1
      <4>2. g[n] = IF n = 0 THEN Begun ELSE Advance(rec, tx, height, idx, g[n - 1], n)
        BY <3>2
      <4>3. QED
        BY <4>1, <4>2
    <3>4. ASSUME NEW n \in 0 .. m, n # 0
          PROVE  h[n - 1] = g[n - 1]
      <4>1. n - 1 \in 0 .. m - 1
        BY <2>1, <3>4
      <4>2. QED
        BY <3>3, <4>1
    <3>5. Solves(h, m)
      BY <3>4
    <3>6. QED
      BY <2>1, <3>5
  <2>4. QED
    BY <2>2, <2>3
<1>2. \E g : Solves(g, Steps(tx))
  BY <1>1
<1>3. Work(rec, tx, height, idx) = CHOOSE g : Solves(g, Steps(tx))
  BY DEF Work
<1>4. Solves(Work(rec, tx, height, idx), Steps(tx))
  BY <1>2, <1>3
<1> DEFINE work == Work(rec, tx, height, idx)
<1> HIDE DEF work
<1>5. work = [n \in 0 .. Steps(tx) |->
                IF n = 0 THEN Begun ELSE Advance(rec, tx, height, idx, work[n - 1], n)]
  BY <1>4 DEF work
<1>6. QED
  BY <1>5 DEF work

-----------------------------------------------------------------------------
(* One output more, or less, among the live ones.                             *)

LEMMA TotalAdd ==
  ASSUME NEW more, NEW less, NEW S, IsFiniteSet(S), NEW o, o \notin S,
         \A p \in S : AmountAt(more, p) = AmountAt(less, p) /\ AmountAt(less, p) \in Nat,
         AmountAt(more, o) \in Nat
  PROVE  /\ Total(less, S) \in Nat
         /\ Total(more, S) = Total(less, S)
         /\ Total(more, S \cup {o}) = Total(less, S) + AmountAt(more, o)
<1>1. Total(more, S) = Total(less, S)
  BY TotalSame
<1>2. Total(less, S) \in Nat
  BY TotalTake
<1> DEFINE T == S \cup {o}
<1>3. IsFiniteSet(T) /\ o \in T /\ T \ {o} = S
  BY FS_AddElement
<1>4. \A p \in T : AmountAt(more, p) \in Nat
  OBVIOUS
<1> HIDE DEF T
<1>5. Total(more, T) = AmountAt(more, o) + Total(more, T \ {o})
  BY <1>3, <1>4, TotalTake
<1>6. Total(more, T) = AmountAt(more, o) + Total(more, S)
  BY <1>3, <1>5
<1>7. QED
  BY <1>1, <1>2, <1>6 DEF T

\* What is read of a live output.
LEMMA LiveIs ==
  ASSUME NEW rec, RecordsOK(rec)
  PROVE  /\ \A o \in Outpoint : o \in Live(rec) <=> rec[Utxo(o)] \in UtxoRecord
         /\ \A o \in Outpoint : o \notin Live(rec) <=> rec[Utxo(o)] = Absent
         /\ \A o \in Live(rec) : AmountAt(rec, o) \in Nat
<1>1. \A o \in Outpoint : rec[Utxo(o)] \in UtxoRecord \cup {Absent}
  BY DEF RecordsOK
<1>2. Absent \notin UtxoRecord /\ Null \notin UtxoRecord
  BY MarkAssumption
<1>3. \A o \in Outpoint : o \in Live(rec) <=> rec[Utxo(o)] \in UtxoRecord
  BY <1>1, <1>2 DEF Live, Held, Get
<1>4. \A o \in Outpoint : o \notin Live(rec) <=> rec[Utxo(o)] = Absent
  BY <1>1, <1>2, <1>3
<1>5. \A r \in UtxoRecord : r.amount \in Nat
  BY DEF UtxoRecord
<1>6. Live(rec) \in SUBSET Outpoint
  BY DEF Live
<1>7. QED
  BY <1>3, <1>4, <1>5, <1>6 DEF AmountAt

\* One live output more.
LEMMA LiveAdd ==
  ASSUME NEW more, NEW less, RecordsOK(more), RecordsOK(less),
         IsFiniteSet(Live(less)), NEW o \in Outpoint,
         more[Utxo(o)] \in UtxoRecord, less[Utxo(o)] = Absent,
         \A p \in Outpoint : p # o => more[Utxo(p)] = less[Utxo(p)]
  PROVE  /\ Live(more) = Live(less) \cup {o} /\ o \notin Live(less)
         /\ IsFiniteSet(Live(more))
         /\ \A k : /\ Total(less, LiveOf(less, k)) \in Nat
                   /\ Total(more, LiveOf(more, k)) =
                        Total(less, LiveOf(less, k))
                          + IF more[Utxo(o)].tokenKey = k THEN AmountAt(more, o) ELSE 0
         /\ \A w, k : /\ Total(less, LivePaid(less, w, k)) \in Nat
                      /\ Total(more, LivePaid(more, w, k)) =
                           Total(less, LivePaid(less, w, k))
                             + IF more[Utxo(o)].tokenKey = k /\ more[Utxo(o)].owner = w
                               THEN AmountAt(more, o) ELSE 0
<1>1. o \in Live(more) /\ o \notin Live(less) /\ AmountAt(more, o) \in Nat
  BY LiveIs
<1>2. \A p \in Outpoint : p # o => (p \in Live(more) <=> p \in Live(less))
  BY LiveIs
<1>3. Live(more) \in SUBSET Outpoint /\ Live(less) \in SUBSET Outpoint
  BY DEF Live
<1>4. Live(more) = Live(less) \cup {o}
  BY <1>1, <1>2, <1>3
<1>5. \A p \in Live(less) : /\ p # o /\ p \in Outpoint
                            /\ more[Utxo(p)] = less[Utxo(p)]
                            /\ AmountAt(more, p) = AmountAt(less, p)
                            /\ AmountAt(less, p) \in Nat
  BY <1>1, <1>3, LiveIs DEF AmountAt
<1>6. ASSUME NEW S \in SUBSET Live(less)
      PROVE  /\ Total(less, S) \in Nat
             /\ Total(more, S) = Total(less, S)
             /\ Total(more, S \cup {o}) = Total(less, S) + AmountAt(more, o)
  <2>1. IsFiniteSet(S) /\ o \notin S
    BY <1>5, FS_Subset
  <2>2. \A p \in S : AmountAt(more, p) = AmountAt(less, p) /\ AmountAt(less, p) \in Nat
    BY <1>5
  <2>3. QED
    BY <1>1, <2>1, <2>2, TotalAdd
<1>7. ASSUME NEW k
      PROVE  /\ Total(less, LiveOf(less, k)) \in Nat
             /\ Total(more, LiveOf(more, k)) =
                  Total(less, LiveOf(less, k))
                    + IF more[Utxo(o)].tokenKey = k THEN AmountAt(more, o) ELSE 0
  <2>1. LiveOf(less, k) \in SUBSET Live(less)
    BY DEF LiveOf
  <2>2. LiveOf(more, k) = LiveOf(less, k) \cup {p \in {o} : more[Utxo(o)].tokenKey = k}
    BY <1>4, <1>5 DEF LiveOf
  <2>3. CASE more[Utxo(o)].tokenKey = k
    <3>1. LiveOf(more, k) = LiveOf(less, k) \cup {o}
      BY <2>2, <2>3
    <3>2. QED
      BY <1>6, <2>1, <2>3, <3>1
  <2>4. CASE more[Utxo(o)].tokenKey # k
    <3>1. LiveOf(more, k) = LiveOf(less, k)
      BY <2>2, <2>4
    <3>2. /\ Total(less, LiveOf(less, k)) \in Nat
          /\ Total(more, LiveOf(more, k)) = Total(less, LiveOf(less, k))
      BY <1>6, <2>1, <3>1
    <3>3. \A n \in Nat : n + 0 = n
      OBVIOUS
    <3>4. QED
      BY <2>4, <3>2, <3>3
  <2>5. QED
    BY <2>3, <2>4
<1>8. ASSUME NEW w, NEW k
      PROVE  /\ Total(less, LivePaid(less, w, k)) \in Nat
             /\ Total(more, LivePaid(more, w, k)) =
                  Total(less, LivePaid(less, w, k))
                    + IF more[Utxo(o)].tokenKey = k /\ more[Utxo(o)].owner = w
                      THEN AmountAt(more, o) ELSE 0
  <2> DEFINE Fits == more[Utxo(o)].tokenKey = k /\ more[Utxo(o)].owner = w
  <2>1. LivePaid(less, w, k) \in SUBSET Live(less)
    BY DEF LivePaid, LiveOf
  <2>2. LivePaid(more, w, k) = LivePaid(less, w, k) \cup {p \in {o} : Fits}
    BY <1>4, <1>5 DEF LivePaid, LiveOf
  <2>3. CASE Fits
    <3>1. LivePaid(more, w, k) = LivePaid(less, w, k) \cup {o}
      BY <2>2, <2>3
    <3>2. QED
      BY <1>6, <2>1, <2>3, <3>1
  <2>4. CASE ~ Fits
    <3>1. LivePaid(more, w, k) = LivePaid(less, w, k)
      BY <2>2, <2>4
    <3>2. /\ Total(less, LivePaid(less, w, k)) \in Nat
          /\ Total(more, LivePaid(more, w, k)) = Total(less, LivePaid(less, w, k))
      BY <1>6, <2>1, <3>1
    <3>3. \A n \in Nat : n + 0 = n
      OBVIOUS
    <3>4. QED
      BY <2>4, <3>2, <3>3
  <2>5. QED
    BY <2>3, <2>4
<1>9. IsFiniteSet(Live(more))
  BY <1>4, FS_AddElement
<1>10. QED
  BY <1>1, <1>4, <1>7, <1>8, <1>9

\* The same live outputs: the same totals.
LEMMA LiveSame ==
  ASSUME NEW one, NEW other, RecordsOK(one), RecordsOK(other), IsFiniteSet(Live(one)),
         \A p \in Outpoint : one[Utxo(p)] = other[Utxo(p)]
  PROVE  /\ Live(one) = Live(other)
         /\ \A k : Total(other, LiveOf(other, k)) = Total(one, LiveOf(one, k))
         /\ \A w, k : Total(other, LivePaid(other, w, k)) = Total(one, LivePaid(one, w, k))
<1>1. Live(one) = Live(other) /\ Live(one) \in SUBSET Outpoint
  BY DEF Live, Held, Get
<1>2. ASSUME NEW S \in SUBSET Live(one)
      PROVE  Total(other, S) = Total(one, S)
  <2>1. IsFiniteSet(S)
    BY FS_Subset
  <2>2. \A p \in S : AmountAt(other, p) = AmountAt(one, p)
    BY <1>1 DEF AmountAt
  <2>3. QED
    BY <2>1, <2>2, TotalSame
<1>3. ASSUME NEW k
      PROVE  LiveOf(one, k) = LiveOf(other, k) /\ LiveOf(one, k) \in SUBSET Live(one)
  BY <1>1 DEF LiveOf
<1>4. ASSUME NEW w, NEW k
      PROVE  /\ LivePaid(one, w, k) = LivePaid(other, w, k)
             /\ LivePaid(one, w, k) \in SUBSET Live(one)
  BY <1>1, <1>3 DEF LivePaid
<1>5. QED
  BY <1>1, <1>2, <1>3, <1>4

\* Totals are numbers.
LEMMA TotalsAre ==
  ASSUME NEW rec, RecordsOK(rec), IsFiniteSet(Live(rec))
  PROVE  /\ \A k : Total(rec, LiveOf(rec, k)) \in Nat
         /\ \A w, k : Total(rec, LivePaid(rec, w, k)) \in Nat
<1>1. ASSUME NEW S \in SUBSET Live(rec)
      PROVE  Total(rec, S) \in Nat
  <2>1. IsFiniteSet(S)
    BY FS_Subset
  <2>2. \A p \in S : AmountAt(rec, p) \in Nat
    BY LiveIs
  <2>3. QED
    BY <2>1, <2>2, TotalTake
<1>2. QED
  BY <1>1 DEF LivePaid, LiveOf

-----------------------------------------------------------------------------
(* What an accepted output writes.                                            *)

Transaction == [id : TxId, inputs : Seq(Outpoint), outputs : Outputs]

LEMMA OutputIs ==
  ASSUME NEW tx \in Transaction, NEW v \in TokenOutputs(tx),
         NEW doc, doc = tx.outputs[v],
         NEW outpoint, outpoint = <<tx.id, v>>
  PROVE  /\ doc \in Document
         /\ outpoint \in Outpoint
         /\ v \in 1 .. Len(tx.outputs) /\ Len(tx.outputs) \in Nat
         /\ KeyOf(doc, outpoint) \in TokenKey
         /\ doc.wellFormed /\ doc.op \in {"mint", "burn", "deploy+mint"} => doc.amount \in Nat
         /\ doc.max # None => doc.op = "deploy"
<1>1. tx.id \in TxId /\ tx.outputs \in Outputs
  BY DEF Transaction
<1>2. v \in DOMAIN tx.outputs /\ doc # NoToken /\ KeyOf(doc, outpoint) # NoKey
  BY DEF TokenOutputs
<1>3. tx.outputs \in Seq(Document \cup {NoToken})
  BY <1>1, DocumentAssumption
<1>4. doc \in Document
  BY <1>2, <1>3
<1>5. /\ doc.wellFormed /\ doc.op \in {"mint", "burn", "deploy+mint"} => doc.amount \in Nat
      /\ doc.max # None => doc.op = "deploy"
  BY <1>1, <1>2, DocumentAssumption
<1>6. outpoint \in Outpoint
  BY <1>1, <1>2 DEF Outpoint
<1>7. v \in 1 .. Len(tx.outputs) /\ Len(tx.outputs) \in Nat
  BY <1>2, <1>3
<1>8. /\ doc.tick \in Tick \cup {NoKey} /\ doc.id \in Outpoint \cup {NoKey}
      /\ doc.standard \in {"BSV-20", "BSV-21", "unknown"}
  BY <1>4 DEF Document
<1>9. KeyOf(doc, outpoint) \in TokenKey
  BY <1>2, <1>6, <1>8 DEF KeyOf, TokenKey
<1>10. QED
  BY <1>4, <1>5, <1>6, <1>7, <1>9

\* The record of a token is there or not; a null counts for nothing.
LEMMA RecordIs ==
  ASSUME NEW rec, RecordsOK(rec), NEW k \in TokenKey
  PROVE  /\ Get(rec, Token(k)) \in TokenRecord \cup {Absent}
         /\ Held(rec, Token(k)) <=> Get(rec, Token(k)) \in TokenRecord
         /\ Held(rec, Token(k)) => rec[Token(k)] = Get(rec, Token(k))
<1>1. rec[Token(k)] \in TokenRecord \cup {Absent, Null}
  BY DEF RecordsOK
<1>2. Absent \notin TokenRecord /\ Null \notin TokenRecord
  BY MarkAssumption
<1>3. QED
  BY <1>1, <1>2 DEF Get, Held

\* An accepted output: its amount and what it draws, and the record it leaves.
AcceptedAs(doc, record, after, amount, drawn) ==
  /\ amount \in Nat /\ drawn \in Nat
  /\ doc.owner \in Owner \cup {NoOwner}
  /\ IsDeploy(doc) =>
       /\ record = Absent /\ drawn = 0
       /\ after \in TokenRecord
       /\ after.supply = amount /\ after.burned = 0
       /\ after.max # None => after.supply <= after.max
  /\ doc.op = "mint" =>
       /\ record \in TokenRecord /\ drawn = 0
       /\ after \in TokenRecord /\ Continues(record, after)
       /\ after.supply = record.supply + amount
       /\ after.burned = record.burned
       /\ after.max # None => after.supply <= after.max
  /\ doc.op = "burn" =>
       /\ amount = 0
       /\ record = Absent => after = Null
       /\ record # Absent =>
            /\ after \in TokenRecord /\ Continues(record, after)
            /\ after.supply = record.supply
            /\ after.burned = record.burned + drawn
  /\ ~ Issues(doc) => amount = drawn

LEMMA AcceptedIs ==
  ASSUME NEW tx \in Transaction, NEW v \in TokenOutputs(tx),
         NEW doc, doc = tx.outputs[v],
         NEW outpoint, outpoint = <<tx.id, v>>,
         NEW key, key = KeyOf(doc, outpoint),
         NEW record \in TokenRecord \cup {Absent},
         NEW authorities, NEW remaining \in Nat,
         NEW height \in Nat, NEW idx \in Nat,
         Accepted(doc, record, key \in authorities, remaining),
         NEW after, after = TokenAfter(doc, record, key, outpoint, height, idx)
  PROVE  /\ Drawn(doc) <= remaining
         /\ AcceptedAs(doc, record, after, Amount(doc, record), Drawn(doc))
<1>1. /\ doc \in Document /\ outpoint \in Outpoint /\ key \in TokenKey
      /\ doc.wellFormed /\ doc.op \in {"mint", "burn", "deploy+mint"} => doc.amount \in Nat
      /\ doc.max # None => doc.op = "deploy"
  BY OutputIs
<1>2. /\ doc.amount \in Nat \cup {None} /\ doc.max \in Nat \cup {None}
      /\ doc.limit \in Nat \cup {None} /\ doc.owner \in Owner \cup {NoOwner}
  BY <1>1 DEF Document
<1>3. doc.wellFormed
  BY DEF Accepted
<1>4. Big(doc.amount) \in Nat /\ (doc.amount \in Nat => Big(doc.amount) = doc.amount)
  BY <1>2, MarkAssumption DEF Big
<1>5. Drawn(doc) \in Nat /\ Drawn(doc) <= remaining
  <2>1. CASE IsDeploy(doc) \/ doc.op = "mint"
    BY <2>1 DEF Drawn
  <2>2. CASE ~ (IsDeploy(doc) \/ doc.op = "mint")
    BY <1>4, <2>2 DEF Drawn, Accepted
  <2>3. QED
    BY <2>1, <2>2
<1>6. Absent \notin TokenRecord
  BY MarkAssumption
<1>7. CASE IsDeploy(doc)
  <2>1. record = Absent /\ Drawn(doc) = 0 /\ doc.op # "mint" /\ doc.op # "burn"
    BY <1>7 DEF Accepted, Drawn, IsDeploy
  <2>2. Amount(doc, record) \in Nat /\ (doc.op = "deploy" => Amount(doc, record) = 0)
    BY <1>1, <1>3, <1>7 DEF Amount, IsDeploy
  <2>3. after = [tokenKey |-> key, deployOutpoint |-> outpoint, max |-> doc.max,
                 limit |-> doc.limit, supply |-> Amount(doc, record),
                 burned |-> 0, height |-> height, idx |-> idx]
    <3>1. ~ (doc.op = "mint")
      BY <2>1
    <3>2. QED
      BY <1>7, <3>1, Zenon DEF TokenAfter
  <2>4. after \in TokenRecord
    BY <1>1, <1>2, <2>2, <2>3 DEF TokenRecord
  <2>5. after.max # None => after.supply <= after.max
    BY <1>1, <1>2, <2>2, <2>3
  <2>6. Issues(doc)
    BY <1>7 DEF Issues
  <2>7. QED
    BY <1>2, <1>5, <1>7, <2>1, <2>2, <2>3, <2>4, <2>5, <2>6 DEF AcceptedAs
<1>8. CASE ~ IsDeploy(doc) /\ doc.op = "mint"
  <2>1. record \in TokenRecord /\ Drawn(doc) = 0 /\ doc.amount \in Nat
    BY <1>1, <1>3, <1>8 DEF Accepted, Mintable, Drawn
  <2>2. /\ record.supply \in Nat /\ record.burned \in Nat
        /\ record.max \in Nat \cup {None}
    BY <2>1 DEF TokenRecord
  <2>3. Amount(doc, record) = Filled(doc, record)
    BY <1>8 DEF Amount
  <2>4. /\ Filled(doc, record) \in Nat
        /\ record.max # None => record.supply + Filled(doc, record) <= record.max
    <3>1. CASE record.max = None
      BY <2>1, <3>1 DEF Filled
    <3>2. CASE record.max # None
      <4>1. record.max \in Nat /\ record.supply < record.max
        BY <1>8, <2>2, <3>2 DEF Accepted, Mintable
      <4> DEFINE room == record.max - record.supply
      <4>2. room \in Nat
        BY <2>2, <4>1
      <4>3. Filled(doc, record) = Min({doc.amount, room})
        BY <3>2 DEF Filled
      <4> HIDE DEF room
      <4>4. {doc.amount, room} \in SUBSET Nat
        BY <2>1, <4>2
      <4>5. /\ Filled(doc, record) \in {doc.amount, room}
            /\ Filled(doc, record) <= room
        BY <4>3, <4>4, MinIsLeast
      <4>6. QED
        BY <2>1, <2>2, <4>1, <4>2, <4>5 DEF room
    <3>3. QED
      BY <3>1, <3>2
  <2>5. after = [record EXCEPT !.supply = @ + Filled(doc, record)]
    BY <1>8 DEF TokenAfter
  <2>6. /\ after \in TokenRecord
        /\ after.supply = record.supply + Filled(doc, record)
        /\ after.burned = record.burned /\ after.max = record.max
        /\ after.limit = record.limit /\ after.deployOutpoint = record.deployOutpoint
    BY <2>1, <2>2, <2>4, <2>5 DEF TokenRecord
  <2>7. Continues(record, after)
    BY <2>2, <2>4, <2>6 DEF Continues
  <2>8. Issues(doc) /\ doc.op # "burn"
    BY <1>8 DEF Issues
  <2>9. QED
    <3>1. after.max # None => after.supply <= after.max
      BY <2>4, <2>6
    <3>2. record # Absent
      BY <1>6, <2>1
    <3> HIDE DEF Issues
    <3>3. QED
      BY <1>2, <1>5, <1>8, <2>1, <2>3, <2>4, <2>6, <2>7, <2>8, <3>1, <3>2 DEF AcceptedAs
<1>9. CASE ~ IsDeploy(doc) /\ doc.op = "burn"
  <2>1. Amount(doc, record) = 0 /\ Issues(doc) /\ doc.op # "mint"
    BY <1>9 DEF Amount, Issues
  <2>2. Drawn(doc) = doc.amount /\ doc.amount \in Nat
    BY <1>1, <1>3, <1>4, <1>9 DEF Drawn
  <2>3. after = IF record = Absent THEN Null ELSE [record EXCEPT !.burned = @ + doc.amount]
    BY <1>9, <2>1 DEF TokenAfter
  <2>4. ASSUME record # Absent
        PROVE  /\ after \in TokenRecord /\ Continues(record, after)
               /\ after.supply = record.supply
               /\ after.burned = record.burned + Drawn(doc)
    <3>1. record \in TokenRecord /\ record.supply \in Nat /\ record.burned \in Nat
      BY <2>4 DEF TokenRecord
    <3>2. after = [record EXCEPT !.burned = @ + doc.amount]
      BY <2>3, <2>4
    <3>3. /\ after \in TokenRecord
          /\ after.burned = record.burned + doc.amount
          /\ after.supply = record.supply /\ after.max = record.max
          /\ after.limit = record.limit /\ after.deployOutpoint = record.deployOutpoint
      BY <2>2, <3>1, <3>2 DEF TokenRecord
    <3>4. QED
      BY <2>2, <3>1, <3>3 DEF Continues
  <2>5. QED
    BY <1>2, <1>5, <1>9, <2>1, <2>3, <2>4 DEF AcceptedAs
<1>10. CASE ~ Issues(doc)
  <2>1. ~ IsDeploy(doc) /\ doc.op # "mint" /\ doc.op # "burn"
    BY <1>10 DEF Issues
  <2>2. doc.op \notin {"deploy+mint", "deploy", "deploy+auth"}
    BY <2>1 DEF IsDeploy
  <2>3. Amount(doc, record) = Big(doc.amount) /\ Drawn(doc) = Big(doc.amount)
    BY <2>1, <2>2 DEF Amount, Drawn
  <2>4. QED
    BY <1>2, <1>4, <1>5, <1>10, <2>1, <2>3 DEF AcceptedAs
<1>11. QED
  BY <1>7, <1>8, <1>9, <1>10 DEF Issues

-----------------------------------------------------------------------------
(* Midway through a transaction: cur is what the store would hold if the       *)
(* writes so far were applied and nothing else.                               *)

Write == [key : Key,
          value : UtxoRecord \cup TokenRecord \cup [txid : TxId] \cup [amount : Nat]
                    \cup {Absent, Null}]
Holding == Owner \X TokenKey
WorkState ==
  [writes : Seq(Write), staged : Maps(Holding), remaining : Maps(TokenKey),
   authorised : SUBSET TokenKey]

\* The inputs used, and the outputs looked at, after n steps.
Used(tx, n) == {tx.inputs[i] : i \in {j \in DOMAIN tx.inputs : j <= n}}
Looked(tx, n) == {v \in DOMAIN tx.outputs : Len(tx.inputs) + v <= n}

InputsGone(rec, tx, n, cur) ==
  \A o \in Outpoint :
    /\ o[1] # tx.id =>
         cur[Utxo(o)] = IF o \in Used(tx, n) THEN Absent ELSE rec[Utxo(o)]
    /\ cur[Spend(o)] = IF o \in Used(tx, n) /\ Held(rec, Utxo(o))
                       THEN [txid |-> tx.id] ELSE rec[Spend(o)]
OutputsMade(tx, n, cur) == \A o \in Live(cur) : o[1] = tx.id => o[2] \in Looked(tx, n)
TokensStand(rec, tx, n, cur) ==
  \A k \in TokenKey :
    /\ Held(rec, Token(k)) =>
         Held(cur, Token(k)) /\ Continues(rec[Token(k)], cur[Token(k)])
    /\ Issuing(tx, k) \cap Looked(tx, n) = {} => cur[Token(k)] = rec[Token(k)]
BalancesStaged(rec, st, cur) ==
  \A w \in Owner, k \in TokenKey :
    /\ cur[Balance(w, k)] = rec[Balance(w, k)]
    /\ Current(rec, st, w, k) = Total(cur, LivePaid(cur, w, k))
SupplyKept(rec, tx, st, cur) ==
  \A k \in TokenKey :
    Accounted(Get(rec, Token(k)), Total(rec, LiveOf(rec, k))) /\ ~ Batches(tx, k)
      => Accounted(Get(cur, Token(k)), Total(cur, LiveOf(cur, k)) + Left(st, k))

Midway(rec, tx, n, st, cur) ==
  /\ st \in WorkState /\ IsFiniteSet(DOMAIN st.staged)
  /\ cur = Apply(rec, st.writes)
  /\ RecordsOK(cur) /\ IsFiniteSet(Live(cur))
  /\ InputsGone(rec, tx, n, cur) /\ OutputsMade(tx, n, cur)
  /\ TokensStand(rec, tx, n, cur)
  /\ BalancesStaged(rec, st, cur)
  /\ SupplyKept(rec, tx, st, cur)

\* What holds before a transaction is worked through.
Applicable(rec, tx) ==
  /\ RecordsOK(rec) /\ IsFiniteSet(Live(rec))
  /\ tx \in Transaction /\ IsInjective(tx.inputs)
  /\ \A o \in Ins(tx) \cup Live(rec) : o[1] # tx.id
  /\ \A w \in Owner, k \in TokenKey :
       Stored(rec, w, k) = Total(rec, LivePaid(rec, w, k))

LEMMA TransactionIs ==
  ASSUME NEW tx \in Transaction
  PROVE  /\ tx.id \in TxId /\ tx.id \in Nat
         /\ tx.inputs \in Seq(Outpoint) /\ Len(tx.inputs) \in Nat
         /\ DOMAIN tx.inputs = 1 .. Len(tx.inputs)
         /\ \A i \in 1 .. Len(tx.inputs) : tx.inputs[i] \in Outpoint /\ tx.inputs[i] \in Ins(tx)
         /\ Len(tx.outputs) \in Nat /\ DOMAIN tx.outputs = 1 .. Len(tx.outputs)
         /\ Steps(tx) \in Nat
<1>1. /\ tx.id \in TxId /\ tx.inputs \in Seq(Outpoint) /\ tx.outputs \in Outputs
  BY DEF Transaction
<1>2. tx.id \in Nat
  BY <1>1, BoundAssumption DEF TxId
<1>3. tx.outputs \in Seq(Document \cup {NoToken})
  BY <1>1, DocumentAssumption
<1>4. /\ Len(tx.inputs) \in Nat /\ DOMAIN tx.inputs = 1 .. Len(tx.inputs)
      /\ Len(tx.outputs) \in Nat /\ DOMAIN tx.outputs = 1 .. Len(tx.outputs)
  BY <1>1, <1>3
<1>5. \A i \in 1 .. Len(tx.inputs) : tx.inputs[i] \in Outpoint /\ tx.inputs[i] \in Ins(tx)
  BY <1>1, <1>4 DEF Ins, ToSet
<1>6. Steps(tx) \in Nat
  <2>1. \A a, b \in Nat : a + b \in Nat
    OBVIOUS
  <2>2. Len(tx.inputs) \in Nat /\ Len(tx.outputs) \in Nat
    BY <1>4
  <2>3. QED
    BY <2>1, <2>2 DEF Steps
<1>7. QED
  BY <1>1, <1>2, <1>4, <1>5, <1>6

\* What is staged for an owner, or stored, is a number.
LEMMA CurrentIs ==
  ASSUME NEW rec, RecordsOK(rec), NEW st \in WorkState,
         NEW w \in Owner, NEW k \in TokenKey
  PROVE  Stored(rec, w, k) \in Nat /\ Current(rec, st, w, k) \in Nat
<1>1. rec[Balance(w, k)] \in [amount : Nat] \cup {Absent}
  BY DEF RecordsOK
<1>2. Absent \notin [amount : Nat] /\ Null \notin [amount : Nat]
  BY MarkAssumption
<1>3. Stored(rec, w, k) \in Nat
  BY <1>1, <1>2 DEF Stored, Held, Get
<1>4. st.staged \in Maps(Holding)
  BY DEF WorkState
<1>5. \A x \in DOMAIN st.staged : st.staged[x] \in Nat
  BY <1>4, MapIs
<1>6. CASE <<w, k>> \in DOMAIN st.staged
  BY <1>3, <1>5, <1>6 DEF Current
<1>7. CASE <<w, k>> \notin DOMAIN st.staged
  BY <1>3, <1>7 DEF Current
<1>8. QED
  BY <1>6, <1>7

\* A balance is moved by what was added or taken, but never below zero, and
\* nothing else is touched.
Moved(rec, st, next, owner, key, delta) ==
  /\ next \in WorkState /\ IsFiniteSet(DOMAIN next.staged)
  /\ next.writes = st.writes /\ next.remaining = st.remaining
  /\ next.authorised = st.authorised
  /\ \A w \in Owner, k \in TokenKey :
       Current(rec, next, w, k) =
         IF w = owner /\ k = key
         THEN IF Current(rec, st, w, k) + delta >= 0
              THEN Current(rec, st, w, k) + delta ELSE 0
         ELSE Current(rec, st, w, k)

LEMMA AdjustIs ==
  ASSUME NEW rec, RecordsOK(rec), NEW st \in WorkState, IsFiniteSet(DOMAIN st.staged),
         NEW owner \in Owner \cup {NoOwner}, NEW key \in TokenKey, NEW delta \in Int,
         NEW next, next = Adjust(rec, st, owner, key, delta)
  PROVE  Moved(rec, st, next, owner, key, delta)
<1>1. NoOwner \notin Owner
  BY MarkAssumption
<1>2. \A w \in Owner, k \in TokenKey : Current(rec, st, w, k) \in Nat
  BY CurrentIs
<1>3. CASE owner = NoOwner
  <2>1. next = st
    BY <1>3 DEF Adjust
  <2>2. \A w \in Owner : w # owner
    BY <1>1, <1>3
  <2>3. QED
    BY <2>1, <2>2 DEF Moved
<1>4. CASE owner # NoOwner /\ delta = 0
  <2>1. next = st
    BY <1>4 DEF Adjust
  <2>2. \A c \in Nat : c + delta >= 0 /\ c + delta = c
    BY <1>4
  <2>3. QED
    BY <1>2, <2>1, <2>2 DEF Moved
<1>5. CASE owner # NoOwner /\ delta # 0
  <2> DEFINE moved == Max({Current(rec, st, owner, key) + delta, 0})
             at == <<owner, key>>
             staged == Put(st.staged, at, moved)
  <2>1. owner \in Owner /\ at \in Holding
    BY <1>5 DEF Holding
  <2>2. moved = (IF Current(rec, st, owner, key) + delta >= 0
                 THEN Current(rec, st, owner, key) + delta ELSE 0)
        /\ moved \in Nat
    <3>1. Current(rec, st, owner, key) + delta \in Int
      BY <1>2, <2>1
    <3>2. QED
      BY <3>1, MaxOfTwo
  <2>3. next = [st EXCEPT !.staged = staged]
    BY <1>5 DEF Adjust
  <2>4. st.staged \in Maps(Holding)
    BY DEF WorkState
  <2> HIDE DEF moved, at
  <2>5. /\ staged \in Maps(Holding)
        /\ DOMAIN staged = DOMAIN st.staged \cup {at}
        /\ staged[at] = moved
        /\ \A x \in DOMAIN st.staged : x # at => staged[x] = st.staged[x]
    <3> HIDE DEF staged
    <3>1. staged = Put(st.staged, at, moved)
      BY DEF staged
    <3>2. Put(st.staged, at, moved) \in Maps(Holding)
      BY <2>1, <2>2, <2>4, PutIs
    <3>3. /\ DOMAIN staged = DOMAIN st.staged \cup {at}
          /\ staged[at] = moved
          /\ \A x \in DOMAIN st.staged : x # at => staged[x] = st.staged[x]
      BY <3>1 DEF Put
    <3>4. QED
      BY <3>1, <3>2, <3>3
  <2> HIDE DEF staged
  <2>6. /\ next \in WorkState /\ next.staged = staged
        /\ next.writes = st.writes /\ next.remaining = st.remaining
        /\ next.authorised = st.authorised
    BY <2>3, <2>5 DEF WorkState
  <2>7. IsFiniteSet(DOMAIN next.staged)
    BY <2>5, <2>6, FS_AddElement
  <2>8. ASSUME NEW w \in Owner, NEW k \in TokenKey
        PROVE  Current(rec, next, w, k) =
                 IF w = owner /\ k = key
                 THEN IF Current(rec, st, w, k) + delta >= 0
                      THEN Current(rec, st, w, k) + delta ELSE 0
                 ELSE Current(rec, st, w, k)
    <3>1. CASE w = owner /\ k = key
      <4>1. <<w, k>> = at /\ at \in DOMAIN next.staged
        BY <2>5, <2>6, <3>1 DEF at
      <4>2. Current(rec, next, w, k) = moved
        BY <2>5, <2>6, <4>1 DEF Current
      <4>3. QED
        BY <2>2, <3>1, <4>2
    <3>2. CASE ~ (w = owner /\ k = key)
      <4>1. <<w, k>> # at
        BY <3>2 DEF at
      <4>2. <<w, k>> \in DOMAIN next.staged <=> <<w, k>> \in DOMAIN st.staged
        BY <2>5, <2>6, <4>1
      <4>3. Current(rec, next, w, k) = Current(rec, st, w, k)
        BY <2>5, <2>6, <4>1, <4>2 DEF Current
      <4>4. QED
        BY <3>2, <4>3
    <3>3. QED
      BY <3>1, <3>2
  <2>9. QED
    BY <2>6, <2>7, <2>8, Zenon DEF Moved
<1>6. QED
  BY <1>3, <1>4, <1>5

-----------------------------------------------------------------------------
(* The writes of one step, applied to what the writes before it left.         *)

LEMMA KeyIs ==
  /\ \A o \in Outpoint : Utxo(o) \in Key /\ Spend(o) \in Key
  /\ \A k \in TokenKey : Token(k) \in Key
  /\ \A w \in Owner, k \in TokenKey : Balance(w, k) \in Key
BY DEF Key

\* One value replaced in the records.
Replaced(rec, key, value) == [k \in Key |-> IF k = key THEN value ELSE rec[k]]

LEMMA ReplacedIs ==
  ASSUME NEW rec, RecordsOK(rec), NEW key \in Key, NEW value
  PROVE  Apply(rec, <<[key |-> key, value |-> value]>>) = Replaced(rec, key, value)
<1> DEFINE write == [key |-> key, value |-> value]
<1>1. write.key = key /\ write.value = value
  OBVIOUS
<1>2. DOMAIN rec = Key
  BY DEF RecordsOK
<1> HIDE DEF write
<1>3. Apply(rec, <<write>>)
        = [k \in DOMAIN rec |-> IF k = write.key THEN write.value ELSE rec[k]]
  BY ApplyOne
<1>4. QED
  BY <1>1, <1>2, <1>3 DEF Replaced, write

\* A live output noted, or taken away.
LEMMA ReplaceUtxo ==
  ASSUME NEW rec, RecordsOK(rec), NEW o \in Outpoint, NEW value \in UtxoRecord \cup {Absent},
         NEW after, after = Replaced(rec, Utxo(o), value)
  PROVE  /\ RecordsOK(after)
         /\ after[Utxo(o)] = value
         /\ \A p \in Outpoint : p # o => after[Utxo(p)] = rec[Utxo(p)]
         /\ \A p \in Outpoint : after[Spend(p)] = rec[Spend(p)]
         /\ \A k \in TokenKey : after[Token(k)] = rec[Token(k)]
         /\ \A w \in Owner, k \in TokenKey : after[Balance(w, k)] = rec[Balance(w, k)]
<1>1. DOMAIN after = Key
  BY DEF Replaced
<1>2. after[Utxo(o)] = value
  BY KeyIs DEF Replaced
<1>3. \A p \in Outpoint : p # o => after[Utxo(p)] = rec[Utxo(p)]
  BY KeyIs, KeysDiffer DEF Replaced
<1>4. \A p \in Outpoint : after[Spend(p)] = rec[Spend(p)]
  BY KeyIs, KeysDiffer DEF Replaced
<1>5. \A k \in TokenKey : after[Token(k)] = rec[Token(k)]
  BY KeyIs, KeysDiffer DEF Replaced
<1>6. \A w \in Owner, k \in TokenKey : after[Balance(w, k)] = rec[Balance(w, k)]
  BY KeyIs, KeysDiffer DEF Replaced
<1>7. RecordsOK(after)
  <2>1. \A p \in Outpoint : after[Utxo(p)] \in UtxoRecord \cup {Absent}
    BY <1>2, <1>3 DEF RecordsOK
  <2>2. \A p \in Outpoint : after[Spend(p)] \in [txid : TxId] \cup {Absent}
    BY <1>4 DEF RecordsOK
  <2>3. QED
    BY <1>1, <1>5, <1>6, <2>1, <2>2 DEF RecordsOK
<1>8. QED
  BY <1>2, <1>3, <1>4, <1>5, <1>6, <1>7

\* A spend noted.
LEMMA ReplaceSpend ==
  ASSUME NEW rec, RecordsOK(rec), NEW o \in Outpoint, NEW value \in [txid : TxId],
         NEW after, after = Replaced(rec, Spend(o), value)
  PROVE  /\ RecordsOK(after)
         /\ after[Spend(o)] = value
         /\ \A p \in Outpoint : p # o => after[Spend(p)] = rec[Spend(p)]
         /\ \A p \in Outpoint : after[Utxo(p)] = rec[Utxo(p)]
         /\ \A k \in TokenKey : after[Token(k)] = rec[Token(k)]
         /\ \A w \in Owner, k \in TokenKey : after[Balance(w, k)] = rec[Balance(w, k)]
<1>1. DOMAIN after = Key
  BY DEF Replaced
<1>2. after[Spend(o)] = value
  BY KeyIs DEF Replaced
<1>3. \A p \in Outpoint : p # o => after[Spend(p)] = rec[Spend(p)]
  BY KeyIs, KeysDiffer DEF Replaced
<1>4. \A p \in Outpoint : after[Utxo(p)] = rec[Utxo(p)]
  BY KeyIs, KeysDiffer DEF Replaced
<1>5. \A k \in TokenKey : after[Token(k)] = rec[Token(k)]
  BY KeyIs, KeysDiffer DEF Replaced
<1>6. \A w \in Owner, k \in TokenKey : after[Balance(w, k)] = rec[Balance(w, k)]
  BY KeyIs, KeysDiffer DEF Replaced
<1>7. RecordsOK(after)
  <2>1. \A p \in Outpoint : after[Spend(p)] \in [txid : TxId] \cup {Absent}
    BY <1>2, <1>3 DEF RecordsOK
  <2>2. QED
    BY <1>1, <1>4, <1>5, <1>6, <2>1 DEF RecordsOK
<1>8. QED
  BY <1>2, <1>3, <1>4, <1>5, <1>6, <1>7

\* The record of a token replaced.
LEMMA ReplaceToken ==
  ASSUME NEW rec, RecordsOK(rec), NEW key \in TokenKey, NEW value \in TokenRecord \cup {Null},
         NEW after, after = Replaced(rec, Token(key), value)
  PROVE  /\ RecordsOK(after)
         /\ after[Token(key)] = value
         /\ \A k \in TokenKey : k # key => after[Token(k)] = rec[Token(k)]
         /\ \A p \in Outpoint : after[Utxo(p)] = rec[Utxo(p)]
         /\ \A p \in Outpoint : after[Spend(p)] = rec[Spend(p)]
         /\ \A w \in Owner, k \in TokenKey : after[Balance(w, k)] = rec[Balance(w, k)]
<1>1. DOMAIN after = Key
  BY DEF Replaced
<1>2. after[Token(key)] = value
  BY KeyIs DEF Replaced
<1>3. \A k \in TokenKey : k # key => after[Token(k)] = rec[Token(k)]
  BY KeyIs, KeysDiffer DEF Replaced
<1>4. \A p \in Outpoint : after[Utxo(p)] = rec[Utxo(p)]
  BY KeyIs, KeysDiffer DEF Replaced
<1>5. \A p \in Outpoint : after[Spend(p)] = rec[Spend(p)]
  BY KeyIs, KeysDiffer DEF Replaced
<1>6. \A w \in Owner, k \in TokenKey : after[Balance(w, k)] = rec[Balance(w, k)]
  BY KeyIs, KeysDiffer DEF Replaced
<1>7. RecordsOK(after)
  <2>1. \A k \in TokenKey : after[Token(k)] \in TokenRecord \cup {Absent, Null}
    BY <1>2, <1>3 DEF RecordsOK
  <2>2. QED
    BY <1>1, <1>4, <1>5, <1>6, <2>1 DEF RecordsOK
<1>8. QED
  BY <1>2, <1>3, <1>4, <1>5, <1>6, <1>7

\* A spent output: gone from the live ones, and its spend noted.
LEMMA GoneIs ==
  ASSUME NEW rec, RecordsOK(rec), NEW tx \in Transaction, NEW o \in Outpoint,
         NEW after, after = Apply(rec, Gone(tx, o))
  PROVE  /\ Gone(tx, o) \in Seq(Write)
         /\ RecordsOK(after)
         /\ after[Utxo(o)] = Absent
         /\ after[Spend(o)] = [txid |-> tx.id]
         /\ \A p \in Outpoint : p # o => after[Utxo(p)] = rec[Utxo(p)]
         /\ \A p \in Outpoint : p # o => after[Spend(p)] = rec[Spend(p)]
         /\ \A k \in TokenKey : after[Token(k)] = rec[Token(k)]
         /\ \A w \in Owner, k \in TokenKey : after[Balance(w, k)] = rec[Balance(w, k)]
<1> DEFINE one == [key |-> Utxo(o), value |-> Absent]
           two == [key |-> Spend(o), value |-> [txid |-> tx.id]]
           mid == Replaced(rec, Utxo(o), Absent)
<1>1. [txid |-> tx.id] \in [txid : TxId]
  BY DEF Transaction
<1>2. one \in Write /\ two \in Write
  BY <1>1, KeyIs DEF Write
<1>3. Gone(tx, o) = <<one>> \o <<two>>
  BY DEF Gone
<1>4. Apply(rec, <<one>>) = mid
  BY KeyIs, ReplacedIs
<1>5. /\ RecordsOK(mid)
      /\ mid[Utxo(o)] = Absent
      /\ \A p \in Outpoint : p # o => mid[Utxo(p)] = rec[Utxo(p)]
      /\ \A p \in Outpoint : mid[Spend(p)] = rec[Spend(p)]
      /\ \A k \in TokenKey : mid[Token(k)] = rec[Token(k)]
      /\ \A w \in Owner, k \in TokenKey : mid[Balance(w, k)] = rec[Balance(w, k)]
  BY ReplaceUtxo
<1> HIDE DEF mid, one
<1>6. Apply(mid, <<two>>) = Replaced(mid, Spend(o), [txid |-> tx.id])
  BY <1>5, KeyIs, ReplacedIs
<1> HIDE DEF two
<1>7. after = Replaced(mid, Spend(o), [txid |-> tx.id])
  <2> DEFINE first == <<one>>
             second == <<two>>
  <2>1. first \in Seq(Write) /\ second \in Seq(Write)
    BY <1>2
  <2>2. Gone(tx, o) = first \o second /\ Apply(rec, first) = mid
    BY <1>3, <1>4
  <2> HIDE DEF first, second
  <2>3. Apply(rec, first \o second) = Apply(Apply(rec, first), second)
    BY <2>1, ApplyTwice
  <2>4. QED
    BY <1>6, <2>2, <2>3 DEF second
<1>8. /\ RecordsOK(after)
      /\ after[Spend(o)] = [txid |-> tx.id]
      /\ \A p \in Outpoint : p # o => after[Spend(p)] = mid[Spend(p)]
      /\ \A p \in Outpoint : after[Utxo(p)] = mid[Utxo(p)]
      /\ \A k \in TokenKey : after[Token(k)] = mid[Token(k)]
      /\ \A w \in Owner, k \in TokenKey : after[Balance(w, k)] = mid[Balance(w, k)]
  BY <1>1, <1>5, <1>7, ReplaceSpend
<1>9. Gone(tx, o) \in Seq(Write)
  BY <1>2, <1>3
<1>10. QED
  BY <1>5, <1>8, <1>9

-----------------------------------------------------------------------------
(* One input consumed.                                                        *)

LEMMA LeftIs ==
  ASSUME NEW st, st.remaining \in Maps(TokenKey), NEW k
  PROVE  Left(st, k) \in Nat
<1>1. \A x \in DOMAIN st.remaining : st.remaining[x] \in Nat
  BY MapIs
<1>2. QED
  BY <1>1 DEF Left

LEMMA LeftPut ==
  ASSUME NEW st, NEW next, NEW key, NEW value,
         next.remaining = Put(st.remaining, key, value)
  PROVE  \A k : Left(next, k) = IF k = key THEN value ELSE Left(st, k)
BY DEF Left, Put

\* What is accounted for stays so when less circulates.
LEMMA AccountedLess ==
  ASSUME NEW record \in TokenRecord \cup {Absent},
         NEW more \in Nat, NEW less \in Nat, less <= more, Accounted(record, more)
  PROVE  Accounted(record, less)
<1>1. CASE record = Absent
  BY <1>1 DEF Accounted
<1>2. CASE record # Absent
  <2>1. record.burned \in Nat /\ record.supply \in Nat
    BY <1>2 DEF TokenRecord
  <2>2. QED
    BY <1>2, <2>1 DEF Accounted
<1>3. QED
  BY <1>1, <1>2

\* The input that is taken next was not used before.
LEMMA UsedIs ==
  ASSUME NEW tx \in Transaction, IsInjective(tx.inputs),
         NEW n \in 1 .. Len(tx.inputs), NEW o, o = tx.inputs[n]
  PROVE  /\ o \in Outpoint /\ o \in Ins(tx)
         /\ o \notin Used(tx, n - 1)
         /\ Used(tx, n) = Used(tx, n - 1) \cup {o}
         /\ Looked(tx, n) = Looked(tx, n - 1)
<1>1. /\ Len(tx.inputs) \in Nat /\ DOMAIN tx.inputs = 1 .. Len(tx.inputs)
      /\ DOMAIN tx.outputs = 1 .. Len(tx.outputs) /\ Len(tx.outputs) \in Nat
  BY TransactionIs
<1>2. o \in Outpoint /\ o \in Ins(tx)
  BY TransactionIs
<1>3. \A i \in DOMAIN tx.inputs : tx.inputs[i] = o => i = n
  BY <1>1 DEF IsInjective
<1>4. o \notin Used(tx, n - 1)
  <2>1. \A i \in DOMAIN tx.inputs : i <= n - 1 => i # n
    BY <1>1
  <2>2. QED
    BY <1>3, <2>1 DEF Used
<1>5. Used(tx, n) = Used(tx, n - 1) \cup {o}
  <2>1. \A i \in DOMAIN tx.inputs : i <= n <=> i <= n - 1 \/ i = n
    BY <1>1
  <2>2. n \in DOMAIN tx.inputs
    BY <1>1
  <2>3. QED
    BY <2>1, <2>2 DEF Used
<1>6. \A m \in {n, n - 1} : Looked(tx, m) = {}
  <2>1. \A v \in DOMAIN tx.outputs : ~ (Len(tx.inputs) + v <= n) /\ ~ (Len(tx.inputs) + v <= n - 1)
    BY <1>1
  <2>2. QED
    BY <2>1 DEF Looked
<1>7. QED
  BY <1>2, <1>4, <1>5, <1>6

\* An input the store does not hold: nothing is done.
LEMMA ConsumeUnknown ==
  ASSUME NEW rec, NEW tx, Applicable(rec, tx),
         NEW n \in 1 .. Len(tx.inputs), NEW st, NEW cur,
         Midway(rec, tx, n - 1, st, cur), ~ Held(rec, Utxo(tx.inputs[n]))
  PROVE  /\ Consume(rec, tx, st, tx.inputs[n]) = st
         /\ Midway(rec, tx, n, st, cur)
<1> DEFINE o == tx.inputs[n]
<1>1. Consume(rec, tx, st, o) = st
  BY DEF Consume
<1>2. tx \in Transaction /\ IsInjective(tx.inputs) /\ RecordsOK(rec)
  BY DEF Applicable
<1>3. /\ o \in Outpoint /\ o \notin Used(tx, n - 1)
      /\ Used(tx, n) = Used(tx, n - 1) \cup {o}
      /\ Looked(tx, n) = Looked(tx, n - 1)
  BY <1>2, UsedIs
<1>4. rec[Utxo(o)] = Absent
  <2>1. o \notin Live(rec)
    BY DEF Live
  <2>2. QED
    BY <1>2, <1>3, <2>1, LiveIs
<1> HIDE DEF o
<1>5. InputsGone(rec, tx, n, cur)
  <2>1. InputsGone(rec, tx, n - 1, cur)
    BY DEF Midway
  <2>2. ~ Held(rec, Utxo(o))
    BY DEF o
  <2>3. QED
    BY <1>3, <1>4, <2>1, <2>2 DEF InputsGone
<1>6. OutputsMade(tx, n, cur) /\ TokensStand(rec, tx, n, cur)
  BY <1>3 DEF Midway, OutputsMade, TokensStand
<1>7. QED
  BY <1>1, <1>5, <1>6 DEF Midway, o

\* An input the store holds: it is gone, its balance is taken from its owner,
\* and what it carried is left for the outputs.
Consumed(rec, tx, o, st, cur, next, new) ==
  /\ \A p \in Outpoint : p[1] = tx.id => new[Utxo(p)] = cur[Utxo(p)]
  /\ \A k \in TokenKey :
       LET mine == Held(rec, Utxo(o)) /\ rec[Utxo(o)].tokenKey = k
       IN  /\ new[Token(k)] = cur[Token(k)]
           /\ Left(next, k) = Left(st, k) + IF mine THEN Carries(rec[Utxo(o)]) ELSE 0
           /\ k \in next.authorised <=> k \in st.authorised \/ (mine /\ rec[Utxo(o)].authority)

LEMMA ConsumeHeld ==
  ASSUME NEW rec, NEW tx, Applicable(rec, tx),
         NEW n \in 1 .. Len(tx.inputs), NEW st, NEW cur,
         Midway(rec, tx, n - 1, st, cur), Held(rec, Utxo(tx.inputs[n])),
         NEW next, next = Consume(rec, tx, st, tx.inputs[n]),
         NEW new, new = Apply(rec, next.writes)
  PROVE  /\ Midway(rec, tx, n, next, new)
         /\ Consumed(rec, tx, tx.inputs[n], st, cur, next, new)
<1> DEFINE o == tx.inputs[n]
           held == rec[Utxo(o)]
           key == held.tokenKey
           taken == [st EXCEPT
                       !.writes = @ \o Gone(tx, o),
                       !.remaining = Put(@, key, Left(st, key) + Carries(held)),
                       !.authorised = @ \cup {k \in {key} : held.authority}]
<1>1. next = Adjust(rec, taken, held.owner, key, -held.amount)
  BY DEF Consume
<1>2. tx \in Transaction /\ IsInjective(tx.inputs) /\ RecordsOK(rec)
  BY DEF Applicable
<1>3. /\ o \in Outpoint /\ o \in Ins(tx) /\ o \notin Used(tx, n - 1)
      /\ Used(tx, n) = Used(tx, n - 1) \cup {o}
      /\ Looked(tx, n) = Looked(tx, n - 1)
  BY <1>2, UsedIs
<1>4. o[1] # tx.id /\ tx.id \in Nat
  BY <1>2, <1>3, TransactionIs DEF Applicable
<1>5. /\ held \in UtxoRecord /\ key \in TokenKey /\ held.amount \in Nat
      /\ held.owner \in Owner \cup {NoOwner} /\ held.authority \in BOOLEAN
  <2>1. o \in Live(rec)
    BY <1>3 DEF Live
  <2>2. held \in UtxoRecord
    BY <1>2, <1>3, <2>1, LiveIs
  <2>3. QED
    BY <2>2 DEF UtxoRecord
<1>6. Held(rec, Utxo(o))
  OBVIOUS
<1>7. /\ st \in WorkState /\ IsFiniteSet(DOMAIN st.staged)
      /\ cur = Apply(rec, st.writes) /\ RecordsOK(cur) /\ IsFiniteSet(Live(cur))
      /\ InputsGone(rec, tx, n - 1, cur) /\ OutputsMade(tx, n - 1, cur)
      /\ TokensStand(rec, tx, n - 1, cur) /\ BalancesStaged(rec, st, cur)
      /\ SupplyKept(rec, tx, st, cur)
  BY DEF Midway
<1> HIDE DEF o, held, key, taken
<1>8. /\ st.writes \in Seq(Write) /\ st.staged \in Maps(Holding)
      /\ st.remaining \in Maps(TokenKey) /\ st.authorised \in SUBSET TokenKey
  BY <1>7 DEF WorkState
<1>9. Carries(held) \in Nat /\ Carries(held) <= held.amount
  BY <1>5 DEF Carries
<1>10. Gone(tx, o) \in Seq(Write)
  BY <1>2, <1>3, <1>7, GoneIs
<1>11. /\ taken \in WorkState /\ taken.staged = st.staged
       /\ taken.writes = st.writes \o Gone(tx, o)
       /\ taken.remaining = Put(st.remaining, key, Left(st, key) + Carries(held))
       /\ taken.authorised = st.authorised \cup {k \in {key} : held.authority}
  <2>1. st.writes \o Gone(tx, o) \in Seq(Write)
    BY <1>8, <1>10
  <2>2. Left(st, key) + Carries(held) \in Nat
    BY <1>8, <1>9, LeftIs
  <2>3. Put(st.remaining, key, Left(st, key) + Carries(held)) \in Maps(TokenKey)
    BY <1>5, <1>8, <2>2, PutIs
  <2>4. st.authorised \cup {k \in {key} : held.authority} \in SUBSET TokenKey
    BY <1>5, <1>8
  <2>5. QED
    BY <1>7, <2>1, <2>3, <2>4 DEF taken, WorkState
<1>12. /\ next \in WorkState /\ IsFiniteSet(DOMAIN next.staged)
       /\ next.writes = taken.writes /\ next.remaining = taken.remaining
       /\ next.authorised = taken.authorised
       /\ \A w \in Owner, k \in TokenKey :
            Current(rec, next, w, k) =
              IF w = held.owner /\ k = key
              THEN IF Current(rec, taken, w, k) + (-held.amount) >= 0
                   THEN Current(rec, taken, w, k) + (-held.amount) ELSE 0
              ELSE Current(rec, taken, w, k)
  <2>1. -held.amount \in Int
    BY <1>5
  <2>2. IsFiniteSet(DOMAIN taken.staged)
    BY <1>7, <1>11
  <2>3. Moved(rec, taken, next, held.owner, key, -held.amount)
    BY <1>1, <1>2, <1>5, <1>11, <2>1, <2>2, AdjustIs
  <2>4. QED
    BY <2>3 DEF Moved
<1>13. new = Apply(cur, Gone(tx, o))
  BY <1>7, <1>8, <1>10, <1>11, <1>12, ApplyTwice
<1>14. /\ RecordsOK(new)
       /\ new[Utxo(o)] = Absent
       /\ new[Spend(o)] = [txid |-> tx.id]
       /\ \A p \in Outpoint : p # o => new[Utxo(p)] = cur[Utxo(p)]
       /\ \A p \in Outpoint : p # o => new[Spend(p)] = cur[Spend(p)]
       /\ \A k \in TokenKey : new[Token(k)] = cur[Token(k)]
       /\ \A w \in Owner, k \in TokenKey : new[Balance(w, k)] = cur[Balance(w, k)]
  <2>1. tx \in Transaction /\ o \in Outpoint /\ RecordsOK(cur)
    BY <1>2, <1>3, <1>7
  <2>2. QED
    BY SMTT(20), <1>13, <2>1, GoneIs
<1>15. cur[Utxo(o)] = held
  BY <1>3, <1>4, <1>7 DEF InputsGone, held
<1>16. Live(new) \in SUBSET Live(cur) /\ IsFiniteSet(Live(new))
  <2>1. ASSUME NEW p \in Live(new)
        PROVE  p \in Live(cur)
    <3>1. p \in Outpoint
      BY DEF Live
    <3>2. p # o
      BY <1>3, <1>14, <2>1, LiveIs
    <3>3. new[Utxo(p)] = cur[Utxo(p)]
      BY <1>14, <3>1, <3>2
    <3>4. QED
      BY <1>7, <1>14, <3>1, <3>3, LiveIs
  <2>2. QED
    BY <1>7, <2>1, FS_Subset
<1>17. /\ \A k : /\ Total(new, LiveOf(new, k)) \in Nat
                 /\ Total(cur, LiveOf(cur, k)) =
                      Total(new, LiveOf(new, k))
                        + IF cur[Utxo(o)].tokenKey = k THEN AmountAt(cur, o) ELSE 0
       /\ \A w, k : /\ Total(new, LivePaid(new, w, k)) \in Nat
                    /\ Total(cur, LivePaid(cur, w, k)) =
                         Total(new, LivePaid(new, w, k))
                           + IF cur[Utxo(o)].tokenKey = k /\ cur[Utxo(o)].owner = w
                             THEN AmountAt(cur, o) ELSE 0
  <2>1. cur[Utxo(o)] \in UtxoRecord
    BY <1>5, <1>15
  <2>2. \A p \in Outpoint : p # o => cur[Utxo(p)] = new[Utxo(p)]
    BY <1>14
  <2>3. RecordsOK(new) /\ RecordsOK(cur) /\ IsFiniteSet(Live(new)) /\ o \in Outpoint
        /\ new[Utxo(o)] = Absent
    BY <1>3, <1>7, <1>14, <1>16
  <2>4. \A k : /\ Total(new, LiveOf(new, k)) \in Nat
               /\ Total(cur, LiveOf(cur, k)) =
                    Total(new, LiveOf(new, k))
                      + IF cur[Utxo(o)].tokenKey = k THEN AmountAt(cur, o) ELSE 0
    BY <2>1, <2>2, <2>3, SMTT(20), LiveAdd
  <2>5. \A w, k : /\ Total(new, LivePaid(new, w, k)) \in Nat
                  /\ Total(cur, LivePaid(cur, w, k)) =
                       Total(new, LivePaid(new, w, k))
                         + IF cur[Utxo(o)].tokenKey = k /\ cur[Utxo(o)].owner = w
                           THEN AmountAt(cur, o) ELSE 0
    BY <2>1, <2>2, <2>3, SMTT(20), LiveAdd
  <2>6. QED
    BY <2>4, <2>5
<1>18. AmountAt(cur, o) = held.amount
  BY <1>15 DEF AmountAt
<1>19. InputsGone(rec, tx, n, new)
  BY <1>3, <1>4, <1>6, <1>7, <1>14 DEF InputsGone
<1>20. OutputsMade(tx, n, new)
  BY <1>3, <1>7, <1>16 DEF OutputsMade
<1>21. TokensStand(rec, tx, n, new)
  <2>1. \A k \in TokenKey : Held(new, Token(k)) <=> Held(cur, Token(k))
    BY <1>14 DEF Held, Get
  <2>2. QED
    BY <1>3, <1>7, <1>14, <2>1 DEF TokensStand
<1>22. BalancesStaged(rec, next, new)
  <2>1. ASSUME NEW w \in Owner, NEW k \in TokenKey
        PROVE  Current(rec, next, w, k) = Total(new, LivePaid(new, w, k))
    <3> DEFINE t == Total(new, LivePaid(new, w, k))
    <3>1. Current(rec, taken, w, k) = Total(cur, LivePaid(cur, w, k))
      BY <1>7, <1>11 DEF Current, BalancesStaged
    <3>2. t \in Nat
      BY <1>17
    <3>3. CASE w = held.owner /\ k = key
      <4>1. Total(cur, LivePaid(cur, w, k)) = t + held.amount
        BY <1>15, <1>17, <1>18, <3>3 DEF key
      <4>2. Current(rec, next, w, k) =
              IF t + held.amount + (-held.amount) >= 0
              THEN t + held.amount + (-held.amount) ELSE 0
        BY <1>12, <3>1, <3>3, <4>1
      <4> HIDE DEF t
      <4>3. QED
        BY <1>5, <3>2, <4>2 DEF t
    <3>4. CASE ~ (w = held.owner /\ k = key)
      <4>1. Total(cur, LivePaid(cur, w, k)) = t + 0
        BY <1>15, <1>17, <3>4 DEF key
      <4>2. Current(rec, next, w, k) = Total(cur, LivePaid(cur, w, k))
        BY <1>12, <3>1, <3>4
      <4> HIDE DEF t
      <4>3. QED
        BY <3>2, <4>1, <4>2 DEF t
    <3>5. QED
      BY <3>3, <3>4
  <2>2. QED
    BY <1>7, <1>14, <2>1 DEF BalancesStaged
<1>23. SupplyKept(rec, tx, next, new)
  <2>1. ASSUME NEW k \in TokenKey,
               Accounted(Get(rec, Token(k)), Total(rec, LiveOf(rec, k))), ~ Batches(tx, k)
        PROVE  Accounted(Get(new, Token(k)), Total(new, LiveOf(new, k)) + Left(next, k))
    <3> DEFINE t == Total(new, LiveOf(new, k))
               c == Total(cur, LiveOf(cur, k))
               l == Left(st, k)
               m == Left(next, k)
    <3>1. Accounted(Get(cur, Token(k)), c + l)
      BY <1>7, <2>1 DEF SupplyKept
    <3>2. Get(new, Token(k)) = Get(cur, Token(k)) /\ Get(cur, Token(k)) \in TokenRecord \cup {Absent}
      BY <1>7, <1>14, RecordIs DEF Get
    <3>3. t \in Nat /\ l \in Nat
      BY <1>8, <1>17, LeftIs
    <3>4. m = IF k = key THEN Left(st, key) + Carries(held) ELSE l
      <4> DEFINE value == Left(st, key) + Carries(held)
      <4>1. next.remaining = Put(st.remaining, key, value)
        BY <1>11, <1>12
      <4> HIDE DEF value
      <4>2. m = IF k = key THEN value ELSE Left(st, k)
        BY <4>1 DEF Left, Put
      <4>3. QED
        BY <4>2 DEF value
    <3>5. c = t + (IF key = k THEN held.amount ELSE 0)
      BY <1>15, <1>17, <1>18 DEF key
    <3> HIDE DEF t, c, m
    <3>6. t + m \in Nat /\ c + l \in Nat /\ t + m <= c + l
      <4>1. CASE k = key
        <5>1. m = l + Carries(held) /\ c = t + held.amount
          BY <3>4, <3>5, <4>1
        <5>2. \A a, b, x, y \in Nat :
                x <= y => /\ a + (b + x) \in Nat /\ (a + y) + b \in Nat
                          /\ a + (b + x) <= (a + y) + b
          OBVIOUS
        <5> HIDE DEF l
        <5>3. QED
          BY <1>5, <1>9, <3>3, <5>1, <5>2
      <4>2. CASE k # key
        <5>1. m = l /\ c = t + 0
          BY <3>4, <3>5, <4>2
        <5> HIDE DEF l
        <5>2. QED
          BY <3>3, <5>1
      <4>3. QED
        BY <4>1, <4>2
    <3> HIDE DEF l
    <3>7. Accounted(Get(cur, Token(k)), t + m)
      BY <3>1, <3>2, <3>6, AccountedLess
    <3>8. QED
      BY <3>2, <3>7 DEF t, m
  <2>2. QED
    BY <2>1 DEF SupplyKept
<1>24. Midway(rec, tx, n, next, new)
  BY <1>12, <1>14, <1>16, <1>19, <1>20, <1>21, <1>22, <1>23 DEF Midway
<1>25. Consumed(rec, tx, o, st, cur, next, new)
  <2>1. ASSUME NEW k \in TokenKey
        PROVE  /\ Left(next, k) = Left(st, k) + IF held.tokenKey = k THEN Carries(held) ELSE 0
               /\ k \in next.authorised <=>
                    k \in st.authorised \/ (held.tokenKey = k /\ held.authority)
    <3> DEFINE value == Left(st, key) + Carries(held)
    <3>1. next.remaining = Put(st.remaining, key, value)
      BY <1>11, <1>12
    <3>2. Left(st, k) \in Nat
      BY <1>8, LeftIs
    <3> HIDE DEF value
    <3>3. Left(next, k) = IF k = key THEN value ELSE Left(st, k)
      BY <3>1 DEF Left, Put
    <3>4. Left(next, k) = Left(st, k) + IF key = k THEN Carries(held) ELSE 0
      <4>1. CASE key = k
        BY <3>3, <4>1 DEF value
      <4>2. CASE key # k
        BY <3>2, <3>3, <4>2
      <4>3. QED
        BY <4>1, <4>2
    <3>5. k \in next.authorised <=> k \in st.authorised \/ (key = k /\ held.authority)
      BY <1>11, <1>12
    <3>6. QED
      BY <3>4, <3>5 DEF key
  <2>2. \A p \in Outpoint : p[1] = tx.id => new[Utxo(p)] = cur[Utxo(p)]
    BY <1>4, <1>14
  <2>3. QED
    BY <1>6, <1>14, <2>1, <2>2 DEF Consumed, held
<1>26. QED
  BY <1>24, <1>25 DEF o

LEMMA ConsumeStep ==
  ASSUME NEW rec, NEW tx, Applicable(rec, tx),
         NEW n \in 1 .. Len(tx.inputs), NEW st, NEW cur,
         Midway(rec, tx, n - 1, st, cur),
         NEW next, next = Consume(rec, tx, st, tx.inputs[n])
  PROVE  Midway(rec, tx, n, next, Apply(rec, next.writes))
<1>1. CASE ~ Held(rec, Utxo(tx.inputs[n]))
  <2>1. next = st /\ Midway(rec, tx, n, st, cur)
    BY <1>1, ConsumeUnknown
  <2>2. cur = Apply(rec, st.writes)
    BY DEF Midway
  <2>3. QED
    BY <2>1, <2>2
<1>2. CASE Held(rec, Utxo(tx.inputs[n]))
  BY <1>2, ConsumeHeld
<1>3. QED
  BY <1>1, <1>2

-----------------------------------------------------------------------------
(* One output created.                                                        *)

\* Writing nothing changes nothing.
LEMMA ApplyNothing ==
  ASSUME NEW rec, NEW writes, NEW cur, cur = Apply(rec, writes)
  PROVE  Apply(cur, << >>) = cur
<1>1. cur = [k \in DOMAIN cur |-> cur[k]]
  BY DEF Apply
<1>2. QED
  BY <1>1, ApplyNone

\* What is written of the token, where cur is what is held and mid what is held
\* after: a record replaced if the output issues or burns, else nothing.
TokenNoted(cur, mid, doc, key, after) ==
  /\ RecordsOK(mid)
  /\ \A p \in Outpoint : mid[Utxo(p)] = cur[Utxo(p)]
  /\ \A p \in Outpoint : mid[Spend(p)] = cur[Spend(p)]
  /\ \A k \in TokenKey : k # key => mid[Token(k)] = cur[Token(k)]
  /\ mid[Token(key)] = IF Issues(doc) THEN after ELSE cur[Token(key)]
  /\ \A w \in Owner, k \in TokenKey : mid[Balance(w, k)] = cur[Balance(w, k)]

LEMMA TokenWritesAre ==
  ASSUME NEW doc, NEW record, NEW key \in TokenKey, NEW outpoint, NEW height, NEW idx,
         NEW after, after = TokenAfter(doc, record, key, outpoint, height, idx),
         Issues(doc) => after \in TokenRecord \cup {Null},
         NEW cur, RecordsOK(cur), Apply(cur, << >>) = cur,
         NEW writes, writes = TokenWrites(doc, record, key, outpoint, height, idx)
  PROVE  /\ writes \in Seq(Write)
         /\ TokenNoted(cur, Apply(cur, writes), doc, key, after)
<1>1. CASE Issues(doc)
  <2> DEFINE write == [key |-> Token(key), value |-> after]
             mid == Replaced(cur, Token(key), after)
  <2>1. after \in TokenRecord \cup {Null}
    BY <1>1
  <2>2. write \in Write /\ Token(key) \in Key
    BY <2>1, KeyIs DEF Write
  <2>3. writes = <<write>>
    BY <1>1 DEF TokenWrites
  <2>4. Apply(cur, writes) = mid
    BY <2>2, <2>3, ReplacedIs
  <2>5. /\ RecordsOK(mid)
        /\ mid[Token(key)] = after
        /\ \A k \in TokenKey : k # key => mid[Token(k)] = cur[Token(k)]
        /\ \A p \in Outpoint : mid[Utxo(p)] = cur[Utxo(p)]
        /\ \A p \in Outpoint : mid[Spend(p)] = cur[Spend(p)]
        /\ \A w \in Owner, k \in TokenKey : mid[Balance(w, k)] = cur[Balance(w, k)]
    BY <2>1, ReplaceToken
  <2> HIDE DEF mid, write
  <2>6. TokenNoted(cur, mid, doc, key, after)
    BY <1>1, <2>5 DEF TokenNoted
  <2>7. QED
    BY <2>2, <2>3, <2>4, <2>6
<1>2. CASE ~ Issues(doc)
  <2>1. writes = << >>
    BY <1>2 DEF TokenWrites
  <2>2. TokenNoted(cur, cur, doc, key, after)
    BY <1>2 DEF TokenNoted
  <2>3. QED
    BY <2>1, <2>2
<1>3. QED
  BY <1>1, <1>2

\* The live output: the records, and the totals, after it is noted. A burn
\* leaves none, and its amount is nothing.
OutputNoted(mid, new, outpoint, key, owner, amount) ==
  /\ RecordsOK(new) /\ IsFiniteSet(Live(new))
  /\ \A p \in Live(new) : p \in Live(mid) \/ p = outpoint
  /\ \A p \in Outpoint : p # outpoint => new[Utxo(p)] = mid[Utxo(p)]
  /\ \A p \in Outpoint : new[Spend(p)] = mid[Spend(p)]
  /\ \A k \in TokenKey : new[Token(k)] = mid[Token(k)]
  /\ \A w \in Owner, k \in TokenKey : new[Balance(w, k)] = mid[Balance(w, k)]
  /\ \A k : Total(new, LiveOf(new, k))
              = Total(mid, LiveOf(mid, k)) + IF k = key THEN amount ELSE 0
  /\ \A w, k : Total(new, LivePaid(new, w, k))
                 = Total(mid, LivePaid(mid, w, k)) + IF k = key /\ w = owner THEN amount ELSE 0

OutputStands(new, outpoint, doc, key, amount) ==
  IF doc.op = "burn" THEN new[Utxo(outpoint)] = Absent
  ELSE /\ new[Utxo(outpoint)] \in UtxoRecord
       /\ new[Utxo(outpoint)].tokenKey = key
       /\ new[Utxo(outpoint)].amount = amount
       /\ new[Utxo(outpoint)].authority = IsAuth(doc)
       /\ new[Utxo(outpoint)].owner = doc.owner

LEMMA LiveWritesAre ==
  ASSUME NEW doc, NEW amount \in Nat, NEW key \in TokenKey, NEW outpoint \in Outpoint,
         NEW height \in Nat, NEW idx \in Nat,
         doc.owner \in Owner \cup {NoOwner}, doc.op = "burn" => amount = 0,
         NEW mid, RecordsOK(mid), IsFiniteSet(Live(mid)), Apply(mid, << >>) = mid,
         mid[Utxo(outpoint)] = Absent,
         NEW writes, writes = LiveWrites(doc, amount, key, outpoint, height, idx)
  PROVE  /\ writes \in Seq(Write)
         /\ OutputNoted(mid, Apply(mid, writes), outpoint, key, doc.owner, amount)
         /\ OutputStands(Apply(mid, writes), outpoint, doc, key, amount)
<1>1. CASE doc.op = "burn"
  <2>1. writes = << >>
    BY <1>1 DEF LiveWrites
  <2>2. /\ \A k : Total(mid, LiveOf(mid, k)) \in Nat
        /\ \A w, k : Total(mid, LivePaid(mid, w, k)) \in Nat
    BY TotalsAre
  <2>3. amount = 0 /\ \A n \in Nat : n + 0 = n
    BY <1>1
  <2>4. OutputNoted(mid, mid, outpoint, key, doc.owner, amount)
    BY <2>2, <2>3 DEF OutputNoted
  <2>5. OutputStands(mid, outpoint, doc, key, amount)
    BY <1>1 DEF OutputStands
  <2>6. QED
    BY <2>1, <2>4, <2>5
<1>2. CASE doc.op # "burn"
  <2> DEFINE value == [tokenKey |-> key, amount |-> amount, authority |-> IsAuth(doc),
                       owner |-> doc.owner, height |-> height, idx |-> idx]
             write == [key |-> Utxo(outpoint), value |-> value]
             new == Replaced(mid, Utxo(outpoint), value)
  <2>1. value \in UtxoRecord
    BY DEF UtxoRecord, IsAuth
  <2>2. /\ value.tokenKey = key /\ value.owner = doc.owner /\ value.amount = amount
        /\ value.authority = IsAuth(doc)
    OBVIOUS
  <2>3. writes = <<write>>
    BY <1>2 DEF LiveWrites
  <2> HIDE DEF value
  <2>4. write \in Write /\ Utxo(outpoint) \in Key
    BY <2>1, KeyIs DEF Write
  <2>5. Apply(mid, writes) = new
    BY <2>3, <2>4, ReplacedIs
  <2>6. /\ RecordsOK(new)
        /\ new[Utxo(outpoint)] = value
        /\ \A p \in Outpoint : p # outpoint => new[Utxo(p)] = mid[Utxo(p)]
        /\ \A p \in Outpoint : new[Spend(p)] = mid[Spend(p)]
        /\ \A k \in TokenKey : new[Token(k)] = mid[Token(k)]
        /\ \A w \in Owner, k \in TokenKey : new[Balance(w, k)] = mid[Balance(w, k)]
    BY <2>1, ReplaceUtxo
  <2> HIDE DEF new, write
  <2>7. /\ Live(new) = Live(mid) \cup {outpoint}
        /\ IsFiniteSet(Live(new))
        /\ \A k : Total(new, LiveOf(new, k)) =
                    Total(mid, LiveOf(mid, k))
                      + IF new[Utxo(outpoint)].tokenKey = k
                        THEN AmountAt(new, outpoint) ELSE 0
        /\ \A w, k : Total(new, LivePaid(new, w, k)) =
                       Total(mid, LivePaid(mid, w, k))
                         + IF new[Utxo(outpoint)].tokenKey = k /\ new[Utxo(outpoint)].owner = w
                           THEN AmountAt(new, outpoint) ELSE 0
    BY <2>1, <2>6, LiveAdd
  <2>8. AmountAt(new, outpoint) = amount
    BY <2>2, <2>6 DEF AmountAt
  <2>9. OutputNoted(mid, new, outpoint, key, doc.owner, amount)
    BY <2>2, <2>6, <2>7, <2>8 DEF OutputNoted
  <2>10. OutputStands(new, outpoint, doc, key, amount)
    BY <1>2, <2>1, <2>2, <2>6 DEF OutputStands
  <2>11. QED
    BY <2>3, <2>4, <2>5, <2>9, <2>10
<1>3. QED
  BY <1>1, <1>2

\* The token that an accepted output issues or burns stays accounted for.
LEMMA IssueAccounted ==
  ASSUME NEW doc, NEW record \in TokenRecord \cup {Absent}, NEW after,
         NEW amount, NEW drawn, AcceptedAs(doc, record, after, amount, drawn), Issues(doc),
         NEW c \in Nat, NEW l \in Nat, drawn <= l, Accounted(record, c + l)
  PROVE  Accounted(IF after = Null THEN Absent ELSE after, (c + amount) + (l - drawn))
<1>0. amount \in Nat /\ drawn \in Nat
  BY DEF AcceptedAs
<1>1. Absent \notin TokenRecord /\ Null \notin TokenRecord
  BY MarkAssumption
<1>2. \A r \in TokenRecord : r.supply \in Nat /\ r.burned \in Nat /\ r.max \in Nat \cup {None}
  BY DEF TokenRecord
<1>3. CASE IsDeploy(doc)
  <2>1. /\ record = Absent /\ drawn = 0
        /\ after \in TokenRecord /\ after.supply = amount /\ after.burned = 0
        /\ after.max # None => after.supply <= after.max
    BY <1>3 DEF AcceptedAs
  <2>2. c + l = 0
    BY <2>1 DEF Accounted
  <2>3. c = 0 /\ l = 0
    BY <2>2
  <2>4. after # Null /\ after # Absent
    BY <1>1, <2>1
  <2>5. QED
    BY <1>0, <1>2, <2>1, <2>3, <2>4 DEF Accounted
<1>4. CASE doc.op = "mint"
  <2>1. /\ record \in TokenRecord /\ drawn = 0
        /\ after \in TokenRecord /\ after.supply = record.supply + amount
        /\ after.burned = record.burned
        /\ after.max # None => after.supply <= after.max
    BY <1>4 DEF AcceptedAs
  <2>2. record # Absent /\ after # Null /\ after # Absent
    BY <1>1, <2>1
  <2>3. (c + l) + record.burned <= record.supply /\ record.burned \in Nat /\ record.supply \in Nat
    BY <1>2, <2>1, <2>2 DEF Accounted
  <2>4. (c + amount) + (l - drawn) + after.burned <= after.supply
    BY <1>0, <2>1, <2>3
  <2>5. QED
    BY <2>1, <2>2, <2>4 DEF Accounted
<1>5. CASE doc.op = "burn" /\ record = Absent
  <2>1. after = Null /\ c + l = 0 /\ amount = 0
    BY <1>5 DEF Accounted, AcceptedAs
  <2>2. (c + amount) + (l - drawn) = 0
    BY <1>0, <2>1
  <2>3. QED
    BY <2>1, <2>2 DEF Accounted
<1>6. CASE doc.op = "burn" /\ record # Absent
  <2>1. /\ amount = 0 /\ after \in TokenRecord /\ after.max = record.max
        /\ after.supply = record.supply /\ after.burned = record.burned + drawn
    BY <1>6 DEF AcceptedAs, Continues
  <2>2. after # Null /\ after # Absent /\ record \in TokenRecord
    BY <1>1, <1>6, <2>1
  <2>3. /\ (c + l) + record.burned <= record.supply
        /\ record.max # None => record.supply <= record.max
        /\ record.burned \in Nat /\ record.supply \in Nat
    BY <1>2, <1>6, <2>2 DEF Accounted
  <2>4. (c + amount) + (l - drawn) + after.burned <= after.supply
    BY <1>0, <2>1, <2>3
  <2>5. QED
    BY <2>1, <2>2, <2>3, <2>4 DEF Accounted
<1>7. QED
  BY <1>3, <1>4, <1>5, <1>6 DEF Issues

\* The output that is looked at next was not looked at before.
LEMMA LookedIs ==
  ASSUME NEW tx \in Transaction, NEW n \in Len(tx.inputs) + 1 .. Steps(tx),
         NEW v, v = n - Len(tx.inputs)
  PROVE  /\ v \in DOMAIN tx.outputs
         /\ Looked(tx, n) = Looked(tx, n - 1) \cup {v} /\ v \notin Looked(tx, n - 1)
         /\ Used(tx, n) = Used(tx, n - 1)
<1>1. /\ Len(tx.inputs) \in Nat /\ DOMAIN tx.inputs = 1 .. Len(tx.inputs)
      /\ Len(tx.outputs) \in Nat /\ DOMAIN tx.outputs = 1 .. Len(tx.outputs)
  BY TransactionIs
<1> DEFINE a == Len(tx.inputs)
           b == Len(tx.outputs)
<1>2. a \in Nat /\ b \in Nat /\ n \in a + 1 .. a + b /\ v = n - a
  BY <1>1 DEF Steps
<1>3. /\ DOMAIN tx.inputs = 1 .. a /\ DOMAIN tx.outputs = 1 .. b
      /\ Looked(tx, n) = {u \in DOMAIN tx.outputs : a + u <= n}
      /\ Looked(tx, n - 1) = {u \in DOMAIN tx.outputs : a + u <= n - 1}
  BY <1>1 DEF Looked
<1> HIDE DEF a, b
<1>4. v \in DOMAIN tx.outputs
  BY <1>2, <1>3
<1>5. \A u \in DOMAIN tx.outputs : a + u <= n <=> a + u <= n - 1 \/ u = v
  BY <1>2, <1>3
<1>6. ~ (a + v <= n - 1)
  BY <1>2
<1>7. Looked(tx, n) = Looked(tx, n - 1) \cup {v} /\ v \notin Looked(tx, n - 1)
  BY <1>3, <1>4, <1>5, <1>6
<1>8. \A i \in DOMAIN tx.inputs : i <= n /\ i <= n - 1
  BY <1>2, <1>3
<1>9. Used(tx, n) = Used(tx, n - 1)
  BY <1>8 DEF Used
<1>10. QED
  BY <1>4, <1>7, <1>9

\* An output that is skipped, or not accepted: nothing is done.
LEMMA CreateNothing ==
  ASSUME NEW rec, NEW tx, tx \in Transaction, NEW n \in Len(tx.inputs) + 1 .. Steps(tx),
         NEW st, NEW cur, Midway(rec, tx, n - 1, st, cur)
  PROVE  Midway(rec, tx, n, st, cur)
<1>1. Looked(tx, n - 1) \in SUBSET Looked(tx, n) /\ Used(tx, n) = Used(tx, n - 1)
  BY LookedIs
<1>2. OutputsMade(tx, n, cur)
  BY <1>1 DEF Midway, OutputsMade
<1>3. InputsGone(rec, tx, n, cur)
  BY <1>1 DEF Midway, InputsGone
<1>4. TokensStand(rec, tx, n, cur)
  BY <1>1 DEF Midway, TokensStand
<1>5. QED
  BY <1>2, <1>3, <1>4 DEF Midway

\* What an accepted output leaves: its live output, its token's record, and less
\* to draw from.
Created(doc, key, outpoint, amount, after, st, cur, next, new) ==
  /\ amount \in Nat /\ OutputStands(new, outpoint, doc, key, amount)
  /\ \A p \in Outpoint : p # outpoint => new[Utxo(p)] = cur[Utxo(p)]
  /\ next.authorised = st.authorised
  /\ Drawn(doc) \in Nat /\ Drawn(doc) <= Left(st, key)
  /\ \A k : Left(next, k) = IF k = key THEN Left(st, key) - Drawn(doc) ELSE Left(st, k)
  /\ \A k \in TokenKey : k # key \/ ~ Issues(doc) => new[Token(k)] = cur[Token(k)]
  /\ Issues(doc) => /\ new[Token(key)] = after /\ after \in TokenRecord \cup {Null}
                    /\ IsDeploy(doc) => after \in TokenRecord

\* An accepted output: its token's record, its live output and its balance are
\* written, and what it draws is taken from what is left.
LEMMA CreateAccepted ==
  ASSUME NEW rec, NEW tx, Applicable(rec, tx),
         NEW height \in Nat, NEW idx \in Nat,
         NEW n \in Len(tx.inputs) + 1 .. Steps(tx), NEW st, NEW cur,
         Midway(rec, tx, n - 1, st, cur),
         NEW v, v = n - Len(tx.inputs), v \in TokenOutputs(tx),
         NEW doc, doc = tx.outputs[v], NEW outpoint, outpoint = <<tx.id, v>>,
         NEW key, key = KeyOf(doc, outpoint),
         NEW record, record = Get(rec, Token(key)),
         Accepted(doc, record, key \in st.authorised, Left(st, key)),
         NEW next, next = Create(rec, tx, height, idx, st, v),
         NEW new, new = Apply(rec, next.writes)
  PROVE  /\ Midway(rec, tx, n, next, new)
         /\ Created(doc, key, outpoint, Amount(doc, record),
                    TokenAfter(doc, record, key, outpoint, height, idx), st, cur, next, new)
<1> DEFINE amount == Amount(doc, record)
           drawn == Drawn(doc)
           after == TokenAfter(doc, record, key, outpoint, height, idx)
           first == TokenWrites(doc, record, key, outpoint, height, idx)
           second == LiveWrites(doc, amount, key, outpoint, height, idx)
           mid == Apply(cur, first)
           noted == [st EXCEPT !.writes = @ \o first \o second,
                               !.remaining = Put(@, key, Left(st, key) - drawn)]
<1>1. next = IF doc.op = "burn" THEN noted
             ELSE Adjust(rec, noted, doc.owner, key, amount)
  BY DEF Create
<1>2. tx \in Transaction /\ RecordsOK(rec)
  BY DEF Applicable
<1>3. /\ v \in DOMAIN tx.outputs
      /\ Looked(tx, n) = Looked(tx, n - 1) \cup {v} /\ v \notin Looked(tx, n - 1)
      /\ Used(tx, n) = Used(tx, n - 1)
  BY <1>2, LookedIs
<1>4. outpoint \in Outpoint /\ key \in TokenKey
  BY <1>2, OutputIs
<1>5. /\ outpoint[1] = tx.id /\ outpoint[2] = v
  OBVIOUS
<1>6. /\ st \in WorkState /\ IsFiniteSet(DOMAIN st.staged)
      /\ cur = Apply(rec, st.writes) /\ RecordsOK(cur) /\ IsFiniteSet(Live(cur))
      /\ InputsGone(rec, tx, n - 1, cur) /\ OutputsMade(tx, n - 1, cur)
      /\ TokensStand(rec, tx, n - 1, cur) /\ BalancesStaged(rec, st, cur)
      /\ SupplyKept(rec, tx, st, cur)
  BY DEF Midway
<1>7. /\ st.writes \in Seq(Write) /\ st.staged \in Maps(Holding)
      /\ st.remaining \in Maps(TokenKey) /\ st.authorised \in SUBSET TokenKey
  BY <1>6 DEF WorkState
<1>8. Left(st, key) \in Nat
  BY <1>7, LeftIs
<1>9. /\ record \in TokenRecord \cup {Absent}
      /\ Held(rec, Token(key)) => record \in TokenRecord /\ rec[Token(key)] = record
  BY <1>2, <1>4, RecordIs
<1>10. drawn <= Left(st, key) /\ AcceptedAs(doc, record, after, amount, drawn)
  <2> DEFINE left == Left(st, key)
             authorities == st.authorised
  <2>1. /\ left \in Nat /\ record \in TokenRecord \cup {Absent}
        /\ Accepted(doc, record, key \in authorities, left)
        /\ after = TokenAfter(doc, record, key, outpoint, height, idx)
    BY <1>8, <1>9
  <2> HIDE DEF left, authorities, after
  <2>2. Drawn(doc) <= left
    BY ZenonT(60), <1>2, <2>1, AcceptedIs
  <2>3. AcceptedAs(doc, record, after, Amount(doc, record), Drawn(doc))
    BY ZenonT(60), <1>2, <2>1, AcceptedIs
  <2>4. QED
    BY <2>2, <2>3 DEF left
<1> HIDE DEF amount, drawn, after, first, second, mid, noted
<1>11. /\ amount \in Nat /\ drawn \in Nat /\ doc.owner \in Owner \cup {NoOwner}
       /\ doc.op = "burn" => amount = 0
       /\ Issues(doc) => after \in TokenRecord \cup {Null}
       /\ ~ Issues(doc) => amount = drawn
       /\ Issues(doc) /\ record # Absent => after \in TokenRecord /\ Continues(record, after)
  <2>1. amount \in Nat /\ drawn \in Nat /\ doc.owner \in Owner \cup {NoOwner}
    BY <1>10 DEF AcceptedAs
  <2>2. /\ doc.op = "burn" => amount = 0
        /\ ~ Issues(doc) => amount = drawn
    BY <1>10 DEF AcceptedAs
  <2>3. Issues(doc) => after \in TokenRecord \cup {Null}
    BY <1>10 DEF AcceptedAs, Issues
  <2>4. Issues(doc) /\ record # Absent => after \in TokenRecord /\ Continues(record, after)
    BY <1>10 DEF AcceptedAs, Issues
  <2>5. QED
    BY <2>1, <2>2, <2>3, <2>4
<1>12. Apply(cur, << >>) = cur
  BY <1>6, ApplyNothing
<1>13. first \in Seq(Write) /\ TokenNoted(cur, mid, doc, key, after)
  BY <1>4, <1>6, <1>11, <1>12, TokenWritesAre DEF first, after, mid
<1>14. /\ RecordsOK(mid)
       /\ \A p \in Outpoint : mid[Utxo(p)] = cur[Utxo(p)]
       /\ \A p \in Outpoint : mid[Spend(p)] = cur[Spend(p)]
       /\ \A k \in TokenKey : k # key => mid[Token(k)] = cur[Token(k)]
       /\ mid[Token(key)] = IF Issues(doc) THEN after ELSE cur[Token(key)]
       /\ \A w \in Owner, k \in TokenKey : mid[Balance(w, k)] = cur[Balance(w, k)]
  BY <1>13 DEF TokenNoted
<1>15. /\ Live(mid) = Live(cur)
       /\ \A k : Total(mid, LiveOf(mid, k)) = Total(cur, LiveOf(cur, k))
       /\ \A w, k : Total(mid, LivePaid(mid, w, k)) = Total(cur, LivePaid(cur, w, k))
  BY <1>6, <1>14, LiveSame
<1>16. mid[Utxo(outpoint)] = Absent
  <2>1. outpoint \notin Live(cur)
    BY <1>3, <1>5, <1>6 DEF OutputsMade
  <2>2. QED
    BY <1>4, <1>14, <1>15, <2>1, LiveIs
<1>17. Apply(mid, << >>) = mid
  BY ApplyNothing DEF mid
<1>18. second \in Seq(Write)
       /\ OutputNoted(mid, Apply(mid, second), outpoint, key, doc.owner, amount)
       /\ OutputStands(Apply(mid, second), outpoint, doc, key, amount)
  <2>1. second = LiveWrites(doc, amount, key, outpoint, height, idx)
    BY DEF second
  <2>2. RecordsOK(mid) /\ IsFiniteSet(Live(mid))
    BY <1>6, <1>14, <1>15
  <2>3. second \in Seq(Write)
    BY <1>4, <1>11, <1>16, <1>17, <2>1, <2>2, LiveWritesAre
  <2>4. doc.owner \in Owner \cup {NoOwner} /\ (doc.op = "burn" => amount = 0) /\ amount \in Nat
    BY <1>11
  <2>5. OutputNoted(mid, Apply(mid, second), outpoint, key, doc.owner, amount)
    BY ZenonT(60), <1>4, <1>16, <1>17, <2>1, <2>2, <2>4, LiveWritesAre
  <2>6. OutputStands(Apply(mid, second), outpoint, doc, key, amount)
    BY ZenonT(60), <1>4, <1>16, <1>17, <2>1, <2>2, <2>4, LiveWritesAre
  <2>7. QED
    BY <2>3, <2>5, <2>6
<1>19. /\ noted \in WorkState /\ noted.staged = st.staged /\ noted.authorised = st.authorised
       /\ noted.writes = st.writes \o first \o second
       /\ noted.remaining = Put(st.remaining, key, Left(st, key) - drawn)
  <2>1. st.writes \o first \o second \in Seq(Write)
    BY <1>7, <1>13, <1>18
  <2>2. Left(st, key) - drawn \in Nat
    BY <1>8, <1>10, <1>11
  <2>3. Put(st.remaining, key, Left(st, key) - drawn) \in Maps(TokenKey)
    BY <1>4, <1>7, <2>2, PutIs
  <2>4. QED
    BY <1>6, <2>1, <2>3 DEF noted, WorkState
<1>20. Moved(rec, noted, next, doc.owner, key, amount)
  <2>1. IsFiniteSet(DOMAIN noted.staged) /\ amount \in Int
    BY <1>6, <1>11, <1>19
  <2>2. CASE doc.op # "burn"
    <3>1. next = Adjust(rec, noted, doc.owner, key, amount)
      BY <1>1, <2>2
    <3>2. QED
      BY <1>2, <1>4, <1>11, <1>19, <2>1, <3>1, AdjustIs
  <2>3. CASE doc.op = "burn"
    <3>1. next = noted /\ amount = 0
      BY <1>1, <1>11, <2>3
    <3>2. \A w \in Owner, k \in TokenKey : Current(rec, noted, w, k) \in Nat
      BY <1>2, <1>19, CurrentIs
    <3>3. \A c \in Nat : c + amount = c /\ c >= 0
      BY <3>1
    <3>4. QED
      BY <1>19, <2>1, <3>1, <3>2, <3>3 DEF Moved
  <2>4. QED
    BY <2>2, <2>3
<1>21. /\ next \in WorkState /\ IsFiniteSet(DOMAIN next.staged)
       /\ next.writes = noted.writes /\ next.remaining = noted.remaining
       /\ next.authorised = noted.authorised
       /\ \A w \in Owner, k \in TokenKey :
            Current(rec, next, w, k) =
              IF w = doc.owner /\ k = key
              THEN IF Current(rec, noted, w, k) + amount >= 0
                   THEN Current(rec, noted, w, k) + amount ELSE 0
              ELSE Current(rec, noted, w, k)
  BY <1>20 DEF Moved
<1>22. new = Apply(mid, second)
  <2>1. mid = Apply(rec, st.writes \o first)
    BY <1>6, <1>7, <1>13, ApplyTwice DEF mid
  <2>2. st.writes \o first \in Seq(Write)
    BY <1>7, <1>13
  <2> DEFINE before == st.writes \o first
  <2>3. new = Apply(rec, before \o second)
    BY <1>19, <1>21
  <2>4. before \in Seq(Write) /\ mid = Apply(rec, before)
    BY <2>1, <2>2
  <2> HIDE DEF before
  <2>5. QED
    BY <1>18, <2>3, <2>4, ApplyTwice
<1>23. /\ RecordsOK(new) /\ IsFiniteSet(Live(new))
       /\ \A p \in Live(new) : p \in Live(cur) \/ p = outpoint
       /\ \A p \in Outpoint : p # outpoint => new[Utxo(p)] = cur[Utxo(p)]
       /\ \A p \in Outpoint : new[Spend(p)] = cur[Spend(p)]
       /\ \A k \in TokenKey : k # key => new[Token(k)] = cur[Token(k)]
       /\ new[Token(key)] = IF Issues(doc) THEN after ELSE cur[Token(key)]
       /\ \A w \in Owner, k \in TokenKey : new[Balance(w, k)] = cur[Balance(w, k)]
  <2>1. OutputNoted(mid, new, outpoint, key, doc.owner, amount)
    BY <1>18, <1>22
  <2>2. /\ RecordsOK(new) /\ IsFiniteSet(Live(new))
        /\ \A p \in Live(new) : p \in Live(cur) \/ p = outpoint
    BY <1>15, <2>1 DEF OutputNoted
  <2>3. ASSUME NEW p \in Outpoint
        PROVE  /\ p # outpoint => new[Utxo(p)] = cur[Utxo(p)]
               /\ new[Spend(p)] = cur[Spend(p)]
    <3>1. mid[Utxo(p)] = cur[Utxo(p)] /\ mid[Spend(p)] = cur[Spend(p)]
      BY <1>14
    <3>2. /\ p # outpoint => new[Utxo(p)] = mid[Utxo(p)]
          /\ new[Spend(p)] = mid[Spend(p)]
      BY <2>1 DEF OutputNoted
    <3>3. QED
      BY <3>1, <3>2
  <2>4. ASSUME NEW k \in TokenKey
        PROVE  new[Token(k)] = mid[Token(k)]
    BY <2>1 DEF OutputNoted
  <2>5. ASSUME NEW w \in Owner, NEW k \in TokenKey
        PROVE  new[Balance(w, k)] = cur[Balance(w, k)]
    <3>1. mid[Balance(w, k)] = cur[Balance(w, k)]
      BY <1>14
    <3>2. new[Balance(w, k)] = mid[Balance(w, k)]
      BY <2>1 DEF OutputNoted
    <3>3. QED
      BY <3>1, <3>2
  <2>6. /\ \A k \in TokenKey : k # key => new[Token(k)] = cur[Token(k)]
        /\ new[Token(key)] = IF Issues(doc) THEN after ELSE cur[Token(key)]
    BY <1>4, <1>14, <2>4
  <2>7. QED
    BY <2>2, <2>3, <2>5, <2>6
<1>24. /\ \A k : Total(new, LiveOf(new, k))
                   = Total(cur, LiveOf(cur, k)) + IF k = key THEN amount ELSE 0
       /\ \A w, k : Total(new, LivePaid(new, w, k))
                      = Total(cur, LivePaid(cur, w, k))
                          + IF k = key /\ w = doc.owner THEN amount ELSE 0
  <2>1. ASSUME NEW k
        PROVE  Total(new, LiveOf(new, k))
                 = Total(cur, LiveOf(cur, k)) + IF k = key THEN amount ELSE 0
    BY <1>15, <1>18, <1>22 DEF OutputNoted
  <2>2. ASSUME NEW w, NEW k
        PROVE  Total(new, LivePaid(new, w, k))
                 = Total(cur, LivePaid(cur, w, k))
                     + IF k = key /\ w = doc.owner THEN amount ELSE 0
    <3>1. Total(new, LivePaid(new, w, k))
            = Total(mid, LivePaid(mid, w, k))
                + IF k = key /\ w = doc.owner THEN amount ELSE 0
      <4>1. OutputNoted(mid, new, outpoint, key, doc.owner, amount)
        BY <1>18, <1>22
      <4>2. QED
        BY <4>1 DEF OutputNoted
    <3>2. Total(mid, LivePaid(mid, w, k)) = Total(cur, LivePaid(cur, w, k))
      BY <1>15
    <3>3. QED
      BY <3>1, <3>2
  <2>3. QED
    BY <2>1, <2>2
<1>25. /\ \A k : Total(cur, LiveOf(cur, k)) \in Nat
       /\ \A w, k : Total(cur, LivePaid(cur, w, k)) \in Nat
  BY <1>6, TotalsAre
<1>26. InputsGone(rec, tx, n, new)
  <2>1. ASSUME NEW o \in Outpoint
        PROVE  /\ o[1] # tx.id =>
                    new[Utxo(o)] = IF o \in Used(tx, n) THEN Absent ELSE rec[Utxo(o)]
               /\ new[Spend(o)] = IF o \in Used(tx, n) /\ Held(rec, Utxo(o))
                                  THEN [txid |-> tx.id] ELSE rec[Spend(o)]
    <3>1. /\ o[1] # tx.id => new[Utxo(o)] = cur[Utxo(o)]
          /\ new[Spend(o)] = cur[Spend(o)]
      BY <1>5, <1>23
    <3>2. Used(tx, n) = Used(tx, n - 1)
      BY <1>3, <1>5
    <3>3. /\ o[1] # tx.id =>
               cur[Utxo(o)] = IF o \in Used(tx, n - 1) THEN Absent ELSE rec[Utxo(o)]
          /\ cur[Spend(o)] = IF o \in Used(tx, n - 1) /\ Held(rec, Utxo(o))
                             THEN [txid |-> tx.id] ELSE rec[Spend(o)]
      BY <1>6 DEF InputsGone
    <3>4. QED
      BY <3>1, <3>2, <3>3
  <2>2. QED
    BY <2>1 DEF InputsGone
<1>27. OutputsMade(tx, n, new)
  BY <1>3, <1>5, <1>6, <1>23 DEF OutputsMade
<1>28. TokensStand(rec, tx, n, new)
  <2>1. ASSUME NEW k \in TokenKey, k # key \/ ~ Issues(doc)
        PROVE  new[Token(k)] = cur[Token(k)]
    BY <1>23, <2>1
  <2>2. ASSUME NEW k \in TokenKey, Held(rec, Token(k))
        PROVE  Held(new, Token(k)) /\ Continues(rec[Token(k)], new[Token(k)])
    <3>1. CASE k # key \/ ~ Issues(doc)
      <4>1. Held(cur, Token(k)) /\ Continues(rec[Token(k)], cur[Token(k)])
        BY <1>6, <2>2 DEF TokensStand
      <4>2. new[Token(k)] = cur[Token(k)]
        BY <2>1, <3>1
      <4>3. QED
        BY <4>1, <4>2 DEF Held, Get
    <3>2. CASE k = key /\ Issues(doc)
      <4>1. record \in TokenRecord /\ rec[Token(k)] = record /\ record # Absent
        BY <1>9, <2>2, <3>2, MarkAssumption
      <4>2. after \in TokenRecord /\ Continues(record, after)
        BY <1>11, <3>2, <4>1
      <4>3. new[Token(k)] = after
        BY <1>23, <3>2
      <4>4. Held(new, Token(k))
        BY <4>2, <4>3, MarkAssumption DEF Held, Get
      <4>5. QED
        BY <4>1, <4>2, <4>3, <4>4
    <3>3. QED
      BY <3>1, <3>2
  <2>3. ASSUME NEW k \in TokenKey, Issuing(tx, k) \cap Looked(tx, n) = {}
        PROVE  new[Token(k)] = rec[Token(k)]
    <3>1. k # key \/ ~ Issues(doc)
      <4>1. v \notin Issuing(tx, k)
        BY <1>3, <2>3
      <4>2. QED
        BY <4>1 DEF Issuing
    <3>2. Issuing(tx, k) \cap Looked(tx, n - 1) = {}
      BY <1>3, <2>3
    <3>3. QED
      BY <1>6, <2>1, <3>1, <3>2 DEF TokensStand
  <2>4. QED
    BY <2>2, <2>3 DEF TokensStand
<1>29. BalancesStaged(rec, next, new)
  <2>1. ASSUME NEW w \in Owner, NEW k \in TokenKey
        PROVE  Current(rec, next, w, k) = Total(new, LivePaid(new, w, k))
    <3> DEFINE c == Total(cur, LivePaid(cur, w, k))
    <3>1. Current(rec, noted, w, k) = c
      BY <1>6, <1>19 DEF Current, BalancesStaged
    <3>2. c \in Nat
      BY <1>25
    <3>3. Total(new, LivePaid(new, w, k)) = c + IF k = key /\ w = doc.owner THEN amount ELSE 0
      BY <1>24
    <3> HIDE DEF c
    <3>4. CASE w = doc.owner /\ k = key
      <4>1. c + amount >= 0
        BY <1>11, <3>2
      <4>2. QED
        BY <1>21, <3>1, <3>3, <3>4, <4>1
    <3>5. CASE ~ (w = doc.owner /\ k = key)
      <4>1. c + 0 = c
        BY <3>2
      <4>2. QED
        BY <1>21, <3>1, <3>3, <3>5, <4>1
    <3>6. QED
      BY <3>4, <3>5
  <2>2. QED
    BY <1>6, <1>23, <2>1 DEF BalancesStaged
<1>30. SupplyKept(rec, tx, next, new)
  <2>1. ASSUME NEW k \in TokenKey,
               Accounted(Get(rec, Token(k)), Total(rec, LiveOf(rec, k))), ~ Batches(tx, k)
        PROVE  Accounted(Get(new, Token(k)), Total(new, LiveOf(new, k)) + Left(next, k))
    <3> DEFINE t == Total(new, LiveOf(new, k))
               c == Total(cur, LiveOf(cur, k))
               l == Left(st, k)
               m == Left(next, k)
    <3>1. Accounted(Get(cur, Token(k)), c + l)
      BY <1>6, <2>1 DEF SupplyKept
    <3>2. c \in Nat /\ l \in Nat
      BY <1>7, <1>25, LeftIs
    <3>3. m = IF k = key THEN Left(st, key) - drawn ELSE l
      <4> DEFINE value == Left(st, key) - drawn
      <4>1. next.remaining = Put(st.remaining, key, value)
        BY <1>19, <1>21
      <4> HIDE DEF value
      <4>2. m = IF k = key THEN value ELSE Left(st, k)
        BY <4>1 DEF Left, Put
      <4>3. QED
        BY <4>2 DEF value
    <3>4. t = c + IF k = key THEN amount ELSE 0
      BY <1>24
    <3>5. CASE k # key
      <4>1. t = c + 0 /\ m = l
        BY <3>3, <3>4, <3>5
      <4>2. Get(new, Token(k)) = Get(cur, Token(k))
        BY <1>23, <3>5 DEF Get
      <4> HIDE DEF t, c, l, m
      <4>3. t + m = c + l
        BY <3>2, <4>1
      <4>4. QED
        BY <3>1, <4>2, <4>3 DEF t, m
    <3>6. CASE k = key /\ ~ Issues(doc)
      <4>1. t = c + amount /\ m = l - drawn /\ amount = drawn /\ drawn \in Nat
        BY <1>11, <3>3, <3>4, <3>6
      <4>2. Get(new, Token(k)) = Get(cur, Token(k))
        BY <1>23, <3>6 DEF Get
      <4> HIDE DEF t, c, l, m
      <4>3. t + m = c + l
        BY <3>2, <4>1
      <4>4. QED
        BY <3>1, <4>2, <4>3 DEF t, m
    <3>7. CASE k = key /\ Issues(doc)
      <4>1. t = c + amount /\ m = l - drawn /\ drawn <= l
        BY <1>10, <3>3, <3>4, <3>7
      <4>2. Issuing(tx, k) \cap Looked(tx, n - 1) = {}
        <5>1. v \in Issuing(tx, k)
          BY <3>7 DEF Issuing
        <5>2. QED
          BY <1>3, <2>1, <5>1 DEF Batches
      <4>3. cur[Token(k)] = rec[Token(k)]
        BY <1>6, <4>2 DEF TokensStand
      <4>4. Get(cur, Token(k)) = record
        BY <3>7, <4>3 DEF Get
      <4>5. Get(new, Token(k)) = IF after = Null THEN Absent ELSE after
        BY <1>23, <3>7 DEF Get
      <4> HIDE DEF t, c, l, m
      <4>6. after \in TokenRecord \cup {Null} /\ Accounted(record, c + l)
        BY <1>11, <3>1, <3>7, <4>4
      <4>7. Accounted(IF after = Null THEN Absent ELSE after, (c + amount) + (l - drawn))
        BY ZenonT(30), <1>9, <1>10, <3>2, <3>7, <4>1, <4>6, IssueAccounted
      <4>8. QED
        BY <4>1, <4>5, <4>7 DEF t, m
    <3>8. QED
      BY <3>5, <3>6, <3>7
  <2>2. QED
    BY <2>1 DEF SupplyKept
<1>31. Midway(rec, tx, n, next, new)
  BY <1>21, <1>23, <1>26, <1>27, <1>28, <1>29, <1>30 DEF Midway
<1>32. Created(doc, key, outpoint, amount, after, st, cur, next, new)
  <2>1. \A k : Left(next, k) = IF k = key THEN Left(st, key) - drawn ELSE Left(st, k)
    <3> DEFINE value == Left(st, key) - drawn
    <3>1. next.remaining = Put(st.remaining, key, value)
      BY <1>19, <1>21
    <3> HIDE DEF value
    <3>2. \A k : Left(next, k) = IF k = key THEN value ELSE Left(st, k)
      BY <3>1 DEF Left, Put
    <3>3. QED
      BY <3>2 DEF value
  <2>2. OutputStands(new, outpoint, doc, key, amount)
    BY <1>18, <1>22
  <2>3. next.authorised = st.authorised
    BY <1>19, <1>21
  <2>4. IsDeploy(doc) => after \in TokenRecord
    BY <1>10 DEF AcceptedAs
  <2>5. /\ \A k \in TokenKey : k # key \/ ~ Issues(doc) => new[Token(k)] = cur[Token(k)]
        /\ Issues(doc) => new[Token(key)] = after
    BY <1>4, <1>23
  <2>6. drawn = Drawn(doc)
    BY DEF drawn
  <2>7. QED
    BY <1>10, <1>11, <1>23, <2>1, <2>2, <2>3, <2>4, <2>5, <2>6 DEF Created
<1>33. QED
  BY <1>31, <1>32 DEF amount, after

LEMMA CreateStep ==
  ASSUME NEW rec, NEW tx, Applicable(rec, tx),
         NEW height \in Nat, NEW idx \in Nat,
         NEW n \in Len(tx.inputs) + 1 .. Steps(tx), NEW st, NEW cur,
         Midway(rec, tx, n - 1, st, cur),
         NEW next, next = Create(rec, tx, height, idx, st, n - Len(tx.inputs))
  PROVE  Midway(rec, tx, n, next, Apply(rec, next.writes))
<1> DEFINE v == n - Len(tx.inputs)
           doc == tx.outputs[v]
           outpoint == <<tx.id, v>>
           key == KeyOf(doc, outpoint)
           record == Get(rec, Token(key))
           Good == /\ v \in TokenOutputs(tx)
                   /\ Accepted(doc, record, key \in st.authorised, Left(st, key))
<1>1. CASE ~ Good
  <2>1. next = st
    BY <1>1 DEF Create
  <2>2. Midway(rec, tx, n, st, cur)
    BY CreateNothing DEF Applicable
  <2>3. cur = Apply(rec, st.writes)
    BY DEF Midway
  <2>4. QED
    BY <2>1, <2>2, <2>3
<1>2. CASE Good
  <2> HIDE DEF v, doc, outpoint, key, record
  <2>1. /\ v = n - Len(tx.inputs) /\ doc = tx.outputs[v] /\ outpoint = <<tx.id, v>>
        /\ key = KeyOf(doc, outpoint) /\ record = Get(rec, Token(key))
    BY DEF v, doc, outpoint, key, record
  <2>2. QED
    BY <1>2, <2>1, CreateAccepted
<1>3. QED
  BY <1>1, <1>2

-----------------------------------------------------------------------------
(* A whole transaction.                                                       *)

\* Before the first input: the records as they were.
LEMMA WorkBegins ==
  ASSUME NEW rec, NEW tx, Applicable(rec, tx)
  PROVE  Midway(rec, tx, 0, Begun, Apply(rec, << >>))
<1> DEFINE cur == Apply(rec, << >>)
<1>1. /\ RecordsOK(rec) /\ IsFiniteSet(Live(rec)) /\ tx \in Transaction
      /\ \A o \in Live(rec) : o[1] # tx.id
      /\ \A w \in Owner, k \in TokenKey : Stored(rec, w, k) = Total(rec, LivePaid(rec, w, k))
  BY DEF Applicable
<1>2. DOMAIN cur = DOMAIN rec /\ \A k \in DOMAIN rec : cur[k] = rec[k]
  BY DEF Apply, Touches
<1>3. DOMAIN rec = Key
  BY <1>1 DEF RecordsOK
<1> HIDE DEF cur
<1>4. /\ \A o \in Outpoint : cur[Utxo(o)] = rec[Utxo(o)] /\ cur[Spend(o)] = rec[Spend(o)]
      /\ \A k \in TokenKey : cur[Token(k)] = rec[Token(k)]
      /\ \A w \in Owner, k \in TokenKey : cur[Balance(w, k)] = rec[Balance(w, k)]
  BY <1>2, <1>3, KeyIs
<1>5. RecordsOK(cur)
  BY <1>1, <1>2, <1>3, <1>4 DEF RecordsOK
<1>6. /\ Live(cur) = Live(rec)
      /\ \A k : Total(cur, LiveOf(cur, k)) = Total(rec, LiveOf(rec, k))
      /\ \A w, k : Total(cur, LivePaid(cur, w, k)) = Total(rec, LivePaid(rec, w, k))
  BY <1>1, <1>4, <1>5, LiveSame
<1>7. \A k : Total(cur, LiveOf(cur, k)) \in Nat
  BY <1>1, <1>5, <1>6, TotalsAre
<1>8. /\ Len(tx.inputs) \in Nat /\ DOMAIN tx.inputs = 1 .. Len(tx.inputs)
      /\ Len(tx.outputs) \in Nat /\ DOMAIN tx.outputs = 1 .. Len(tx.outputs)
      /\ tx.id \in Nat
  BY <1>1, TransactionIs
<1>9. Begun \in WorkState /\ IsFiniteSet(DOMAIN Begun.staged)
  <2>1. << >> \in Seq(Write) /\ {} \in SUBSET TokenKey
    OBVIOUS
  <2>2. NoMap \in Maps(Holding) /\ NoMap \in Maps(TokenKey) /\ DOMAIN NoMap = {}
    BY NoMapIs
  <2>3. IsFiniteSet({})
    BY FS_EmptySet
  <2>4. Begun \in WorkState
    BY <2>1, <2>2 DEF Begun, WorkState
  <2>5. QED
    BY <2>2, <2>3, <2>4 DEF Begun
<1>10. InputsGone(rec, tx, 0, cur)
  <2>1. \A i \in DOMAIN tx.inputs : ~ (i <= 0)
    BY <1>8
  <2>2. Used(tx, 0) = {}
    BY <2>1 DEF Used
  <2>3. QED
    BY <1>4, <2>2 DEF InputsGone
<1>11. OutputsMade(tx, 0, cur)
  <2>1. \A o \in Live(rec) : o[1] # tx.id
    BY <1>1, <1>8
  <2>2. QED
    BY <1>6, <2>1 DEF OutputsMade
<1>12. TokensStand(rec, tx, 0, cur)
  <2>1. ASSUME NEW k \in TokenKey, Held(rec, Token(k))
        PROVE  Held(cur, Token(k)) /\ Continues(rec[Token(k)], cur[Token(k)])
    <3>1. rec[Token(k)] \in TokenRecord
      BY <1>1, <2>1, RecordIs
    <3>2. rec[Token(k)].supply \in Nat /\ rec[Token(k)].burned \in Nat
      BY <3>1 DEF TokenRecord
    <3>3. cur[Token(k)] = rec[Token(k)]
      BY <1>4
    <3>4. Held(cur, Token(k))
      BY <2>1, <3>3 DEF Held, Get
    <3>5. QED
      BY <3>2, <3>3, <3>4 DEF Continues
  <2>2. QED
    BY <1>4, <2>1 DEF TokensStand
<1>13. BalancesStaged(rec, Begun, cur)
  <2>1. DOMAIN Begun.staged = {}
    BY NoMapIs DEF Begun
  <2>2. \A w, k : Current(rec, Begun, w, k) = Stored(rec, w, k)
    BY <2>1 DEF Current
  <2>3. QED
    BY <1>1, <1>4, <1>6, <2>2 DEF BalancesStaged
<1>14. SupplyKept(rec, tx, Begun, cur)
  <2>1. ASSUME NEW k \in TokenKey, Accounted(Get(rec, Token(k)), Total(rec, LiveOf(rec, k)))
        PROVE  Accounted(Get(cur, Token(k)), Total(cur, LiveOf(cur, k)) + Left(Begun, k))
    <3>1. Left(Begun, k) = 0
      BY NoMapIs DEF Left, Begun
    <3>2. Total(cur, LiveOf(cur, k)) + Left(Begun, k) = Total(cur, LiveOf(cur, k))
      BY <1>7, <3>1
    <3>3. Get(cur, Token(k)) = Get(rec, Token(k))
      BY <1>4 DEF Get
    <3>4. QED
      BY <1>6, <2>1, <3>2, <3>3
  <2>2. QED
    BY <2>1 DEF SupplyKept
<1>15. Begun.writes = << >>
  BY DEF Begun
<1>16. QED
  BY <1>1, <1>5, <1>6, <1>9, <1>10, <1>11, <1>12, <1>13, <1>14, <1>15 DEF Midway, cur

\* After every input and output: by induction on their number.
LEMMA WorkGoesOn ==
  ASSUME NEW rec, NEW tx, Applicable(rec, tx), NEW height \in Nat, NEW idx \in Nat,
         NEW work, work = Work(rec, tx, height, idx)
  PROVE  \A n \in 0 .. Steps(tx) : Midway(rec, tx, n, work[n], Apply(rec, work[n].writes))
<1> DEFINE Fine(n) == Midway(rec, tx, n, work[n], Apply(rec, work[n].writes))
           Bad == {n \in Nat : n <= Steps(tx) /\ ~ Fine(n)}
<1>1. tx \in Transaction
  BY DEF Applicable
<1>2. Steps(tx) \in Nat /\ Len(tx.inputs) \in Nat
  BY <1>1, TransactionIs
<1>3. /\ work[0] = Begun
      /\ \A n \in 1 .. Steps(tx) : work[n] = Advance(rec, tx, height, idx, work[n - 1], n)
  BY <1>2, WorkAdvances
<1>4. Fine(0)
  <2>1. Begun.writes = << >>
    BY DEF Begun
  <2>2. QED
    BY <1>3, <2>1, WorkBegins
<1>5. ASSUME NEW n \in 1 .. Steps(tx), Fine(n - 1)
      PROVE  Fine(n)
  <2> DEFINE st == work[n - 1]
             cur == Apply(rec, st.writes)
             next == work[n]
  <2>1. Midway(rec, tx, n - 1, st, cur)
    BY <1>5
  <2>2. next = Advance(rec, tx, height, idx, st, n)
    BY <1>3
  <2> HIDE DEF st, cur, next
  <2>3. CASE n <= Len(tx.inputs)
    <3>1. n \in 1 .. Len(tx.inputs)
      BY <1>2, <2>3
    <3>2. next = Consume(rec, tx, st, tx.inputs[n])
      BY <2>2, <2>3 DEF Advance
    <3>3. Midway(rec, tx, n, next, Apply(rec, next.writes))
      BY <2>1, <3>1, <3>2, ConsumeStep
    <3>4. QED
      BY <3>3 DEF next
  <2>4. CASE ~ (n <= Len(tx.inputs))
    <3>1. n \in Len(tx.inputs) + 1 .. Steps(tx)
      BY <1>2, <2>4
    <3>2. next = Create(rec, tx, height, idx, st, n - Len(tx.inputs))
      BY <2>2, <2>4 DEF Advance
    <3>3. Midway(rec, tx, n, next, Apply(rec, next.writes))
      BY <2>1, <3>1, <3>2, CreateStep
    <3>4. QED
      BY <3>3 DEF next
  <2>5. QED
    BY <2>3, <2>4
<1> HIDE DEF Fine
<1>6. ASSUME Bad # {}
      PROVE  FALSE
  <2> DEFINE n == Min(Bad)
  <2>1. n \in Nat /\ n \in Bad /\ \A k \in Bad : n <= k
    BY <1>6, MinIsLeast
  <2> HIDE DEF n
  <2>2. n # 0 /\ n <= Steps(tx) /\ ~ Fine(n)
    BY <1>4, <2>1
  <2>3. n \in 1 .. Steps(tx) /\ n - 1 \in Nat /\ n - 1 <= Steps(tx)
    BY <1>2, <2>1, <2>2
  <2>4. n - 1 \notin Bad
    <3> HIDE DEF Bad
    <3>1. QED
      BY <2>1, <2>3
  <2>5. QED
    BY <1>5, <2>2, <2>3, <2>4
<1>7. \A n \in 0 .. Steps(tx) : Fine(n)
  BY <1>2, <1>6
<1>8. QED
  BY <1>7 DEF Fine

\* The balances written last: they are the staged ones, and nothing else.
BalancesNoted(cur, done, staged) ==
  /\ RecordsOK(done)
  /\ \A o \in Outpoint : done[Utxo(o)] = cur[Utxo(o)]
  /\ \A o \in Outpoint : done[Spend(o)] = cur[Spend(o)]
  /\ \A k \in TokenKey : done[Token(k)] = cur[Token(k)]
  /\ \A w \in Owner, k \in TokenKey :
       done[Balance(w, k)] = IF <<w, k>> \in DOMAIN staged
                             THEN [amount |-> staged[<<w, k>>]]
                             ELSE cur[Balance(w, k)]

LEMMA BalanceWritesAre ==
  ASSUME NEW staged \in Maps(Holding), IsFiniteSet(DOMAIN staged),
         NEW cur, RecordsOK(cur),
         NEW writes, writes = BalanceWrites(staged)
  PROVE  writes \in Seq(Write) /\ BalancesNoted(cur, Apply(cur, writes), staged)
<1> DEFINE done == Apply(cur, writes)
<1> DEFINE held == SetToSeq(DOMAIN staged)
<1>1. /\ held \in Seq(DOMAIN staged)
      /\ \A x \in DOMAIN staged : \E i \in DOMAIN held : held[i] = x
  BY SetToSeqIs
<1>2. /\ DOMAIN staged \in SUBSET Holding
      /\ \A x \in DOMAIN staged : staged[x] \in Nat
  BY MapIs
<1>3. writes = [i \in DOMAIN held |-> [key |-> <<"balance", held[i]>>,
                                       value |-> [amount |-> staged[held[i]]]]]
  BY DEF BalanceWrites
<1> HIDE DEF held
<1>4. /\ Len(held) \in Nat /\ DOMAIN held = 1 .. Len(held)
      /\ \A i \in DOMAIN held : held[i] \in DOMAIN staged
  BY <1>1
<1>5. DOMAIN writes = 1 .. Len(held)
  BY <1>3, <1>4
<1>6. \A i \in 1 .. Len(held) : /\ writes[i].key = <<"balance", held[i]>>
                                /\ writes[i].value = [amount |-> staged[held[i]]]
  BY <1>3, <1>4
<1>7. ASSUME NEW i \in 1 .. Len(held)
      PROVE  \E w \in Owner, k \in TokenKey : held[i] = <<w, k>> /\ <<w, k>> \in DOMAIN staged
  <2>1. held[i] \in DOMAIN staged
    BY <1>4
  <2>2. held[i] \in Holding
    BY <1>2, <2>1
  <2>3. QED
    BY <2>1, <2>2 DEF Holding
<1>8. ASSUME NEW i \in 1 .. Len(held)
      PROVE  writes[i] \in Write
  <2>1. PICK w \in Owner, k \in TokenKey : held[i] = <<w, k>> /\ <<w, k>> \in DOMAIN staged
    BY <1>7
  <2>2. <<"balance", held[i]>> \in Key
    BY <2>1, KeyIs DEF Balance
  <2>3. [amount |-> staged[held[i]]] \in [amount : Nat]
    BY <1>2, <2>1
  <2>4. writes[i] = [key |-> <<"balance", held[i]>>, value |-> [amount |-> staged[held[i]]]]
    BY <1>3, <1>4
  <2>5. QED
    BY <2>2, <2>3, <2>4 DEF Write
<1>9. writes \in Seq(Write)
  <2>1. writes = [i \in 1 .. Len(held) |-> writes[i]]
    BY <1>3, <1>4
  <2>2. writes \in [1 .. Len(held) -> Write]
    BY <1>8, <2>1
  <2>3. QED
    BY <1>4, <2>2
<1>10. DOMAIN done = Key /\ DOMAIN cur = Key
  BY DEF Apply, RecordsOK
<1>11. ASSUME NEW key \in Key, \A i \in 1 .. Len(held) : <<"balance", held[i]>> # key
       PROVE  done[key] = cur[key]
  <2>1. Touches(writes, key) = {}
    BY <1>5, <1>6, <1>11 DEF Touches
  <2>2. QED
    BY <1>10, <2>1 DEF Apply
<1>12. ASSUME NEW o \in Outpoint
       PROVE  done[Utxo(o)] = cur[Utxo(o)] /\ done[Spend(o)] = cur[Spend(o)]
  <2>1. Utxo(o) \in Key /\ Spend(o) \in Key
    BY KeyIs
  <2>2. \A x : <<"balance", x>> # Utxo(o) /\ <<"balance", x>> # Spend(o)
    BY DEF Utxo, Spend
  <2>3. QED
    BY <1>11, <2>1, <2>2
<1>13. ASSUME NEW k \in TokenKey
       PROVE  done[Token(k)] = cur[Token(k)]
  <2>1. Token(k) \in Key
    BY KeyIs
  <2>2. \A x : <<"balance", x>> # Token(k)
    BY DEF Token
  <2>3. QED
    BY <1>11, <2>1, <2>2
<1>14. ASSUME NEW w \in Owner, NEW k \in TokenKey
       PROVE  done[Balance(w, k)] = IF <<w, k>> \in DOMAIN staged
                                    THEN [amount |-> staged[<<w, k>>]]
                                    ELSE cur[Balance(w, k)]
  <2> DEFINE key == Balance(w, k)
             at == Touches(writes, key)
  <2>1. key \in Key
    BY KeyIs
  <2>2. \A i \in 1 .. Len(held) : <<"balance", held[i]>> = key <=> held[i] = <<w, k>>
    BY DEF Balance
  <2>3. at = {i \in 1 .. Len(held) : held[i] = <<w, k>>}
    BY <1>5, <1>6, <2>2 DEF Touches
  <2>4. CASE <<w, k>> \in DOMAIN staged
    <3>1. at # {} /\ at \in SUBSET (1 .. Len(held))
      BY <1>1, <1>4, <2>3, <2>4
    <3>2. Max(at) \in at
      BY <1>4, <3>1, MaxIsGreatest
    <3>3. done[key] = writes[Max(at)].value
      BY <1>10, <2>1, <3>1 DEF Apply
    <3> HIDE DEF at, key
    <3>4. writes[Max(at)].value = [amount |-> staged[<<w, k>>]]
      BY <1>6, <2>3, <3>2
    <3>5. QED
      BY <2>4, <3>3, <3>4 DEF key
  <2>5. CASE <<w, k>> \notin DOMAIN staged
    <3>1. \A i \in 1 .. Len(held) : <<"balance", held[i]>> # key
      BY <1>4, <2>2, <2>5
    <3> HIDE DEF key
    <3>2. done[key] = cur[key]
      BY <1>11, <2>1, <3>1
    <3>3. QED
      BY <2>5, <3>2 DEF key
  <2>6. QED
    BY <2>4, <2>5
<1>15. RecordsOK(done)
  <2>1. ASSUME NEW w \in Owner, NEW k \in TokenKey
        PROVE  done[Balance(w, k)] \in [amount : Nat] \cup {Absent}
    <3>1. cur[Balance(w, k)] \in [amount : Nat] \cup {Absent}
      BY DEF RecordsOK
    <3>2. <<w, k>> \in DOMAIN staged => [amount |-> staged[<<w, k>>]] \in [amount : Nat]
      BY <1>2
    <3>3. QED
      BY <1>14, <3>1, <3>2
  <2>2. QED
    BY <1>10, <1>12, <1>13, <2>1 DEF RecordsOK
<1>16. QED
  BY <1>9, <1>12, <1>13, <1>14, <1>15 DEF BalancesNoted

\* What a transaction leaves.
Applied(rec, tx, done) ==
  /\ RecordsOK(done)
  /\ InputsGone(rec, tx, Steps(tx), done) /\ OutputsMade(tx, Steps(tx), done)
  /\ TokensStand(rec, tx, Steps(tx), done)
  /\ \A w \in Owner, k \in TokenKey :
       Stored(done, w, k) = Total(done, LivePaid(done, w, k))
  /\ \A k \in TokenKey :
       Accounted(Get(rec, Token(k)), Total(rec, LiveOf(rec, k))) /\ ~ Batches(tx, k)
         => Accounted(Get(done, Token(k)), Total(done, LiveOf(done, k)))

\* The balances are written last, and touch nothing else.
LEMMA DoneIs ==
  ASSUME NEW rec, NEW tx, Applicable(rec, tx), NEW height \in Nat, NEW idx \in Nat,
         NEW n, n = Steps(tx), NEW st, st = Work(rec, tx, height, idx)[n],
         NEW cur, cur = Apply(rec, st.writes),
         NEW done, done = Apply(rec, TransactionWrites(rec, tx, height, idx))
  PROVE  n \in Nat /\ Midway(rec, tx, n, st, cur) /\ BalancesNoted(cur, done, st.staged)
<1> DEFINE last == BalanceWrites(st.staged)
<1>1. tx \in Transaction /\ RecordsOK(rec)
  BY DEF Applicable
<1>2. n \in Nat
  BY <1>1, TransactionIs
<1>3. Midway(rec, tx, n, st, cur)
  <2> DEFINE work == Work(rec, tx, height, idx)
  <2> HIDE DEF work
  <2>1. work = Work(rec, tx, height, idx)
    BY DEF work
  <2>2. \A m \in 0 .. n : Midway(rec, tx, m, work[m], Apply(rec, work[m].writes))
    BY <2>1, WorkGoesOn
  <2>3. n \in 0 .. n
    BY <1>2
  <2>4. Midway(rec, tx, n, work[n], Apply(rec, work[n].writes))
    BY <2>2, <2>3
  <2>5. QED
    BY <2>4 DEF work
<1>4. TransactionWrites(rec, tx, height, idx) = st.writes \o last
  BY DEF TransactionWrites
<1>5. /\ st \in WorkState /\ IsFiniteSet(DOMAIN st.staged) /\ RecordsOK(cur)
  BY <1>3 DEF Midway
<1>6. st.writes \in Seq(Write) /\ st.staged \in Maps(Holding)
  BY <1>5 DEF WorkState
<1>7. last \in Seq(Write) /\ BalancesNoted(cur, Apply(cur, last), st.staged)
  BY <1>5, <1>6, BalanceWritesAre
<1>8. done = Apply(cur, last)
  <2> HIDE DEF last
  <2>1. Apply(rec, st.writes \o last) = Apply(Apply(rec, st.writes), last)
    BY <1>6, <1>7, ApplyTwice
  <2>2. QED
    BY <1>4, <2>1
<1>9. QED
  BY <1>2, <1>3, <1>7, <1>8

LEMMA TransactionApplied ==
  ASSUME NEW rec, NEW tx, Applicable(rec, tx), NEW height \in Nat, NEW idx \in Nat,
         NEW done, done = Apply(rec, TransactionWrites(rec, tx, height, idx))
  PROVE  Applied(rec, tx, done)
<1> DEFINE n == Steps(tx)
           st == Work(rec, tx, height, idx)[n]
           cur == Apply(rec, st.writes)
<1>1. n \in Nat /\ Midway(rec, tx, n, st, cur) /\ BalancesNoted(cur, done, st.staged)
  BY DoneIs
<1> HIDE DEF n, st, cur
<1>2. /\ st \in WorkState /\ IsFiniteSet(DOMAIN st.staged)
      /\ RecordsOK(cur) /\ IsFiniteSet(Live(cur))
      /\ InputsGone(rec, tx, n, cur) /\ OutputsMade(tx, n, cur)
      /\ TokensStand(rec, tx, n, cur)
      /\ BalancesStaged(rec, st, cur)
      /\ SupplyKept(rec, tx, st, cur)
  BY <1>1 DEF Midway
<1>3. /\ st.writes \in Seq(Write) /\ st.staged \in Maps(Holding)
      /\ st.remaining \in Maps(TokenKey)
  BY <1>2 DEF WorkState
<1>4. /\ RecordsOK(done)
      /\ \A o \in Outpoint : done[Utxo(o)] = cur[Utxo(o)]
      /\ \A o \in Outpoint : done[Spend(o)] = cur[Spend(o)]
      /\ \A k \in TokenKey : done[Token(k)] = cur[Token(k)]
      /\ \A w \in Owner, k \in TokenKey :
           done[Balance(w, k)] = IF <<w, k>> \in DOMAIN st.staged
                                 THEN [amount |-> st.staged[<<w, k>>]]
                                 ELSE cur[Balance(w, k)]
  BY <1>1 DEF BalancesNoted
<1>5. /\ Live(done) = Live(cur)
      /\ \A k : Total(done, LiveOf(done, k)) = Total(cur, LiveOf(cur, k))
      /\ \A w, k : Total(done, LivePaid(done, w, k)) = Total(cur, LivePaid(cur, w, k))
  BY <1>2, <1>4, LiveSame
<1>6. InputsGone(rec, tx, n, done)
  BY <1>2, <1>4 DEF InputsGone
<1>7. OutputsMade(tx, n, done)
  BY <1>2, <1>5 DEF OutputsMade
<1>8. TokensStand(rec, tx, n, done)
  <2>1. \A k \in TokenKey : Held(done, Token(k)) <=> Held(cur, Token(k))
    BY <1>4 DEF Held, Get
  <2>2. QED
    BY <1>2, <1>4, <2>1 DEF TokensStand
<1>9. ASSUME NEW w \in Owner, NEW k \in TokenKey
      PROVE  Stored(done, w, k) = Total(done, LivePaid(done, w, k))
  <2>1. Stored(done, w, k) = Current(rec, st, w, k)
    <3>1. CASE <<w, k>> \in DOMAIN st.staged
      <4>1. done[Balance(w, k)] = [amount |-> st.staged[<<w, k>>]]
        BY <1>4, <3>1
      <4>2. st.staged[<<w, k>>] \in Nat
        BY <1>3, <3>1, MapIs
      <4>3. [amount |-> st.staged[<<w, k>>]] \in [amount : Nat]
        BY <4>2
      <4>4. Held(done, Balance(w, k))
        BY <4>1, <4>3, MarkAssumption DEF Held, Get
      <4>5. QED
        BY <3>1, <4>1, <4>4 DEF Stored, Current
    <3>2. CASE <<w, k>> \notin DOMAIN st.staged
      <4>1. done[Balance(w, k)] = rec[Balance(w, k)]
        BY <1>2, <1>4, <3>2 DEF BalancesStaged
      <4>2. QED
        BY <3>2, <4>1 DEF Stored, Current, Held, Get
    <3>3. QED
      BY <3>1, <3>2
  <2>2. Current(rec, st, w, k) = Total(cur, LivePaid(cur, w, k))
    BY <1>2 DEF BalancesStaged
  <2>3. QED
    BY <1>5, <2>1, <2>2
<1>10. ASSUME NEW k \in TokenKey,
              Accounted(Get(rec, Token(k)), Total(rec, LiveOf(rec, k))), ~ Batches(tx, k)
       PROVE  Accounted(Get(done, Token(k)), Total(done, LiveOf(done, k)))
  <2> DEFINE c == Total(cur, LiveOf(cur, k))
             l == Left(st, k)
  <2>1. Accounted(Get(cur, Token(k)), c + l)
    BY <1>2, <1>10 DEF SupplyKept
  <2>2. c \in Nat /\ l \in Nat
    BY <1>2, <1>3, TotalsAre, LeftIs
  <2>3. Get(cur, Token(k)) \in TokenRecord \cup {Absent}
    BY <1>2, RecordIs
  <2>4. Get(done, Token(k)) = Get(cur, Token(k)) /\ Total(done, LiveOf(done, k)) = c
    BY <1>4, <1>5 DEF Get
  <2> HIDE DEF c, l
  <2>5. c + l \in Nat /\ c <= c + l
    BY <2>2
  <2>6. Accounted(Get(cur, Token(k)), c)
    BY <2>1, <2>2, <2>3, <2>5, AccountedLess
  <2>7. QED
    BY <2>4, <2>6
<1>11. QED
  BY <1>4, <1>6, <1>7, <1>8, <1>9, <1>10 DEF Applied, n

-----------------------------------------------------------------------------
(* The specification.                                                         *)

\* What the chain made of outputs: finitely many, each with the number of the
\* transaction that made it.
LEMMA ChainIs ==
  ASSUME LedgerIInv
  PROVE  /\ RecordsOK(records)
         /\ Len(chain) \in Nat /\ Len(chain) <= MaxTxs /\ DOMAIN chain = 1 .. Len(chain)
         /\ chain \in Seq(Transaction)
         /\ \A i \in 1 .. Len(chain) : chain[i] \in Transaction /\ chain[i].id = i
         /\ Live(records) \in SUBSET Unspent
         /\ Unspent \in SUBSET Outpoint /\ IsFiniteSet(Unspent)
         /\ \A o \in Unspent : o[1] \in 1 .. Len(chain)
<1>1. TypeOK
  BY DEF LedgerIInv, OutputsAreLiveOrSpent
<1>2. RecordsOK(records) /\ chain \in Seq(Transaction) /\ Len(chain) \in 0 .. MaxTxs
  BY <1>1 DEF TypeOK, Transaction
<1>3. /\ Len(chain) \in Nat /\ Len(chain) <= MaxTxs /\ DOMAIN chain = 1 .. Len(chain)
      /\ \A i \in 1 .. Len(chain) : chain[i] \in Transaction
  BY <1>2, BoundAssumption
<1>4. \A i \in 1 .. Len(chain) : chain[i].id = i
  BY <1>1, <1>3 DEF TypeOK
<1>5. Live(records) \in SUBSET Unspent
  BY DEF LedgerIInv, OutputsAreLiveOrSpent, Live
<1>6. ASSUME NEW i \in 1 .. Len(chain)
      PROVE  /\ IsFiniteSet(Outs(chain[i]))
             /\ \A o \in Outs(chain[i]) : o \in Outpoint /\ o[1] = i
  <2> DEFINE tx == chain[i]
             f == [v \in DOMAIN tx.outputs |-> <<tx.id, v>>]
  <2>1. tx \in Transaction /\ tx.id = i
    BY <1>3, <1>4
  <2> HIDE DEF tx
  <2>2. tx.id \in TxId /\ tx.outputs \in Outputs
    BY <2>1 DEF Transaction
  <2>3. \A o \in Outs(tx) : o \in Outpoint /\ o[1] = i
    BY <2>1, <2>2 DEF Outs, Outpoint
  <2>4. Len(tx.outputs) \in Nat /\ DOMAIN tx.outputs = 1 .. Len(tx.outputs)
    BY <2>1, TransactionIs
  <2>5. IsFiniteSet(DOMAIN tx.outputs)
    BY <2>4, FS_Interval
  <2>6. f \in Surjection(DOMAIN tx.outputs, Outs(tx))
    BY DEF Surjection, Outs
  <2>7. IsFiniteSet(Outs(tx))
    BY <2>5, <2>6, FS_Surjection
  <2>8. QED
    BY <2>3, <2>7 DEF tx
<1>7. \A o \in Unspent : \E i \in 1 .. Len(chain) : o \in Outs(chain[i])
  BY <1>3 DEF Unspent, ToSet
<1>8. /\ Unspent \in SUBSET Outpoint
      /\ \A o \in Unspent : o[1] \in 1 .. Len(chain)
  BY <1>6, <1>7
<1>9. IsFiniteSet(Unspent)
  <2> DEFINE all == {Outs(chain[i]) : i \in 1 .. Len(chain)}
             g == [i \in 1 .. Len(chain) |-> Outs(chain[i])]
  <2>1. g \in Surjection(1 .. Len(chain), all)
    BY DEF Surjection
  <2>2. IsFiniteSet(1 .. Len(chain))
    BY <1>3, FS_Interval
  <2>3. IsFiniteSet(all)
    BY <2>1, <2>2, FS_Surjection
  <2>4. \A T \in all : IsFiniteSet(T)
    BY <1>6
  <2>5. Unspent \in SUBSET (UNION all)
    BY <1>7
  <2> HIDE DEF all
  <2>6. IsFiniteSet(UNION all)
    BY <2>3, <2>4, FS_UNION
  <2>7. QED
    BY <2>5, <2>6, FS_Subset
<1>10. QED
  BY <1>2, <1>3, <1>4, <1>5, <1>8, <1>9

\* The next transaction may be applied.
LEMMA NextApplicable ==
  ASSUME LedgerIInv, Len(chain) < MaxTxs,
         NEW inputs \in SUBSET Unspent, NEW outputs \in Outputs,
         NEW tx, tx = [id |-> Len(chain) + 1, inputs |-> SetToSeq(inputs), outputs |-> outputs]
  PROVE  Applicable(records, tx) /\ Ins(tx) \in SUBSET inputs /\ tx.outputs = outputs
<1>1. /\ RecordsOK(records) /\ Len(chain) \in Nat
      /\ Live(records) \in SUBSET Unspent
      /\ Unspent \in SUBSET Outpoint /\ IsFiniteSet(Unspent)
      /\ \A o \in Unspent : o[1] \in 1 .. Len(chain)
  BY ChainIs
<1>2. IsFiniteSet(inputs) /\ IsFiniteSet(Live(records))
  BY <1>1, FS_Subset
<1> DEFINE list == SetToSeq(inputs)
<1>3. list \in Seq(inputs) /\ IsInjective(list)
  BY <1>2, SetToSeqIs
<1>4. tx.id = Len(chain) + 1 /\ tx.inputs = list /\ tx.outputs = outputs
  OBVIOUS
<1> HIDE DEF list
<1>5. tx.id \in TxId
  BY <1>1, <1>4, BoundAssumption DEF TxId
<1>6. list \in Seq(Outpoint)
  <2>1. inputs \in SUBSET Outpoint
    BY <1>1
  <2>2. QED
    BY <1>3, <2>1, SeqMonotonic
<1>7. tx \in Transaction
  BY <1>5, <1>6 DEF Transaction, list
<1>8. Ins(tx) \in SUBSET inputs
  <2>1. \A i \in DOMAIN list : list[i] \in inputs
    BY <1>3
  <2>2. QED
    BY <1>4, <2>1 DEF Ins, ToSet
<1>9. \A o \in Ins(tx) \cup Live(records) : o[1] # tx.id
  <2>1. \A o \in Unspent : o[1] # tx.id
    BY <1>1, <1>4
  <2>2. QED
    BY <1>1, <1>8, <2>1
<1>10. \A w \in Owner, k \in TokenKey :
         Stored(records, w, k) = Total(records, LivePaid(records, w, k))
  BY DEF LedgerIInv, BalancesMatchOutputs
<1>11. QED
  BY <1>1, <1>2, <1>3, <1>4, <1>7, <1>8, <1>9, <1>10 DEF Applicable

LEMMA InitLedger == Init => LedgerIInv
<1> SUFFICES ASSUME Init PROVE LedgerIInv
  OBVIOUS
<1>1. /\ records = [k \in Key |-> Absent] /\ chain = << >>
  BY DEF Init
<1>2. /\ DOMAIN records = Key
      /\ \A o \in Outpoint : records[Utxo(o)] = Absent /\ records[Spend(o)] = Absent
      /\ \A k \in TokenKey : records[Token(k)] = Absent
      /\ \A w \in Owner, k \in TokenKey : records[Balance(w, k)] = Absent
  BY <1>1, KeyIs
<1>3. RecordsOK(records)
  BY <1>2 DEF RecordsOK
<1>4. /\ \A o \in Outpoint : ~ Held(records, Utxo(o)) /\ ~ Held(records, Spend(o))
      /\ \A k \in TokenKey : Get(records, Token(k)) = Absent
      /\ \A w \in Owner, k \in TokenKey : ~ Held(records, Balance(w, k))
  BY <1>2 DEF Held, Get
<1>5. Live(records) = {}
  BY <1>4 DEF Live
<1>6. chain \in Seq(Transaction) /\ Len(chain) = 0 /\ DOMAIN chain = {}
  BY <1>1
<1>7. TypeOK
  BY <1>3, <1>6, BoundAssumption DEF TypeOK, Transaction
<1>8. OutputsAreLiveOrSpent
  BY <1>4, <1>5, <1>7 DEF OutputsAreLiveOrSpent
<1>9. SpendsEarlier
  BY <1>6 DEF SpendsEarlier
<1>10. \A w, k : LiveOf(records, k) = {} /\ LivePaid(records, w, k) = {}
  BY <1>5 DEF LiveOf, LivePaid
<1>11. BalancesMatchOutputs
  BY <1>4, <1>10, TotalOfNone DEF BalancesMatchOutputs, Stored
<1>12. SupplyCoversCirculation
  BY <1>4, <1>10, TotalOfNone DEF SupplyCoversCirculation, SupplyAccounted, Accounted
<1>13. QED
  BY <1>8, <1>9, <1>11, <1>12 DEF LedgerIInv

\* One transaction more keeps the invariant, and lets every deploy stand.
LEMMA ApplyKeeps ==
  ASSUME LedgerIInv,
         NEW inputs \in SUBSET Unspent, NEW outputs \in Outputs, ApplyNext(inputs, outputs)
  PROVE  /\ LedgerIInv'
         /\ \A k \in TokenKey :
              Held(records, Token(k)) =>
                Held(records', Token(k)) /\ Continues(records[Token(k)], records'[Token(k)])
<1> DEFINE tx == [id |-> Len(chain) + 1, inputs |-> SetToSeq(inputs), outputs |-> outputs]
<1>1. /\ Len(chain) < MaxTxs
      /\ records' = Apply(records, TransactionWrites(records, tx, tx.id, 0))
      /\ chain' = Append(chain, tx)
  BY DEF ApplyNext
<1>2. /\ Len(chain) \in Nat /\ Len(chain) <= MaxTxs /\ DOMAIN chain = 1 .. Len(chain)
      /\ chain \in Seq(Transaction)
      /\ \A i \in 1 .. Len(chain) : chain[i] \in Transaction /\ chain[i].id = i
      /\ \A o \in Unspent : o[1] \in 1 .. Len(chain)
  BY ChainIs
<1>3. tx.id = Len(chain) + 1
  OBVIOUS
<1>4. Applicable(records, tx) /\ Ins(tx) \in SUBSET inputs /\ tx.outputs = outputs
  BY <1>1, NextApplicable
<1> HIDE DEF tx
<1>5. tx \in Transaction /\ RecordsOK(records) /\ tx.id \in Nat
  BY <1>2, <1>3, <1>4 DEF Applicable
<1>6. Applied(records, tx, records')
  <2>1. 0 \in Nat
    OBVIOUS
  <2>2. QED
    BY <1>1, <1>4, <1>5, <2>1, TransactionApplied
<1>7. /\ RecordsOK(records')
      /\ InputsGone(records, tx, Steps(tx), records')
      /\ OutputsMade(tx, Steps(tx), records')
      /\ TokensStand(records, tx, Steps(tx), records')
      /\ \A w \in Owner, k \in TokenKey :
           Stored(records', w, k) = Total(records', LivePaid(records', w, k))
      /\ \A k \in TokenKey :
           Accounted(Get(records, Token(k)), Total(records, LiveOf(records, k)))
             /\ ~ Batches(tx, k)
           => Accounted(Get(records', Token(k)), Total(records', LiveOf(records', k)))
  BY <1>6 DEF Applied
<1>8. /\ Len(chain') = Len(chain) + 1 /\ DOMAIN chain' = 1 .. Len(chain) + 1
      /\ chain' \in Seq(Transaction)
      /\ \A i \in 1 .. Len(chain) : chain'[i] = chain[i]
      /\ chain'[Len(chain) + 1] = tx
  BY <1>1, <1>2, <1>5
<1>9. ToSet(chain') = ToSet(chain) \cup {tx}
  BY <1>2, <1>8 DEF ToSet
<1>10. TypeOK'
  <2>1. Len(chain') \in 0 .. MaxTxs
    BY <1>1, <1>2, <1>8, BoundAssumption
  <2>2. \A i \in DOMAIN chain' : chain'[i].id = i
    BY <1>2, <1>3, <1>8
  <2>3. QED
    BY <1>7, <1>8, <2>1, <2>2 DEF TypeOK, Transaction
<1>11. Used(tx, Steps(tx)) = Ins(tx)
  <2>1. /\ Len(tx.inputs) \in Nat /\ Len(tx.outputs) \in Nat
        /\ DOMAIN tx.inputs = 1 .. Len(tx.inputs)
    BY <1>5, TransactionIs
  <2>2. \A a, b \in Nat : \A i \in 1 .. a : i <= a + b
    OBVIOUS
  <2>3. \A i \in DOMAIN tx.inputs : i <= Steps(tx)
    BY <2>1, <2>2 DEF Steps
  <2>4. QED
    BY <2>3 DEF Used, Ins, ToSet
<1>12. \A o \in Ins(tx) : o \in Unspent /\ o[1] \in 1 .. Len(chain) /\ o[1] # tx.id
  BY <1>2, <1>3, <1>4
<1>13. ASSUME NEW o
       PROVE  SpentBy(o)' = SpentBy(o) \cup {t \in {tx} : o \in Ins(tx)}
  BY <1>9 DEF SpentBy, Ins
<1>14. SpendsEarlier'
  <2>1. \A i \in 1 .. Len(chain) : \A o \in Ins(chain[i]) : o[1] < i
    BY <1>2 DEF LedgerIInv, SpendsEarlier
  <2>2. \A o \in Ins(tx) : o[1] < Len(chain) + 1
    BY <1>2, <1>12
  <2>3. ASSUME NEW i \in DOMAIN chain', NEW o \in Ins(chain'[i])
        PROVE  o[1] < i
    <3>1. CASE i = Len(chain) + 1
      BY <1>8, <2>2, <2>3, <3>1
    <3>2. CASE i # Len(chain) + 1
      <4>1. i \in 1 .. Len(chain) /\ chain'[i] = chain[i]
        BY <1>2, <1>8, <3>2
      <4>2. QED
        BY <2>1, <2>3, <4>1
    <3>3. QED
      BY <3>1, <3>2
  <2>4. QED
    BY <2>3 DEF SpendsEarlier, Ins
<1>15. ASSUME NEW o, o[1] = tx.id
       PROVE  SpentBy(o) = {} /\ o \notin Ins(tx)
  <2>1. o \notin Ins(tx)
    BY <1>12, <1>15
  <2>2. ASSUME NEW t \in SpentBy(o)
        PROVE  FALSE
    <3>1. PICK i \in 1 .. Len(chain) : chain[i] = t
      BY <1>2 DEF SpentBy, ToSet
    <3>2. o \in Ins(chain[i])
      BY <3>1 DEF SpentBy
    <3>3. o[1] < i
      BY <1>2, <3>2 DEF LedgerIInv, SpendsEarlier
    <3>4. QED
      BY <1>2, <1>3, <1>15, <3>3
  <2>3. QED
    BY <2>1, <2>2
<1>16. /\ \A o \in Live(records) : o \in Unspent /\ ~ Held(records, Spend(o))
       /\ \A o \in Outpoint : Held(records, Spend(o)) =>
            \E t \in SpentBy(o) : records[Spend(o)].txid = t.id
  BY DEF LedgerIInv, OutputsAreLiveOrSpent, Live
<1>17. ASSUME NEW o \in Outpoint
       PROVE  /\ o[1] # tx.id =>
                   records'[Utxo(o)] = IF o \in Ins(tx) THEN Absent ELSE records[Utxo(o)]
              /\ o \in Ins(tx) /\ Held(records, Utxo(o)) =>
                   records'[Spend(o)] = [txid |-> tx.id]
              /\ ~ (o \in Ins(tx) /\ Held(records, Utxo(o))) =>
                   records'[Spend(o)] = records[Spend(o)]
  BY <1>7, <1>11 DEF InputsGone
<1>18. ASSUME NEW o \in Live(records')
       PROVE  o \in Unspent' /\ ~ Held(records', Spend(o))
  <2>1. o \in Outpoint
    BY DEF Live
  <2>2. CASE o[1] # tx.id
    <3>1. o \notin Ins(tx)
      BY <1>7, <1>17, <1>18, <2>1, <2>2, LiveIs, MarkAssumption
    <3>2. records'[Utxo(o)] = records[Utxo(o)]
      BY <1>17, <2>1, <2>2, <3>1
    <3>3. o \in Live(records)
      BY <1>18, <2>1, <3>2 DEF Live, Held, Get
    <3>4. o \in Unspent /\ ~ Held(records, Spend(o))
      BY <1>16, <3>3
    <3>5. o \in Unspent'
      <4>1. SpentBy(o)' = {}
        BY <1>13, <3>1, <3>4 DEF Unspent
      <4>2. o \in UNION {Outs(t) : t \in ToSet(chain')}
        BY <1>9, <3>4 DEF Unspent
      <4>3. QED
        BY <4>1, <4>2 DEF Unspent, Outs
    <3>6. QED
      BY <1>17, <2>1, <3>1, <3>4, <3>5 DEF Held, Get
  <2>3. CASE o[1] = tx.id
    <3>1. SpentBy(o) = {} /\ o \notin Ins(tx)
      BY <1>15, <2>3
    <3>2. ~ Held(records', Spend(o))
      BY <1>16, <1>17, <2>1, <3>1 DEF Held, Get
    <3>3. o \in Outs(tx)
      <4>1. o[2] \in DOMAIN tx.outputs
        BY <1>7, <1>18, <2>3 DEF OutputsMade, Looked
      <4>2. o = <<o[1], o[2]>>
        BY <2>1 DEF Outpoint
      <4>3. QED
        BY <2>3, <4>1, <4>2 DEF Outs
    <3>4. SpentBy(o)' = {}
      BY <1>13, <3>1
    <3>5. QED
      BY <1>9, <3>2, <3>3, <3>4 DEF Unspent, Outs
  <2>4. QED
    BY <2>2, <2>3
<1>19. ASSUME NEW o \in Outpoint, Held(records', Spend(o))
       PROVE  \E t \in SpentBy(o)' : records'[Spend(o)].txid = t.id
  <2>1. CASE o \in Ins(tx) /\ Held(records, Utxo(o))
    <3>1. records'[Spend(o)].txid = tx.id
      BY <1>17, <2>1
    <3>2. tx \in SpentBy(o)'
      BY <1>13, <2>1
    <3>3. QED
      BY <3>1, <3>2
  <2>2. CASE ~ (o \in Ins(tx) /\ Held(records, Utxo(o)))
    <3>1. records'[Spend(o)] = records[Spend(o)]
      BY <1>17, <2>2
    <3>2. Held(records, Spend(o))
      BY <1>19, <3>1 DEF Held, Get
    <3>3. PICK t \in SpentBy(o) : records[Spend(o)].txid = t.id
      BY <1>16, <3>2
    <3>4. t \in SpentBy(o)'
      BY <1>13, <3>3
    <3>5. QED
      BY <3>1, <3>3, <3>4
  <2>3. QED
    BY <2>1, <2>2
<1>20. OutputsAreLiveOrSpent'
  BY <1>10, <1>18, <1>19 DEF OutputsAreLiveOrSpent
<1>21. BalancesMatchOutputs'
  BY <1>7 DEF BalancesMatchOutputs
<1>22. SupplyCoversCirculation'
  <2>1. ASSUME NEW k \in TokenKey, k \notin Batched'
        PROVE  Accounted(Get(records', Token(k)), Total(records', LiveOf(records', k)))
    <3>1. k \notin Batched /\ ~ Batches(tx, k)
      BY <1>9, <2>1 DEF Batched
    <3>2. Accounted(Get(records, Token(k)), Total(records, LiveOf(records, k)))
      BY <3>1 DEF LedgerIInv, SupplyCoversCirculation, SupplyAccounted
    <3>3. QED
      BY <1>7, <3>1, <3>2
  <2>2. QED
    BY <2>1 DEF SupplyCoversCirculation, SupplyAccounted
<1>23. LedgerIInv'
  BY <1>14, <1>20, <1>21, <1>22 DEF LedgerIInv
<1>24. QED
  BY <1>7, <1>23 DEF TokensStand

LEMMA NextLedger ==
  ASSUME LedgerIInv, [Next]_vars
  PROVE  /\ LedgerIInv'
         /\ [\A k \in TokenKey :
               Held(records, Token(k)) =>
                 Held(records', Token(k))
                   /\ Continues(records[Token(k)], records'[Token(k)])]_vars
<1>1. CASE Next
  <2>1. PICK inputs \in SUBSET Unspent, outputs \in Outputs : ApplyNext(inputs, outputs)
    BY <1>1 DEF Next
  <2>2. QED
    BY <2>1, ApplyKeeps
<1>2. CASE UNCHANGED vars
  <2>1. UNCHANGED <<records, chain>>
    BY <1>2 DEF vars
  <2>2. LedgerIInv'
    BY <2>1 DEF LedgerIInv, OutputsAreLiveOrSpent, SpendsEarlier, BalancesMatchOutputs,
      SupplyCoversCirculation, SupplyAccounted, TypeOK, Unspent, SpentBy, Batched
  <2>3. QED
    BY <1>2, <2>2
<1>3. QED
  BY <1>1, <1>2

\* The invariant holds in every state: the ledger is right, output by output.
THEOREM LedgerInductive == Spec => []LedgerIInv
<1>1. LedgerIInv /\ [Next]_vars => LedgerIInv'
  BY NextLedger
<1>2. QED
  BY InitLedger, <1>1, PTL DEF Spec

\* No token output is both live and spent, and the spend names the transaction
\* that made it (rules.js:73-103).
THEOREM LiveOrSpent == Spec => []OutputsAreLiveOrSpent
<1>1. LedgerIInv => OutputsAreLiveOrSpent
  BY DEF LedgerIInv
<1>2. QED
  BY LedgerInductive, <1>1, PTL

\* A balance is the sum of the owner's live outputs (rules.js:86-103, 247-262).
THEOREM BalancesMatch == Spec => []BalancesMatchOutputs
<1>1. LedgerIInv => BalancesMatchOutputs
  BY DEF LedgerIInv
<1>2. QED
  BY LedgerInductive, <1>1, PTL

\* No more circulates than was issued, nor was more issued than the deploy's max
\* (rules.js:115-228).
THEOREM SupplyCovers == Spec => []SupplyCoversCirculation
<1>1. LedgerIInv => SupplyCoversCirculation
  BY DEF LedgerIInv
<1>2. QED
  BY LedgerInductive, <1>1, PTL

\* The first deploy of a token stands (rules.js:13-14, 139-144).
THEOREM DeploysStand == Spec => DeployStands
<1>1. LedgerIInv /\ [Next]_vars =>
        [\A k \in TokenKey :
           Held(records, Token(k)) =>
             Held(records', Token(k))
               /\ Continues(records[Token(k)], records'[Token(k)])]_vars
  BY NextLedger
<1>2. QED
  BY LedgerInductive, <1>1, PTL DEF Spec, DeployStands


-----------------------------------------------------------------------------
(* The chain and the lists the walk keeps.                                    *)

Ids == DOMAIN chain
Source == {o \in Outpoint : o[1] \in Ids}
Search == [seen : Seq(Ids), queue : Seq(Source), thrown : BOOLEAN]

\* What one follows from a transaction, and what a search has queued.
Parents(id) == {o[1] : o \in {p \in Ins(chain[id]) : DocAt(p) # NoToken}}
Queued(st) == {o[1] : o \in ToSet(st.queue)}

\* A search that threw has seen a transaction that spends a document without an op.
StumblesAt(id) == \E o \in Ins(chain[id]) : DocAt(o) # NoToken /\ DocAt(o).op = None
Justified(st) == st.thrown => \E i \in ToSet(st.seen) : StumblesAt(i)

LEMMA ChainFacts ==
  ASSUME LedgerIInv
  PROVE  /\ Len(chain) \in Nat /\ Ids = 1 .. Len(chain) /\ Ids \in SUBSET Nat
         /\ \A i \in Ids : /\ chain[i] \in Transaction /\ chain[i].id = i
                           /\ chain[i].inputs \in Seq(Source)
                           /\ \A o \in Ins(chain[i]) :
                                o \in Source /\ o[1] \in Ids /\ o[1] \in Nat /\ o[1] < i
                           /\ \A j \in Parents(i) : j \in Ids /\ j < i
<1>1. /\ Len(chain) \in Nat /\ Ids = 1 .. Len(chain)
      /\ \A i \in Ids : chain[i] \in Transaction /\ chain[i].id = i
  BY ChainIs DEF Ids
<1>2. Ids \in SUBSET Nat
  BY <1>1
<1>3. ASSUME NEW i \in Ids
      PROVE  /\ chain[i].inputs \in Seq(Source)
             /\ \A o \in Ins(chain[i]) : o \in Source /\ o[1] \in Ids /\ o[1] \in Nat /\ o[1] < i
             /\ \A j \in Parents(i) : j \in Ids /\ j < i
  <2>1. /\ chain[i].inputs \in Seq(Outpoint) /\ Len(chain[i].inputs) \in Nat
        /\ DOMAIN chain[i].inputs = 1 .. Len(chain[i].inputs)
    BY <1>1, TransactionIs
  <2>2. \A o \in Ins(chain[i]) : o \in Outpoint
    BY <2>1 DEF Ins, ToSet
  <2>3. \A o \in Ins(chain[i]) : o[1] < i
    BY DEF LedgerIInv, SpendsEarlier, Ids
  <2>4. \A o \in Outpoint : o[1] \in 1 .. MaxTxs
    BY DEF Outpoint, TxId
  <2>5. \A o \in Ins(chain[i]) : o \in Source /\ o[1] \in Ids /\ o[1] \in Nat /\ o[1] < i
    <3>1. ASSUME NEW o \in Ins(chain[i])
          PROVE  o[1] \in Ids
      <4>1. o[1] \in 1 .. MaxTxs /\ o[1] < i /\ i \in 1 .. Len(chain)
        BY <1>1, <2>2, <2>3, <2>4
      <4>2. o[1] \in 1 .. Len(chain)
        BY <1>1, <4>1, BoundAssumption
      <4>3. QED
        BY <1>1, <4>2
    <3>2. QED
      BY <1>2, <2>2, <2>3, <3>1 DEF Source
  <2>6. \A n \in DOMAIN chain[i].inputs : chain[i].inputs[n] \in Source
    BY <2>5 DEF Ins, ToSet
  <2>7. chain[i].inputs \in Seq(Source)
    BY <2>1, <2>6
  <2>8. QED
    BY <2>5, <2>7 DEF Parents
<1>4. QED
  BY <1>1, <1>2, <1>3

\* The inputs followed are the token outputs spent, less those of what was passed.
LEMMA FollowIs ==
  ASSUME LedgerIInv, NEW id \in Ids, NEW passed
  PROVE  /\ Follow(id, passed) \in Seq(Source)
         /\ \A o \in ToSet(Follow(id, passed)) : o[1] \in Parents(id)
         /\ \A j \in Parents(id) : j \notin passed =>
              \E o \in ToSet(Follow(id, passed)) : o[1] = j
         /\ Trips(Follow(id, passed)) => StumblesAt(id)
<1> DEFINE kept == {o \in Ins(chain[id]) : o[1] \notin passed /\ DocAt(o) # NoToken}
           list == Follow(id, passed)
           inputs == chain[id].inputs
<1>1. inputs \in Seq(Source)
  BY ChainFacts
<1>2. list = Kept(inputs, kept)
  BY DEF Follow
<1>3. Ins(chain[id]) = {inputs[m] : m \in DOMAIN inputs}
  BY DEF Ins, ToSet
<1> HIDE DEF list, kept, inputs
<1>4. /\ list \in Seq(Source)
      /\ \A i \in DOMAIN list : list[i] \in kept
      /\ \A m \in DOMAIN inputs : inputs[m] \in kept => \E i \in DOMAIN list : list[i] = inputs[m]
  BY <1>1, <1>2, KeptGives
<1>5. ToSet(list) = {list[i] : i \in DOMAIN list}
  BY DEF ToSet
<1>6. \A o \in ToSet(list) : o[1] \in Parents(id)
  BY <1>4, <1>5 DEF kept, Parents
<1>7. ASSUME NEW j \in Parents(id), j \notin passed
      PROVE  \E o \in ToSet(list) : o[1] = j
  <2>1. PICK o \in Ins(chain[id]) : DocAt(o) # NoToken /\ o[1] = j
    BY DEF Parents
  <2>2. o \in kept
    BY <1>7, <2>1 DEF kept
  <2>3. QED
    BY <1>3, <1>4, <1>5, <2>1, <2>2
<1>8. Trips(list) => StumblesAt(id)
  <2>1. \A o \in ToSet(list) : o \in Ins(chain[id]) /\ DocAt(o) # NoToken
    BY <1>4, <1>5 DEF kept
  <2>2. QED
    BY <2>1 DEF Trips, StumblesAt
<1>9. QED
  BY <1>4, <1>6, <1>7, <1>8 DEF list

-----------------------------------------------------------------------------
(* The walk back.                                                             *)

\* A transaction taken off the queue is seen from then on, and what it spends is
\* queued, unless it was seen or cannot be fetched.
Discovered(st, id, lost, new) ==
  /\ new \in Search
  /\ IsInjective(st.seen) => IsInjective(new.seen)
  /\ ToSet(new.seen) = ToSet(st.seen) \cup {id}
  /\ Queued(st) \subseteq Queued(new) /\ Queued(new) \subseteq Queued(st) \cup Parents(id)
  /\ lost = {} /\ id \notin ToSet(st.seen) => Parents(id) \subseteq ToSet(new.seen) \cup Queued(new)
  /\ Justified(st) => Justified(new)

LEMMA ToSetJoined ==
  ASSUME NEW X, NEW s \in Seq(X), NEW t \in Seq(X)
  PROVE  ToSet(s \o t) = ToSet(s) \cup ToSet(t)
<1>1. /\ Len(s) \in Nat /\ Len(t) \in Nat /\ Len(s \o t) = Len(s) + Len(t)
      /\ DOMAIN s = 1 .. Len(s) /\ DOMAIN t = 1 .. Len(t)
      /\ DOMAIN (s \o t) = 1 .. Len(s) + Len(t)
  OBVIOUS
<1>2. ASSUME NEW i \in 1 .. Len(s) + Len(t)
      PROVE  (s \o t)[i] = IF i <= Len(s) THEN s[i] ELSE t[i - Len(s)]
  OBVIOUS
<1>3. ASSUME NEW x \in ToSet(s \o t)
      PROVE  x \in ToSet(s) \cup ToSet(t)
  <2>1. PICK i \in 1 .. Len(s) + Len(t) : (s \o t)[i] = x
    BY <1>1 DEF ToSet
  <2>2. CASE i <= Len(s)
    <3>1. i \in 1 .. Len(s) /\ s[i] = x
      BY <1>1, <1>2, <2>1, <2>2
    <3>2. QED
      BY <1>1, <3>1 DEF ToSet
  <2>3. CASE ~ (i <= Len(s))
    <3>1. i - Len(s) \in 1 .. Len(t) /\ t[i - Len(s)] = x
      BY <1>1, <1>2, <2>1, <2>3
    <3>2. QED
      BY <1>1, <3>1 DEF ToSet
  <2>4. QED
    BY <2>2, <2>3
<1>4. ASSUME NEW i \in 1 .. Len(s)
      PROVE  s[i] \in ToSet(s \o t)
  <2>1. i \in 1 .. Len(s) + Len(t) /\ (s \o t)[i] = s[i]
    BY <1>1, <1>2
  <2>2. QED
    BY <1>1, <2>1 DEF ToSet
<1>5. ASSUME NEW i \in 1 .. Len(t)
      PROVE  t[i] \in ToSet(s \o t)
  <2>1. Len(s) + i \in 1 .. Len(s) + Len(t) /\ (s \o t)[Len(s) + i] = t[i]
    BY <1>1, <1>2
  <2>2. QED
    BY <1>1, <2>1 DEF ToSet
<1>6. ASSUME NEW x \in ToSet(s) \cup ToSet(t)
      PROVE  x \in ToSet(s \o t)
  BY <1>1, <1>4, <1>5 DEF ToSet
<1>7. QED
  BY <1>3, <1>6

LEMMA AppendedIs ==
  ASSUME NEW X, NEW s \in Seq(X), NEW x \in X
  PROVE  /\ Append(s, x) \in Seq(X)
         /\ ToSet(Append(s, x)) = ToSet(s) \cup {x}
         /\ IsInjective(s) /\ x \notin ToSet(s) => IsInjective(Append(s, x))
<1> DEFINE more == Append(s, x)
<1>1. /\ more \in Seq(X) /\ Len(s) \in Nat /\ Len(more) = Len(s) + 1
      /\ DOMAIN s = 1 .. Len(s) /\ DOMAIN more = 1 .. Len(s) + 1
      /\ more[Len(s) + 1] = x
      /\ \A i \in 1 .. Len(s) : more[i] = s[i]
  OBVIOUS
<1>2. \A i \in 1 .. Len(s) + 1 : i \in 1 .. Len(s) \/ i = Len(s) + 1
  BY <1>1
<1>3. Len(s) + 1 \in 1 .. Len(s) + 1 /\ \A i \in 1 .. Len(s) : i \in 1 .. Len(s) + 1
  BY <1>1
<1> HIDE DEF more
<1>4. ToSet(more) = ToSet(s) \cup {x}
  BY <1>1, <1>2, <1>3 DEF ToSet
<1>5. ASSUME IsInjective(s), x \notin ToSet(s)
      PROVE  IsInjective(more)
  <2>1. \A i \in 1 .. Len(s) : s[i] # x
    BY <1>1, <1>5 DEF ToSet
  <2>2. QED
    BY <1>1, <1>2, <1>5, <2>1 DEF IsInjective
<1>6. QED
  BY <1>1, <1>4, <1>5 DEF more

LEMMA DiscoverGives ==
  ASSUME LedgerIInv, NEW st \in Search, NEW id \in Ids, NEW lost,
         NEW new, new = Discover(st, id, lost)
  PROVE  Discovered(st, id, lost, new)
<1>1. st.seen \in Seq(Ids) /\ st.queue \in Seq(Source)
  BY DEF Search
<1>2. CASE id \in ToSet(st.seen)
  <2>1. new = st
    BY <1>2 DEF Discover
  <2>2. QED
    BY <1>2, <2>1 DEF Discovered
<1>3. CASE id \notin ToSet(st.seen)
  <2> DEFINE passed == ToSet(st.seen) \cup {id} \cup lost
             more == Follow(id, passed)
  <2>1. new = [seen |-> Append(st.seen, id), queue |-> st.queue \o more,
               thrown |-> st.thrown \/ Trips(more)]
    BY <1>3 DEF Discover
  <2> HIDE DEF passed
  <2>2. /\ more \in Seq(Source)
        /\ \A o \in ToSet(more) : o[1] \in Parents(id)
        /\ \A j \in Parents(id) : j \notin passed => \E o \in ToSet(more) : o[1] = j
        /\ Trips(more) => StumblesAt(id)
    BY FollowIs
  <2> HIDE DEF more
  <2>3. /\ new.seen \in Seq(Ids) /\ ToSet(new.seen) = ToSet(st.seen) \cup {id}
        /\ IsInjective(st.seen) => IsInjective(new.seen)
    BY <1>1, <1>3, <2>1, AppendedIs
  <2>4. new.queue \in Seq(Source) /\ ToSet(new.queue) = ToSet(st.queue) \cup ToSet(more)
    <3>1. st.queue \o more \in Seq(Source)
      BY <1>1, <2>2
    <3>2. QED
      BY <1>1, <2>1, <2>2, <3>1, ToSetJoined
  <2>5. new \in Search
    BY <2>1, <2>3, <2>4 DEF Search
  <2>6. Queued(st) \subseteq Queued(new) /\ Queued(new) \subseteq Queued(st) \cup Parents(id)
    BY <2>2, <2>4 DEF Queued
  <2>7. ASSUME lost = {}, NEW j \in Parents(id)
        PROVE  j \in ToSet(new.seen) \cup Queued(new)
    <3>1. CASE j \in passed
      BY <2>3, <2>7, <3>1 DEF passed
    <3>2. CASE j \notin passed
      BY <2>2, <2>4, <3>2 DEF Queued
    <3>3. QED
      BY <3>1, <3>2
  <2>8. ASSUME Justified(st), new.thrown
        PROVE  \E i \in ToSet(new.seen) : StumblesAt(i)
    <3> DEFINE thrown == st.thrown \/ Trips(more)
    <3>1. new.thrown = thrown
      <4>1. new = [seen |-> Append(st.seen, id), queue |-> st.queue \o more, thrown |-> thrown]
        BY <2>1, Zenon
      <4> HIDE DEF thrown
      <4>2. QED
        BY <4>1, SMT
    <3>2. st.thrown \/ StumblesAt(id)
      BY <2>2, <2>8, <3>1, Zenon
    <3>3. QED
      BY <2>3, <2>8, <3>2, Zenon DEF Justified
  <2>9. QED
    BY <2>3, <2>5, <2>6, <2>7, <2>8 DEF Discovered, Justified
<1>4. QED
  BY <1>2, <1>3

\* A level, transaction by transaction.
LEMMA LevelSteps ==
  ASSUME LedgerIInv, NEW st \in Search, NEW lost
  PROVE  \E g : /\ g[0] = [st EXCEPT !.queue = << >>]
                /\ Level(st, lost) = g[Len(st.queue)]
                /\ \A n \in 1 .. Len(st.queue) :
                     g[n] = Discover(g[n - 1], st.queue[n][1], lost)
<1> DEFINE N == Len(st.queue)
           base == [st EXCEPT !.queue = << >>]
           next == [n \in 1 .. N |-> [x \in Search |-> Discover(x, st.queue[n][1], lost)]]
           Walks(g) == g = [n \in 0 .. N |->
                              IF n = 0 THEN base ELSE Discover(g[n - 1], st.queue[n][1], lost)]
           it == CHOOSE g : Walks(g)
<1>1. N \in Nat /\ base \in Search /\ \A n \in 1 .. N : st.queue[n][1] \in Ids
  <2>1. << >> \in Seq(Source)
    OBVIOUS
  <2>2. base \in Search
    BY <2>1 DEF Search
  <2>3. N \in Nat /\ \A n \in 1 .. N : st.queue[n][1] \in Ids
    BY DEF Search, Source
  <2>4. QED
    BY <2>2, <2>3
<1>2. next \in [1 .. N -> [Search -> Search]]
  <2>1. ASSUME NEW n \in 1 .. N, NEW x \in Search
        PROVE  Discover(x, st.queue[n][1], lost) \in Search
    BY <1>1, DiscoverGives DEF Discovered
  <2>2. QED
    BY <2>1
<1> HIDE DEF N, base
<1>3. PICK g \in [0 .. N -> Search] : Iteration(g, N, base, next)
  <2> HIDE DEF next
  <2>1. QED
    BY <1>1, <1>2, Iterates
<1> DEFINE h == [n \in 0 .. N |->
                   IF n = 0 THEN base ELSE Discover(g[n - 1], st.queue[n][1], lost)]
<1>4. g = h
  <2>1. ASSUME NEW n \in 0 .. N, n # 0
        PROVE  g[n] = h[n]
    <3>1. n \in 1 .. N /\ n - 1 \in 0 .. N
      BY <1>1, <2>1
    <3>2. g[n] = next[n][g[n - 1]]
      BY <1>3, <2>1 DEF Iteration
    <3>3. g[n - 1] \in Search
      BY <3>1
    <3>4. QED
      BY <2>1, <3>1, <3>2, <3>3
  <2>2. 0 \in 0 .. N /\ g[0] = h[0]
    BY <1>1, <1>3 DEF Iteration
  <2>3. h = [n \in 0 .. N |-> h[n]] /\ \A n \in 0 .. N : g[n] = h[n]
    BY <2>1, <2>2
  <2> HIDE DEF h
  <2>4. g = [n \in 0 .. N |-> g[n]]
    BY <1>3
  <2>5. QED
    BY <2>3, <2>4
<1>5. Walks(it)
  BY <1>4
<1> HIDE DEF it
<1>6. Level(st, lost) = it[N]
  BY DEF Level, N, it, base
<1>7. it = [n \in 0 .. N |-> IF n = 0 THEN base ELSE Discover(it[n - 1], st.queue[n][1], lost)]
  BY <1>5
<1>8. 0 \in 0 .. N /\ \A n \in 1 .. N : n \in 0 .. N /\ n # 0
  BY <1>1
<1>9. it[0] = base /\ \A n \in 1 .. N : it[n] = Discover(it[n - 1], st.queue[n][1], lost)
  BY <1>7, <1>8
<1> HIDE DEF Walks
<1>10. QED
  BY <1>6, <1>9 DEF N, base

\* After a level all that was queued is seen, and what is queued are parents of it.
Covered(st) == \A i \in ToSet(st.seen) : Parents(i) \subseteq ToSet(st.seen) \cup Queued(st)

LEMMA LevelGives ==
  ASSUME LedgerIInv, NEW st \in Search, IsInjective(st.seen), NEW lost,
         NEW new, new = Level(st, lost)
  PROVE  /\ new \in Search /\ IsInjective(new.seen)
         /\ ToSet(new.seen) = ToSet(st.seen) \cup Queued(st)
         /\ \A j \in Queued(new) : \E i \in Queued(st) : j \in Parents(i)
         /\ lost = {} /\ Covered(st) => Covered(new)
         /\ Justified(st) => Justified(new)
<1>1. PICK g : /\ g[0] = [st EXCEPT !.queue = << >>]
               /\ Level(st, lost) = g[Len(st.queue)]
               /\ \A n \in 1 .. Len(st.queue) :
                    g[n] = Discover(g[n - 1], st.queue[n][1], lost)
  BY LevelSteps
<1> DEFINE N == Len(st.queue)
           id == [n \in 1 .. N |-> st.queue[n][1]]
           First(n) == {id[m] : m \in {l \in 1 .. N : l <= n}}
           Fine(n) ==
             /\ g[n] \in Search /\ IsInjective(g[n].seen)
             /\ ToSet(g[n].seen) = ToSet(st.seen) \cup First(n)
             /\ \A j \in Queued(g[n]) : \E i \in First(n) : j \in Parents(i)
             /\ lost = {} /\ Covered(st) =>
                  \A i \in ToSet(g[n].seen) :
                    Parents(i) \subseteq ToSet(g[n].seen) \cup Queued(g[n]) \cup Queued(st)
             /\ Justified(st) => Justified(g[n])
           P == {n \in 0 .. N : Fine(n)}
<1>2. /\ N \in Nat /\ N \in 0 .. N /\ DOMAIN st.queue = 1 .. N
      /\ \A n \in 1 .. N : id[n] \in Ids
      /\ st.seen \in Seq(Ids)
  BY DEF Search, Source
<1>3. Queued(st) = {id[n] : n \in 1 .. N}
  BY <1>2 DEF Queued, ToSet
<1> HIDE DEF N
<1>4. First(N) = Queued(st)
  BY <1>2, <1>3
<1>5. First(0) = {}
  BY <1>2
<1>6. \A n \in 1 .. N : First(n) = First(n - 1) \cup {id[n]}
  <2>1. \A n \in 1 .. N : \A m \in 1 .. N : m <= n <=> m <= n - 1 \/ m = n
    BY <1>2
  <2>2. \A n \in 1 .. N : n <= n /\ n \in 1 .. N
    BY <1>2
  <2> HIDE DEF id
  <2>3. QED
    BY <2>1, <2>2
<1>7. \A n \in 1 .. N : g[n] = Discover(g[n - 1], id[n], lost)
  BY <1>1 DEF N
<1> HIDE DEF id, First
<1>8. 0 \in P
  <2>1. << >> \in Seq(Source) /\ 0 \in 0 .. N /\ ToSet(<< >>) = {}
    BY <1>2 DEF ToSet
  <2>2. /\ g[0].seen = st.seen /\ g[0].queue = << >> /\ g[0].thrown = st.thrown
        /\ g[0] \in Search
    BY <1>1, <1>2, <2>1 DEF Search
  <2>3. Queued(g[0]) = {}
    BY <2>1, <2>2 DEF Queued
  <2>4. \A i \in ToSet(g[0].seen) :
          Covered(st) => Parents(i) \subseteq ToSet(g[0].seen) \cup Queued(st)
    BY <2>2 DEF Covered
  <2>5. Justified(st) => Justified(g[0])
    BY <2>2 DEF Justified
  <2>6. Fine(0)
    BY <1>5, <2>2, <2>3, <2>4, <2>5
  <2>7. QED
    BY <2>1, <2>6
<1>9. ASSUME NEW n \in 1 .. N, n - 1 \in P
      PROVE  n \in P
  <2> DEFINE was == g[n - 1]
             is == g[n]
  <2>1. /\ was \in Search /\ IsInjective(was.seen)
        /\ ToSet(was.seen) = ToSet(st.seen) \cup First(n - 1)
        /\ \A j \in Queued(was) : \E i \in First(n - 1) : j \in Parents(i)
        /\ lost = {} /\ Covered(st) =>
             \A i \in ToSet(was.seen) :
               Parents(i) \subseteq ToSet(was.seen) \cup Queued(was) \cup Queued(st)
        /\ Justified(st) => Justified(was)
    BY <1>9
  <2>2. is = Discover(was, id[n], lost) /\ id[n] \in Ids
    BY <1>2, <1>7
  <2> HIDE DEF was, is
  <2>3. Discovered(was, id[n], lost, is)
    BY <2>1, <2>2, DiscoverGives
  <2>4. /\ is \in Search /\ IsInjective(is.seen)
        /\ ToSet(is.seen) = ToSet(was.seen) \cup {id[n]}
        /\ Queued(was) \subseteq Queued(is)
        /\ Queued(is) \subseteq Queued(was) \cup Parents(id[n])
        /\ lost = {} /\ id[n] \notin ToSet(was.seen) =>
             Parents(id[n]) \subseteq ToSet(is.seen) \cup Queued(is)
        /\ Justified(was) => Justified(is)
    BY <2>1, <2>3 DEF Discovered
  <2>5. First(n) = First(n - 1) \cup {id[n]}
    BY <1>6
  <2>6. ToSet(is.seen) = ToSet(st.seen) \cup First(n)
    BY <2>1, <2>4, <2>5
  <2>7. \A j \in Queued(is) : \E i \in First(n) : j \in Parents(i)
    BY <2>1, <2>4, <2>5
  <2>8. ASSUME lost = {}, Covered(st), NEW i \in ToSet(is.seen)
        PROVE  Parents(i) \subseteq ToSet(is.seen) \cup Queued(is) \cup Queued(st)
    BY <2>1, <2>4, <2>8
  <2>9. Fine(n)
    BY <2>1, <2>4, <2>6, <2>7, <2>8 DEF is
  <2>10. n \in 0 .. N
    BY <1>2
  <2> HIDE DEF Fine
  <2>11. QED
    BY <2>9, <2>10
<1>10. \A n \in 0 .. N : n \in P
  <2> HIDE DEF P
  <2>1. QED
    BY <1>2, <1>8, <1>9, StepByStep
<1>11. Fine(N)
  <2> HIDE DEF Fine
  <2>1. QED
    BY <1>2, <1>10
<1>12. g[N] = new
  BY <1>1 DEF N
<1> HIDE DEF P
<1>13. QED
  BY <1>4, <1>11, <1>12 DEF Covered

\* The levels, one by one.
LEMMA CollectSteps ==
  ASSUME LedgerIInv, NEW o \in Source, NEW lost
  PROVE  \E g : /\ g[0] = [seen |-> << >>, queue |-> <<o>>, thrown |-> FALSE]
                /\ CollectHistory(o, lost) = g[MaxDepth + 1]
                /\ \A d \in 1 .. MaxDepth + 1 :
                     g[d - 1] \in Search /\ IsInjective(g[d - 1].seen)
                       => g[d] = Level(g[d - 1], lost)
<1> DEFINE N == MaxDepth + 1
           Fit == {st \in Search : IsInjective(st.seen)}
           base == [seen |-> << >>, queue |-> <<o>>, thrown |-> FALSE]
           next == [d \in 1 .. N |-> [x \in Fit |-> Level(x, lost)]]
           Walks(g) == g = [d \in 0 .. N |-> IF d = 0 THEN base ELSE Level(g[d - 1], lost)]
           it == CHOOSE g : Walks(g)
<1>1. N \in Nat /\ base \in Fit
  <2>1. << >> \in Seq(Ids) /\ IsInjective(<< >>) /\ <<o>> \in Seq(Source)
    BY DEF IsInjective
  <2>2. QED
    BY <2>1, DepthAssumption DEF Search
<1>2. next \in [1 .. N -> [Fit -> Fit]]
  <2>1. ASSUME NEW x \in Fit
        PROVE  Level(x, lost) \in Fit
    BY LevelGives
  <2>2. QED
    BY <2>1
<1> HIDE DEF N, base
<1>3. PICK g \in [0 .. N -> Fit] : Iteration(g, N, base, next)
  <2> HIDE DEF next, Fit
  <2>1. QED
    BY <1>1, <1>2, Iterates
<1> DEFINE h == [d \in 0 .. N |-> IF d = 0 THEN base ELSE Level(g[d - 1], lost)]
<1>4. g = h
  <2>1. ASSUME NEW d \in 0 .. N, d # 0
        PROVE  g[d] = h[d]
    <3>1. d \in 1 .. N /\ d - 1 \in 0 .. N
      BY <1>1, <2>1
    <3>2. g[d] = next[d][g[d - 1]]
      BY <1>3, <2>1 DEF Iteration
    <3>3. g[d - 1] \in Fit
      BY <3>1
    <3>4. QED
      BY <2>1, <3>1, <3>2, <3>3
  <2>2. 0 \in 0 .. N /\ g[0] = h[0]
    BY <1>1, <1>3 DEF Iteration
  <2>3. h = [d \in 0 .. N |-> h[d]] /\ \A d \in 0 .. N : g[d] = h[d]
    BY <2>1, <2>2
  <2> HIDE DEF h
  <2>4. g = [d \in 0 .. N |-> g[d]]
    BY <1>3
  <2>5. QED
    BY <2>3, <2>4
<1>5. Walks(it)
  BY <1>4
<1> HIDE DEF it
<1>6. CollectHistory(o, lost) = it[N]
  BY DEF CollectHistory, N, it, base
<1>7. it = [d \in 0 .. N |-> IF d = 0 THEN base ELSE Level(it[d - 1], lost)]
  BY <1>5
<1>8. 0 \in 0 .. N /\ \A d \in 1 .. N : d \in 0 .. N /\ d # 0
  BY <1>1
<1>9. it[0] = base /\ \A d \in 1 .. N : it[d] = Level(it[d - 1], lost)
  BY <1>7, <1>8
<1> HIDE DEF Walks
<1>10. QED
  BY <1>6, <1>9 DEF N, base

\* What is collected are transactions, each once. Nothing lost, and with levels
\* enough for the longest line of descent, they are the lineage.
LEMMA CollectGives ==
  ASSUME LedgerIInv, NEW o \in Source, NEW lost,
         NEW ids, ids = CollectHistory(o, lost).seen
  PROVE  /\ ids \in Seq(Ids) /\ IsInjective(ids)
         /\ lost = {} /\ MaxDepth >= Len(chain) => ToSet(ids) = Lineage(o[1])
         /\ CollectHistory(o, lost).thrown => \E i \in ToSet(ids) : StumblesAt(i)
<1>1. PICK g : /\ g[0] = [seen |-> << >>, queue |-> <<o>>, thrown |-> FALSE]
               /\ CollectHistory(o, lost) = g[MaxDepth + 1]
               /\ \A d \in 1 .. MaxDepth + 1 :
                    g[d - 1] \in Search /\ IsInjective(g[d - 1].seen)
                      => g[d] = Level(g[d - 1], lost)
  BY CollectSteps
<1> DEFINE N == MaxDepth + 1
           Found(st) == ToSet(st.seen) \cup Queued(st)
           Behind(st) ==
             \A S \in SUBSET Ids : o[1] \in S /\ Closed(S) => Found(st) \subseteq S
           Fine(d) == /\ g[d] \in Search /\ IsInjective(g[d].seen)
                      /\ o[1] \in Found(g[d]) /\ Behind(g[d])
                      /\ \A j \in Queued(g[d]) : j + d <= Len(chain)
                      /\ lost = {} => Covered(g[d])
                      /\ Justified(g[d])
           P == {d \in 0 .. N : Fine(d)}
<1>2. N \in Nat /\ o[1] \in Ids
  BY DepthAssumption DEF Source
<1>3. /\ Len(chain) \in Nat /\ Ids = 1 .. Len(chain)
      /\ \A i \in Ids : \A j \in Parents(i) : j \in Ids /\ j < i
  BY ChainFacts
<1>4. 0 \in P
  <2>1. /\ g[0].seen = << >> /\ g[0].queue = <<o>>
        /\ << >> \in Seq(Ids) /\ IsInjective(<< >>) /\ <<o>> \in Seq(Source)
    BY <1>1 DEF IsInjective
  <2>2. ToSet(g[0].seen) = {} /\ ToSet(g[0].queue) = {o}
    BY <2>1 DEF ToSet
  <2>3. Queued(g[0]) = {o[1]}
    BY <2>2 DEF Queued
  <2>4. g[0] \in Search
    BY <1>1, <2>1 DEF Search
  <2>5. Covered(g[0])
    BY <2>2 DEF Covered
  <2>6. o[1] + 0 <= Len(chain)
    BY <1>2, <1>3
  <2>7. Justified(g[0])
    BY <1>1 DEF Justified
  <2>8. Fine(0)
    BY <2>1, <2>2, <2>3, <2>4, <2>5, <2>6, <2>7
  <2> HIDE DEF Fine
  <2>9. QED
    BY <1>2, <2>8
<1>5. ASSUME NEW d \in 1 .. N, d - 1 \in P
      PROVE  d \in P
  <2> DEFINE was == g[d - 1]
             is == g[d]
  <2>1. /\ was \in Search /\ IsInjective(was.seen)
        /\ o[1] \in Found(was) /\ Behind(was)
        /\ \A j \in Queued(was) : j + (d - 1) <= Len(chain)
        /\ lost = {} => Covered(was)
        /\ Justified(was)
    BY <1>5
  <2>2. is = Level(was, lost)
    BY <1>1, <2>1
  <2> HIDE DEF was, is
  <2>3. /\ is \in Search /\ IsInjective(is.seen)
        /\ ToSet(is.seen) = ToSet(was.seen) \cup Queued(was)
        /\ \A j \in Queued(is) : \E i \in Queued(was) : j \in Parents(i)
        /\ lost = {} /\ Covered(was) => Covered(is)
        /\ Justified(is)
    BY <2>1, <2>2, LevelGives
  <2>4. \A i \in Queued(was) : i \in Ids
    BY <2>1 DEF Queued, Search, Source, ToSet
  <2>5. o[1] \in Found(is)
    BY <2>1, <2>3
  <2>6. Behind(is)
    <3>1. ASSUME NEW S \in SUBSET Ids, o[1] \in S, Closed(S), NEW j \in Queued(is)
          PROVE  j \in S
      <4>1. PICK i \in Queued(was) : j \in Parents(i)
        BY <2>3
      <4>2. i \in S
        BY <2>1, <3>1
      <4>3. QED
        BY <3>1, <4>1, <4>2 DEF Closed, Parents
    <3>2. QED
      BY <2>1, <2>3, <3>1
  <2>7. ASSUME NEW j \in Queued(is)
        PROVE  j + d <= Len(chain)
    <3>1. PICK i \in Queued(was) : j \in Parents(i)
      BY <2>3
    <3>2. i \in Ids /\ i + (d - 1) <= Len(chain) /\ j < i /\ j \in Ids
      BY <1>3, <2>1, <2>4, <3>1
    <3>3. i \in Int /\ j \in Int /\ d \in Int
      BY <1>3, <3>2
    <3>4. QED
      BY <1>3, <3>2, <3>3
  <2>8. Fine(d)
    BY <2>1, <2>3, <2>5, <2>6, <2>7 DEF is
  <2> HIDE DEF Fine
  <2>9. d \in 0 .. N
    BY <1>2
  <2>10. QED
    BY <2>8, <2>9
<1>6. \A d \in 0 .. N : d \in P
  <2> HIDE DEF P, N
  <2>1. QED
    BY <1>2, <1>4, <1>5, StepByStep
<1>7. Fine(N) /\ ids = g[N].seen /\ CollectHistory(o, lost) = g[N]
  <2>1. N \in 0 .. N
    BY <1>2
  <2> HIDE DEF Fine
  <2>2. QED
    BY <1>1, <1>6, <2>1
<1> DEFINE end == g[N]
<1> HIDE DEF P
<1>8. /\ end \in Search /\ IsInjective(end.seen)
      /\ o[1] \in Found(end) /\ Behind(end)
      /\ \A j \in Queued(end) : j + N <= Len(chain)
      /\ lost = {} => Covered(end)
      /\ ids = end.seen /\ CollectHistory(o, lost) = end /\ Justified(end)
  BY <1>7
<1> HIDE DEF end
<1>9. ids \in Seq(Ids) /\ IsInjective(ids)
  BY <1>8 DEF Search
<1>10. ASSUME lost = {}, MaxDepth >= Len(chain)
       PROVE  ToSet(ids) = Lineage(o[1])
  <2>1. Queued(end) = {}
    <3>1. ASSUME NEW j \in Queued(end)
          PROVE  FALSE
      <4>1. j \in Ids
        BY <1>8 DEF Queued, Search, Source, ToSet
      <4>2. QED
        BY <1>3, <1>8, <1>10, <4>1, DepthAssumption
    <3>2. QED
      BY <3>1
  <2>2. ToSet(ids) \in SUBSET Ids
    BY <1>9 DEF ToSet
  <2>3. Closed(ToSet(ids)) /\ o[1] \in ToSet(ids)
    <3>1. \A i \in ToSet(ids) : Parents(i) \subseteq ToSet(ids)
      BY <1>8, <1>10, <2>1 DEF Covered
    <3>2. QED
      BY <1>8, <2>1, <3>1 DEF Closed, Parents
  <2>4. ToSet(ids) \subseteq Lineage(o[1])
    BY <1>8, <2>2 DEF Lineage, Ids
  <2>5. Lineage(o[1]) \subseteq ToSet(ids)
    BY <2>2, <2>3 DEF Lineage, Ids
  <2>6. QED
    BY <2>4, <2>5
<1>11. CollectHistory(o, lost).thrown => \E i \in ToSet(ids) : StumblesAt(i)
  BY <1>8 DEF Justified
<1>12. QED
  BY <1>9, <1>10, <1>11

-----------------------------------------------------------------------------
(* The order of the replay.                                                   *)

\* A list without repetitions, of elements of another and as long, has them all.
LEMMA AllTaken ==
  ASSUME NEW X, NEW some \in Seq(X), NEW all \in Seq(X), IsInjective(some), IsInjective(all),
         ToSet(some) \subseteq ToSet(all), Len(some) >= Len(all)
  PROVE  ToSet(some) = ToSet(all)
<1> DEFINE m == Len(some)
           n == Len(all)
           T == ToSet(all)
<1>1. /\ m \in Nat /\ n \in Nat /\ DOMAIN some = 1 .. m /\ DOMAIN all = 1 .. n
      /\ some \in [1 .. m -> X] /\ all \in [1 .. n -> X]
  OBVIOUS
<1>2. T = {all[i] : i \in 1 .. n} /\ ToSet(some) = {some[i] : i \in 1 .. m}
  BY <1>1 DEF ToSet
<1> HIDE DEF T, m, n
<1>3. all \in [1 .. n -> T] /\ some \in [1 .. m -> T]
  BY <1>1, <1>2, m >= n DEF T
<1>4. all \in Surjection(1 .. n, T) /\ all \in Injection(1 .. n, T) /\ some \in Injection(1 .. m, T)
  BY <1>1, <1>2, <1>3 DEF Surjection, Injection, IsInjective
<1>5. /\ IsFiniteSet(1 .. n) /\ Cardinality(1 .. n) = n
      /\ IsFiniteSet(1 .. m) /\ Cardinality(1 .. m) = m
  <2>1. 1 \in Int /\ n \in Int /\ m \in Int
    BY <1>1
  <2>2. /\ IsFiniteSet(1 .. n) /\ Cardinality(1 .. n) = IF 1 > n THEN 0 ELSE n - 1 + 1
        /\ IsFiniteSet(1 .. m) /\ Cardinality(1 .. m) = IF 1 > m THEN 0 ELSE m - 1 + 1
    BY <2>1, FS_Interval
  <2>3. QED
    BY <1>1, <2>2
<1>6. IsFiniteSet(T) /\ Cardinality(T) = n
  BY <1>4, <1>5, FS_Surjection
<1>7. m <= n
  BY <1>4, <1>5, <1>6, FS_Injection
<1>8. Cardinality(1 .. m) = Cardinality(T)
  BY <1>1, <1>5, <1>6, <1>7 DEF m, n
<1>9. some \in Surjection(1 .. m, T)
  BY <1>4, <1>6, <1>8, FS_Injection
<1>10. QED
  BY <1>2, <1>9 DEF Surjection, T

\* Two lists without repetitions and nothing in common make one.
LEMMA JoinedIsInjective ==
  ASSUME NEW X, NEW s \in Seq(X), NEW t \in Seq(X), IsInjective(s), IsInjective(t),
         ToSet(s) \cap ToSet(t) = {}
  PROVE  IsInjective(s \o t)
<1>1. /\ Len(s) \in Nat /\ Len(t) \in Nat
      /\ DOMAIN s = 1 .. Len(s) /\ DOMAIN t = 1 .. Len(t)
      /\ DOMAIN (s \o t) = 1 .. Len(s) + Len(t)
  OBVIOUS
<1>2. ASSUME NEW i \in 1 .. Len(s) + Len(t)
      PROVE  \/ i \in 1 .. Len(s) /\ (s \o t)[i] = s[i]
             \/ /\ i - Len(s) \in 1 .. Len(t)
                /\ (s \o t)[i] = t[i - Len(s)]
  BY <1>1
<1>3. \A i \in 1 .. Len(s), j \in 1 .. Len(t) : s[i] # t[j]
  BY <1>1 DEF ToSet
<1>4. ASSUME NEW i \in 1 .. Len(s) + Len(t), NEW j \in 1 .. Len(s) + Len(t),
             (s \o t)[i] = (s \o t)[j]
      PROVE  i = j
  <2>1. CASE i \in 1 .. Len(s) /\ j \in 1 .. Len(s) /\ s[i] = s[j]
    BY <1>1, <2>1 DEF IsInjective
  <2>2. CASE i - Len(s) \in 1 .. Len(t) /\ j - Len(s) \in 1 .. Len(t)
               /\ t[i - Len(s)] = t[j - Len(s)]
    <3>1. i - Len(s) = j - Len(s)
      BY <1>1, <2>2 DEF IsInjective
    <3>2. QED
      BY <1>1, <3>1
  <2>3. QED
    BY <1>2, <1>3, <1>4, <2>1, <2>2
<1>5. QED
  BY <1>1, <1>4 DEF IsInjective

\* What the rounds keep: each transaction once, after those it spends from.
Placed(ids, done, i) == \A j \in Deps(ids, done[i]) : \E m \in 1 .. i - 1 : done[m] = j
Ordered(ids, done) ==
  /\ done \in Seq(Ids) /\ IsInjective(done)
  /\ ToSet(done) \subseteq ToSet(ids)
  /\ \A i \in DOMAIN done : Placed(ids, done, i)

LEMMA RoundGives ==
  ASSUME LedgerIInv, NEW ids \in Seq(Ids), IsInjective(ids),
         NEW done, Ordered(ids, done),
         NEW new, new = Round(ids, done)
  PROVE  /\ Ordered(ids, new) /\ Len(new) \in Nat /\ Len(done) \in Nat
         /\ ToSet(done) \subseteq ToSet(new)
         /\ ToSet(done) # ToSet(ids) => Len(new) > Len(done)
<1> DEFINE rest == ToSet(ids) \ ToSet(done)
           pending == Kept(ids, rest)
           ready == Kept(pending, Ready(ids, done))
           more == IF ready = << >> THEN pending ELSE ready
<1>1. new = done \o more
  BY DEF Round
<1>kept. pending = Kept(ids, rest) /\ ready = Kept(pending, Ready(ids, done))
  OBVIOUS
<1> HIDE DEF pending, ready, rest
<1>2. /\ pending \in Seq(Ids) /\ IsInjective(pending) /\ Len(pending) \in Nat
      /\ DOMAIN pending = 1 .. Len(pending)
      /\ \A i \in DOMAIN pending : pending[i] \in rest
      /\ \A m \in DOMAIN ids : ids[m] \in rest => \E i \in DOMAIN pending : pending[i] = ids[m]
  BY <1>kept, KeptGives
<1>3. /\ ready \in Seq(Ids) /\ IsInjective(ready) /\ Len(ready) \in Nat
      /\ DOMAIN ready = 1 .. Len(ready)
      /\ \A i \in DOMAIN ready : ready[i] \in Ready(ids, done)
                                 /\ \E m \in DOMAIN pending : pending[m] = ready[i]
      /\ \A m \in DOMAIN pending : pending[m] \in Ready(ids, done) =>
           \E i \in DOMAIN ready : ready[i] = pending[m]
  <2>1. pending \in Seq(Ids) /\ IsInjective(pending)
    BY <1>2
  <2>2. QED
    BY <2>1, <1>kept, KeptGives
<1> USE DEF rest
<1>4. /\ done \in Seq(Ids) /\ IsInjective(done) /\ ToSet(done) \subseteq ToSet(ids)
      /\ Len(done) \in Nat /\ DOMAIN done = 1 .. Len(done)
      /\ \A i \in DOMAIN done : Placed(ids, done, i)
  BY DEF Ordered
<1>5. ToSet(ids) \in SUBSET Ids /\ Ids \in SUBSET Nat
  BY ChainFacts DEF ToSet
<1>6. rest # {} => ready # << >>
  <2>1. SUFFICES ASSUME rest # {} PROVE ready # << >>
    OBVIOUS
  <2> DEFINE m == Min(rest)
  <2>2. m \in rest /\ \A n \in rest : m <= n
    BY <1>5, <2>1, MinIsLeast
  <2> HIDE DEF m
  <2>3. m \in ToSet(ids) /\ m \in Ids /\ m \in Nat
    BY <1>5, <2>2
  <2>4. Deps(ids, m) \subseteq ToSet(done)
    <3>1. ASSUME NEW j \in Deps(ids, m)
          PROVE  j \in ToSet(done)
      <4>1. j \in ToSet(ids) /\ \E o \in Ins(chain[m]) : o[1] = j
        BY DEF Deps
      <4>2. j < m /\ j \in Nat
        BY <2>3, <4>1, ChainFacts
      <4>3. ~ (m <= j)
        BY <2>3, <4>2
      <4>4. QED
        BY <2>2, <4>1, <4>3
    <3>2. QED
      BY <3>1
  <2>5. m \in Ready(ids, done)
    BY <2>3, <2>4 DEF Ready
  <2>6. PICK n \in DOMAIN ids : ids[n] = m
    BY <2>3 DEF ToSet
  <2>7. PICK i \in DOMAIN pending : pending[i] = m
    BY <1>2, <2>2, <2>6
  <2>8. PICK l \in DOMAIN ready : ready[l] = m
    BY <1>3, <2>5, <2>7
  <2>9. QED
    BY <2>8
<1>7. rest = {} => pending = << >>
  BY <1>2
<1>8. /\ more \in Seq(Ids) /\ IsInjective(more) /\ Len(more) \in Nat
      /\ DOMAIN more = 1 .. Len(more)
      /\ \A i \in DOMAIN more : more[i] \in rest /\ Deps(ids, more[i]) \subseteq ToSet(done)
  <2>1. CASE ready # << >>
    <3>1. more = ready
      BY <2>1
    <3>2. \A i \in DOMAIN ready : ready[i] \in rest
      BY <1>2, <1>3
    <3>3. \A i \in DOMAIN ready : Deps(ids, ready[i]) \subseteq ToSet(done)
      BY <1>3 DEF Ready
    <3>4. QED
      BY <1>3, <3>1, <3>2, <3>3
  <2>2. CASE ready = << >>
    <3>1. more = << >> /\ Len(more) = 0
      BY <1>6, <1>7, <2>2
    <3> HIDE DEF more
    <3>a. more \in Seq(Ids) /\ DOMAIN more = {} /\ DOMAIN more = 1 .. 0
      BY <3>1
    <3>2. more \in Seq(Ids) /\ IsInjective(more) /\ DOMAIN more = {} /\ DOMAIN more = 1 .. 0
      BY <3>a DEF IsInjective
    <3>3. QED
      BY <3>1, <3>2
  <2>3. QED
    BY <2>1, <2>2
<1>9. rest # {} => Len(more) > 0
  BY <1>3, <1>6
<1> HIDE DEF more
<1>10. /\ new \in Seq(Ids) /\ Len(new) = Len(done) + Len(more)
       /\ DOMAIN new = 1 .. Len(done) + Len(more)
       /\ \A i \in 1 .. Len(done) : new[i] = done[i]
       /\ \A i \in 1 .. Len(done) + Len(more) :
            ~ (i <= Len(done)) => i - Len(done) \in 1 .. Len(more) /\ new[i] = more[i - Len(done)]
  BY <1>1, <1>4, <1>8
<1>11. ToSet(new) = ToSet(done) \cup ToSet(more)
  BY <1>1, <1>4, <1>8, ToSetJoined
<1>12. ToSet(more) \subseteq rest
  BY <1>8 DEF ToSet
<1>13. IsInjective(new)
  BY <1>1, <1>4, <1>8, <1>12, JoinedIsInjective
<1>14. ASSUME NEW i \in DOMAIN new
       PROVE  Placed(ids, new, i)
  <2>1. i \in Int /\ i >= 1
    BY <1>10
  <2>2. CASE i <= Len(done)
    <3>1. i \in 1 .. Len(done)
      BY <1>4, <2>1, <2>2
    <3>2. \A m \in 1 .. i - 1 : m \in 1 .. Len(done)
      BY <1>4, <3>1
    <3>3. Placed(ids, done, i) /\ new[i] = done[i]
      BY <1>4, <1>10, <3>1
    <3>4. QED
      BY <1>10, <3>2, <3>3 DEF Placed
  <2>3. CASE ~ (i <= Len(done))
    <3>1. i - Len(done) \in DOMAIN more /\ new[i] = more[i - Len(done)]
      BY <1>8, <1>10, <2>3
    <3>2. Deps(ids, new[i]) \subseteq ToSet(done)
      BY <1>8, <3>1
    <3>3. \A m \in 1 .. Len(done) : m \in 1 .. i - 1 /\ new[m] = done[m]
      BY <1>4, <1>10, <2>1, <2>3
    <3>4. QED
      BY <1>4, <3>2, <3>3 DEF Placed, ToSet
  <2>4. QED
    BY <2>2, <2>3
<1>15. Ordered(ids, new)
  BY <1>4, <1>10, <1>11, <1>12, <1>13, <1>14 DEF Ordered
<1>16. ToSet(done) # ToSet(ids) => Len(new) > Len(done)
  <2>1. ToSet(done) # ToSet(ids) => rest # {}
    BY <1>4
  <2>2. QED
    BY <1>4, <1>8, <1>9, <1>10, <2>1
<1>17. QED
  BY <1>4, <1>8, <1>10, <1>11, <1>15, <1>16

LEMMA OrderSteps ==
  ASSUME LedgerIInv, NEW ids \in Seq(Ids), IsInjective(ids)
  PROVE  \E g : /\ g[0] = << >> /\ OrderByDependency(ids) = g[Len(ids)]
                /\ \A n \in 1 .. Len(ids) : g[n] = Round(ids, g[n - 1])
<1> DEFINE N == Len(ids)
           Fit == {done \in Seq(Ids) : Ordered(ids, done)}
           next == [n \in 1 .. N |-> [x \in Fit |-> Round(ids, x)]]
           Walks(g) == g = [n \in 0 .. N |-> IF n = 0 THEN << >> ELSE Round(ids, g[n - 1])]
           it == CHOOSE g : Walks(g)
<1>1. N \in Nat /\ << >> \in Fit
  <2>1. << >> \in Seq(Ids) /\ IsInjective(<< >>) /\ ToSet(<< >>) = {} /\ DOMAIN << >> = {}
    BY DEF IsInjective, ToSet
  <2>2. Ordered(ids, << >>)
    BY <2>1 DEF Ordered
  <2>3. QED
    BY <2>1, <2>2
<1>2. next \in [1 .. N -> [Fit -> Fit]]
  <2>1. ASSUME NEW x \in Fit
        PROVE  Round(ids, x) \in Fit
    <3>1. Ordered(ids, Round(ids, x))
      BY RoundGives
    <3>2. QED
      BY <3>1 DEF Ordered
  <2> HIDE DEF Fit
  <2>2. QED
    BY <2>1
<1> HIDE DEF N, Fit
<1>3. PICK g \in [0 .. N -> Fit] : Iteration(g, N, << >>, next)
  <2> HIDE DEF next
  <2>1. QED
    BY <1>1, <1>2, Iterates
<1> DEFINE h == [n \in 0 .. N |-> IF n = 0 THEN << >> ELSE Round(ids, g[n - 1])]
<1>4. g = h
  <2>1. ASSUME NEW n \in 0 .. N, n # 0
        PROVE  g[n] = h[n]
    <3>1. n \in 1 .. N /\ n - 1 \in 0 .. N
      BY <1>1, <2>1
    <3>2. g[n] = next[n][g[n - 1]]
      BY <1>3, <2>1 DEF Iteration
    <3>3. g[n - 1] \in Fit
      BY <3>1
    <3>4. QED
      BY <2>1, <3>1, <3>2, <3>3
  <2>2. 0 \in 0 .. N /\ g[0] = h[0]
    BY <1>1, <1>3 DEF Iteration
  <2>3. h = [n \in 0 .. N |-> h[n]] /\ \A n \in 0 .. N : g[n] = h[n]
    BY <2>1, <2>2
  <2> HIDE DEF h
  <2>4. g = [n \in 0 .. N |-> g[n]]
    BY <1>3
  <2>5. QED
    BY <2>3, <2>4
<1>5. Walks(it)
  BY <1>4
<1> HIDE DEF it
<1>6. OrderByDependency(ids) = it[N]
  BY DEF OrderByDependency, N, it
<1>7. it = [n \in 0 .. N |-> IF n = 0 THEN << >> ELSE Round(ids, it[n - 1])]
  BY <1>5
<1>8. 0 \in 0 .. N /\ \A n \in 1 .. N : n \in 0 .. N /\ n # 0
  BY <1>1
<1>9. it[0] = << >> /\ \A n \in 1 .. N : it[n] = Round(ids, it[n - 1])
  BY <1>7, <1>8
<1> HIDE DEF Walks
<1>10. QED
  BY <1>6, <1>9 DEF N

\* After as many rounds as there are transactions, all are placed.
LEMMA OrderGives ==
  ASSUME LedgerIInv, NEW ids \in Seq(Ids), IsInjective(ids),
         NEW txs, txs = OrderByDependency(ids)
  PROVE  Ordered(ids, txs) /\ ToSet(txs) = ToSet(ids)
<1>1. PICK g : /\ g[0] = << >> /\ OrderByDependency(ids) = g[Len(ids)]
               /\ \A n \in 1 .. Len(ids) : g[n] = Round(ids, g[n - 1])
  BY OrderSteps
<1> DEFINE N == Len(ids)
           Fine(n) == /\ Ordered(ids, g[n]) /\ Len(g[n]) \in Nat
                      /\ ToSet(g[n]) = ToSet(ids) \/ Len(g[n]) >= n
           P == {n \in 0 .. N : Fine(n)}
<1>2. N \in Nat /\ N \in 0 .. N
  OBVIOUS
<1>3. 0 \in P
  <2>1. << >> \in Seq(Ids) /\ IsInjective(<< >>) /\ ToSet(<< >>) = {} /\ DOMAIN << >> = {}
    BY DEF IsInjective, ToSet
  <2>2. Ordered(ids, << >>)
    BY <2>1 DEF Ordered
  <2>3. Len(<< >>) = 0 /\ 0 >= 0 /\ 0 \in 0 .. N
    BY <1>2
  <2>4. QED
    BY <1>1, <2>2, <2>3
<1>4. ASSUME NEW n \in 1 .. N, n - 1 \in P
      PROVE  n \in P
  <2>1. Ordered(ids, g[n - 1]) /\ (ToSet(g[n - 1]) = ToSet(ids) \/ Len(g[n - 1]) >= n - 1)
    BY <1>4
  <2>2. g[n] = Round(ids, g[n - 1])
    BY <1>1
  <2>3. /\ Ordered(ids, g[n]) /\ Len(g[n]) \in Nat /\ Len(g[n - 1]) \in Nat
        /\ ToSet(g[n - 1]) \subseteq ToSet(g[n])
        /\ ToSet(g[n - 1]) # ToSet(ids) => Len(g[n]) > Len(g[n - 1])
    BY <2>1, <2>2, RoundGives
  <2>4. CASE ToSet(g[n - 1]) = ToSet(ids)
    <3>1. ToSet(g[n]) = ToSet(ids)
      BY <2>3, <2>4 DEF Ordered
    <3>2. n \in 0 .. N
      BY <1>2
    <3>3. QED
      BY <2>3, <3>1, <3>2
  <2>5. CASE ToSet(g[n - 1]) # ToSet(ids)
    <3>1. n \in 0 .. N /\ n \in Nat
      BY <1>2
    <3>2. Len(g[n]) >= n
      BY <2>1, <2>3, <2>5, <3>1
    <3>3. QED
      BY <2>3, <3>1, <3>2
  <2>6. QED
    BY <2>4, <2>5
<1>5. \A n \in 0 .. N : n \in P
  <2> HIDE DEF P
  <2>1. QED
    BY <1>2, <1>3, <1>4, StepByStep
<1>6. Fine(N) /\ g[N] = txs
  BY <1>1, <1>2, <1>5
<1>7. CASE Len(txs) >= Len(ids)
  <2>1. txs \in Seq(Ids) /\ IsInjective(txs) /\ ToSet(txs) \subseteq ToSet(ids)
    BY <1>6 DEF Ordered
  <2>2. ToSet(txs) = ToSet(ids)
    BY <1>7, <2>1, AllTaken
  <2>3. QED
    BY <1>6, <2>2
<1>8. QED
  BY <1>6, <1>7

\* Every unspent output of the chain, and its transaction.
LEMMA UnspentIs ==
  ASSUME LedgerIInv, NEW o \in Unspent
  PROVE  o \in Source
<1>1. QED
  BY ChainIs DEF Source, Ids

LEMMA ReplayOrdered ==
  ASSUME LedgerIInv
  PROVE  ReplayInOrder
<1> SUFFICES ASSUME NEW o \in Unspent, NEW lost \in SUBSET (DOMAIN chain \ {o[1]}),
                    NEW ids, ids = CollectHistory(o, lost).seen,
                    NEW txs, txs = OrderByDependency(ids)
             PROVE  /\ IsInjective(txs) /\ ToSet(txs) = ToSet(ids)
                    /\ \A i, j \in DOMAIN txs : txs[j] \in Deps(ids, txs[i]) => j < i
  BY DEF ReplayInOrder
<1>1. ids \in Seq(Ids) /\ IsInjective(ids)
  BY UnspentIs, CollectGives
<1>2. Ordered(ids, txs) /\ ToSet(txs) = ToSet(ids)
  BY <1>1, OrderGives
<1>3. /\ txs \in Seq(Ids) /\ IsInjective(txs) /\ DOMAIN txs = 1 .. Len(txs) /\ Len(txs) \in Nat
      /\ \A i \in DOMAIN txs : Placed(ids, txs, i)
  BY <1>2 DEF Ordered
<1>4. ASSUME NEW i \in DOMAIN txs, NEW j \in DOMAIN txs, txs[j] \in Deps(ids, txs[i])
      PROVE  j < i
  <2>1. PICK m \in 1 .. i - 1 : txs[m] = txs[j]
    BY <1>3, <1>4 DEF Placed
  <2>2. m \in DOMAIN txs /\ m < i
    BY <1>3, <2>1
  <2>3. m = j
    BY <1>3, <2>1, <2>2 DEF IsInjective
  <2>4. QED
    BY <2>2, <2>3
<1>5. QED
  BY <1>2, <1>3, <1>4

\* Whatever fetches fail, a replay that does not throw replays each transaction
\* collected once, and after every collected transaction it spends from.
\* (replay.js:59-95)
THEOREM ReplaysInOrder == Spec => []ReplayInOrder
<1>1. LedgerIInv => ReplayInOrder
  BY ReplayOrdered
<1>2. QED
  BY <1>1, LedgerInductive, PTL

-----------------------------------------------------------------------------
(* What a transaction makes of its outputs, and of the record of its token.    *)

\* What a store says of an output, if it is of the token k.
ReadsOf(rec, o, k) ==
  IF Held(rec, Utxo(o)) /\ rec[Utxo(o)].tokenKey = k THEN Reads(rec, o) ELSE << >>
Capless(rec, k) ==
  Held(rec, Token(k)) => rec[Token(k)].max = None /\ rec[Token(k)].limit = None

\* Is output v accepted, when the work stands at st? What is said of it then.
Taken(rec, tx, st, v) ==
  LET key == KeyOf(tx.outputs[v], <<tx.id, v>>)
  IN  /\ v \in TokenOutputs(tx)
      /\ Accepted(tx.outputs[v], Get(rec, Token(key)), key \in st.authorised, Left(st, key))
Judged(rec, tx, st, v) ==
  LET doc == tx.outputs[v]
      key == KeyOf(doc, <<tx.id, v>>)
  IN  IF Taken(rec, tx, st, v) /\ doc.op # "burn"
      THEN <<key, Amount(doc, Get(rec, Token(key))), IsAuth(doc), doc.owner>>
      ELSE << >>

\* One step of the work, from st to next: an input.
LEMMA InputStep ==
  ASSUME NEW rec, NEW tx, Applicable(rec, tx), NEW height \in Nat, NEW idx \in Nat,
         NEW work, work = Work(rec, tx, height, idx),
         NEW n \in 1 .. Len(tx.inputs),
         NEW st, st = work[n - 1], NEW next, next = work[n],
         NEW cur, cur = Apply(rec, st.writes), NEW new, new = Apply(rec, next.writes)
  PROVE  /\ tx.inputs[n] \in Ins(tx) /\ Looked(tx, n) = {} /\ n \in 1 .. Steps(tx)
         /\ Consumed(rec, tx, tx.inputs[n], st, cur, next, new)
<1>1. tx \in Transaction
  BY DEF Applicable
<1>2. /\ Len(tx.inputs) \in Nat /\ Len(tx.outputs) \in Nat /\ Steps(tx) \in Nat
      /\ DOMAIN tx.outputs = 1 .. Len(tx.outputs)
      /\ tx.inputs[n] \in Ins(tx)
  BY <1>1, TransactionIs
<1>3. n - 1 \in 0 .. Steps(tx) /\ n \in 1 .. Steps(tx)
  <2>1. \A a, b \in Nat : \A m \in 1 .. a : m - 1 \in 0 .. a + b /\ m \in 1 .. a + b
    OBVIOUS
  <2>2. QED
    BY <1>2, <2>1 DEF Steps
<1>4. next = Advance(rec, tx, height, idx, st, n)
  BY <1>2, <1>3, WorkAdvances
<1>5. next = Consume(rec, tx, st, tx.inputs[n])
  BY <1>2, <1>4 DEF Advance
<1>6. Midway(rec, tx, n - 1, st, cur)
  BY <1>3, WorkGoesOn
<1>7. Looked(tx, n) = {}
  BY <1>2 DEF Looked
<1>8. CASE ~ Held(rec, Utxo(tx.inputs[n]))
  <2>1. next = st
    BY <1>5, <1>6, <1>8, ConsumeUnknown
  <2>2. new = cur
    BY <2>1
  <2>3. st.remaining \in Maps(TokenKey)
    BY <1>6 DEF Midway, WorkState
  <2>4. ASSUME NEW k
        PROVE  Left(st, k) = Left(st, k) + 0
    BY <2>3, LeftIs
  <2>5. QED
    BY <1>2, <1>3, <1>7, <1>8, <2>1, <2>2, <2>4 DEF Consumed
<1>9. CASE Held(rec, Utxo(tx.inputs[n]))
  BY <1>2, <1>3, <1>5, <1>6, <1>7, <1>9, ConsumeHeld
<1>10. QED
  BY <1>8, <1>9

\* One step of the work: an output's turn.
Turn(rec, tx, height, idx, work, v) ==
  LET n == Len(tx.inputs) + v
      st == work[n - 1]
      cur == Apply(rec, st.writes)
      new == Apply(rec, work[n].writes)
      doc == tx.outputs[v]
      key == KeyOf(doc, <<tx.id, v>>)
      record == Get(rec, Token(key))
  IN  /\ n \in Len(tx.inputs) + 1 .. Steps(tx) /\ n - 1 \in 0 .. Steps(tx)
      /\ ~ Taken(rec, tx, st, v) => work[n] = st
      /\ Taken(rec, tx, st, v) =>
           /\ v \in TokenOutputs(tx)
           /\ Accepted(doc, record, key \in st.authorised, Left(st, key))
           /\ Created(doc, key, <<tx.id, v>>, Amount(doc, record),
                      TokenAfter(doc, record, key, <<tx.id, v>>, height, idx),
                      st, cur, work[n], new)

LEMMA OutputStep ==
  ASSUME NEW rec, NEW tx, Applicable(rec, tx), NEW height \in Nat, NEW idx \in Nat,
         NEW work, work = Work(rec, tx, height, idx), NEW v \in DOMAIN tx.outputs
  PROVE  Turn(rec, tx, height, idx, work, v)
<1> DEFINE n == Len(tx.inputs) + v
           st == work[n - 1]
           next == work[n]
           cur == Apply(rec, st.writes)
           new == Apply(rec, next.writes)
           doc == tx.outputs[v]
           outpoint == <<tx.id, v>>
           key == KeyOf(doc, outpoint)
           record == Get(rec, Token(key))
<1>1. tx \in Transaction
  BY DEF Applicable
<1>2. /\ Len(tx.inputs) \in Nat /\ Steps(tx) \in Nat /\ Steps(tx) = Len(tx.inputs) + Len(tx.outputs)
      /\ v \in 1 .. Len(tx.outputs) /\ Len(tx.outputs) \in Nat
  BY <1>1, TransactionIs DEF Steps
<1>3. /\ n - 1 \in 0 .. Steps(tx) /\ n \in 1 .. Steps(tx) /\ n \in Len(tx.inputs) + 1 .. Steps(tx)
      /\ ~ (n <= Len(tx.inputs)) /\ n - Len(tx.inputs) = v
  <2>1. \A a, b \in Nat : \A u \in 1 .. b :
          /\ a + u - 1 \in 0 .. a + b /\ a + u \in 1 .. a + b /\ a + u \in a + 1 .. a + b
          /\ ~ (a + u <= a) /\ a + u - a = u
    OBVIOUS
  <2> DEFINE a == Len(tx.inputs)
             b == Len(tx.outputs)
  <2>2. a \in Nat /\ b \in Nat /\ v \in 1 .. b /\ Steps(tx) = a + b /\ n = a + v
    BY <1>2
  <2> HIDE DEF a, b, n
  <2>3. /\ n - 1 \in 0 .. Steps(tx) /\ n \in 1 .. Steps(tx) /\ n \in a + 1 .. Steps(tx)
        /\ ~ (n <= a) /\ n - a = v
    BY <2>1, <2>2
  <2>4. QED
    BY <2>3 DEF a
<1> HIDE DEF n
<1>4. next = Advance(rec, tx, height, idx, st, n)
  <2>1. \A m \in 1 .. Steps(tx) :
          Work(rec, tx, height, idx)[m]
            = Advance(rec, tx, height, idx, Work(rec, tx, height, idx)[m - 1], m)
    <3> HIDE DEF st, next, cur, new, doc, outpoint, key, record
    <3>1. Steps(tx) \in Nat
      BY <1>2
    <3>2. QED
      BY <3>1, WorkAdvances
  <2>2. QED
    BY <1>3, <2>1
<1>5. next = Create(rec, tx, height, idx, st, v)
  BY <1>3, <1>4 DEF Advance
<1>6. Midway(rec, tx, n - 1, st, cur)
  BY <1>3, WorkGoesOn
<1>7. ~ Taken(rec, tx, st, v) => next = st
  BY <1>5 DEF Create, Taken
<1>8. CASE Taken(rec, tx, st, v)
  <2>1. /\ v \in TokenOutputs(tx)
        /\ Accepted(doc, record, key \in st.authorised, Left(st, key))
    BY <1>8 DEF Taken
  <2> HIDE DEF st, next, cur, new, doc, outpoint, key, record
  <2>2. /\ doc = tx.outputs[v] /\ outpoint = <<tx.id, v>> /\ key = KeyOf(doc, outpoint)
        /\ record = Get(rec, Token(key)) /\ new = Apply(rec, next.writes)
    BY DEF new, doc, outpoint, key, record
  <2>3. Created(doc, key, outpoint, Amount(doc, record),
                TokenAfter(doc, record, key, outpoint, height, idx), st, cur, next, new)
    <3>1. /\ n \in Len(tx.inputs) + 1 .. Steps(tx) /\ v = n - Len(tx.inputs)
          /\ Midway(rec, tx, n - 1, st, cur) /\ next = Create(rec, tx, height, idx, st, v)
      BY <1>3, <1>5, <1>6
    <3>2. QED
      BY <2>1, <2>2, <3>1, CreateAccepted, SMTT(30)
  <2>4. QED
    BY <1>3, <1>8, <2>1, <2>3 DEF n, st, next, cur, new, doc, outpoint, key, record, Turn
<1>9. QED
  BY <1>3, <1>7, <1>8 DEF n, Turn

\* What is said of an output when the transaction is done was decided when its
\* turn came, and the token's record when all had theirs.
Outcome(rec, tx, work, done) ==
  /\ \A v \in DOMAIN tx.outputs :
       Reads(done, <<tx.id, v>>) = Judged(rec, tx, work[(Len(tx.inputs) + v) - 1], v)
  /\ \A k \in TokenKey : done[Token(k)] = Apply(rec, work[Steps(tx)].writes)[Token(k)]

LEMMA OutcomeIs ==
  ASSUME NEW rec, NEW tx, Applicable(rec, tx), NEW height \in Nat, NEW idx \in Nat,
         NEW work, work = Work(rec, tx, height, idx),
         NEW done, done = Apply(rec, TransactionWrites(rec, tx, height, idx))
  PROVE  Outcome(rec, tx, work, done)
<1> DEFINE N == Steps(tx)
           M == Len(tx.inputs)
           at(n) == Apply(rec, work[n].writes)
           Fine(n) == \A v \in Looked(tx, n) :
                        Reads(at(n), <<tx.id, v>>) = Judged(rec, tx, work[(M + v) - 1], v)
           P == {n \in 0 .. N : Fine(n)}
<1>1. tx \in Transaction /\ RecordsOK(rec)
  BY DEF Applicable
<1>2. /\ M \in Nat /\ N \in Nat /\ Len(tx.outputs) \in Nat /\ N = M + Len(tx.outputs)
      /\ DOMAIN tx.outputs = 1 .. Len(tx.outputs)
  BY <1>1, TransactionIs DEF Steps
<1>size. N = Steps(tx) /\ M = Len(tx.inputs)
  OBVIOUS
<1> HIDE DEF N, M
<1>3. \A n \in 0 .. N : Midway(rec, tx, n, work[n], at(n))
  BY <1>size, WorkGoesOn
<1>4. ASSUME NEW v \in DOMAIN tx.outputs
      PROVE  <<tx.id, v>> \in Outpoint
  BY <1>1 DEF Transaction, Outpoint
<1>5. 0 \in P
  <2>1. Looked(tx, 0) = {}
    BY <1>2, <1>size DEF Looked
  <2>2. QED
    BY <1>2, <2>1
<1>6. ASSUME NEW n \in 1 .. N, n - 1 \in P
      PROVE  n \in P
  <2>1. n \in 0 .. N /\ n - 1 \in 0 .. N /\ n \in Nat
    BY <1>2
  <2>2. CASE n <= M
    <3>1. n \in 1 .. M
      BY <1>2, <2>2
    <3>2. Looked(tx, n) = {}
      BY <1>size, <3>1, InputStep
    <3>3. QED
      BY <2>1, <3>2
  <2>3. CASE ~ (n <= M)
    <3> DEFINE v == n - M
    <3>1. n \in M + 1 .. N /\ M + v = n /\ (M + v) - 1 = n - 1
      BY <1>2, <2>3
    <3>2. /\ v \in DOMAIN tx.outputs
          /\ Looked(tx, n) = Looked(tx, n - 1) \cup {v} /\ v \notin Looked(tx, n - 1)
      <4>1. n \in Len(tx.inputs) + 1 .. Steps(tx)
        BY <1>size, <3>1
      <4>2. v = n - Len(tx.inputs)
        BY <1>size
      <4> HIDE DEF v
      <4>3. QED
        BY <1>1, <4>1, <4>2, LookedIs
    <3> HIDE DEF v
    <3>3. /\ ~ Taken(rec, tx, work[n - 1], v) => work[n] = work[n - 1]
          /\ Taken(rec, tx, work[n - 1], v) =>
               LET doc == tx.outputs[v]
                   key == KeyOf(doc, <<tx.id, v>>)
                   record == Get(rec, Token(key))
               IN  Created(doc, key, <<tx.id, v>>, Amount(doc, record),
                           TokenAfter(doc, record, key, <<tx.id, v>>, height, idx),
                           work[n - 1], at(n - 1), work[n], at(n))
      <4>1. Turn(rec, tx, height, idx, work, v)
        BY <3>2, OutputStep
      <4>2. QED
        BY <1>size, <3>1, <4>1 DEF Turn
    <3>4. ASSUME NEW u \in Looked(tx, n - 1)
          PROVE  /\ <<tx.id, u>> \in Outpoint /\ <<tx.id, u>> # <<tx.id, v>>
                 /\ Reads(at(n - 1), <<tx.id, u>>) = Judged(rec, tx, work[(M + u) - 1], u)
      <4>1. u \in DOMAIN tx.outputs /\ u # v
        BY <3>2 DEF Looked
      <4>2. Fine(n - 1)
        BY <1>6
      <4>3. QED
        BY <1>4, <4>1, <4>2
    <3>5. CASE ~ Taken(rec, tx, work[n - 1], v)
      <4>1. at(n) = at(n - 1)
        BY <3>3, <3>5
      <4>2. Reads(at(n), <<tx.id, v>>) = Judged(rec, tx, work[(M + v) - 1], v)
        <5>1. Judged(rec, tx, work[(M + v) - 1], v) = << >>
          BY <3>1, <3>5 DEF Judged
        <5>2. <<tx.id, v>> \notin Live(at(n - 1))
          BY <1>3, <2>1, <3>2 DEF Midway, OutputsMade
        <5>3. QED
          BY <1>4, <3>2, <4>1, <5>1, <5>2 DEF Live, Reads
      <4>3. QED
        BY <2>1, <3>2, <3>4, <4>1, <4>2
    <3>6. CASE Taken(rec, tx, work[n - 1], v)
      <4> DEFINE doc == tx.outputs[v]
                 key == KeyOf(doc, <<tx.id, v>>)
                 amount == Amount(doc, Get(rec, Token(key)))
                 after == TokenAfter(doc, Get(rec, Token(key)), key, <<tx.id, v>>, height, idx)
      <4>1. Created(doc, key, <<tx.id, v>>, amount, after, work[n - 1], at(n - 1), work[n], at(n))
        BY <3>3, <3>6
      <4> HIDE DEF amount, after
      <4>2. /\ OutputStands(at(n), <<tx.id, v>>, doc, key, amount)
            /\ \A p \in Outpoint : p # <<tx.id, v>> => at(n)[Utxo(p)] = at(n - 1)[Utxo(p)]
        BY <4>1 DEF Created
      <4>3. Reads(at(n), <<tx.id, v>>) = Judged(rec, tx, work[(M + v) - 1], v)
        <5>1. CASE doc.op = "burn"
          <6>1. ~ Held(at(n), Utxo(<<tx.id, v>>))
            BY <4>2, <5>1 DEF OutputStands, Held, Get
          <6>2. QED
            BY <3>1, <3>6, <5>1, <6>1 DEF Reads, Judged
        <5>2. CASE doc.op # "burn"
          <6> DEFINE value == at(n)[Utxo(<<tx.id, v>>)]
          <6>1. /\ value \in UtxoRecord /\ value.tokenKey = key /\ value.amount = amount
                /\ value.authority = IsAuth(doc) /\ value.owner = doc.owner
            BY <4>2, <5>2 DEF OutputStands
          <6>2. Held(at(n), Utxo(<<tx.id, v>>))
            BY <6>1, MarkAssumption DEF Held, Get
          <6>3. QED
            BY <3>1, <3>6, <5>2, <6>1, <6>2 DEF Reads, Judged, amount
        <5>3. QED
          BY <5>1, <5>2
      <4>4. ASSUME NEW u \in Looked(tx, n - 1)
            PROVE  Reads(at(n), <<tx.id, u>>) = Reads(at(n - 1), <<tx.id, u>>)
        BY <3>4, <4>2 DEF Reads, Held, Get
      <4>5. QED
        BY <2>1, <3>2, <3>4, <4>3, <4>4
    <3>7. QED
      BY <3>5, <3>6
  <2>4. QED
    BY <2>2, <2>3
<1>7. Fine(N)
  <2> HIDE DEF P
  <2>1. \A n \in 0 .. N : n \in P
    BY <1>2, <1>5, <1>6, StepByStep
  <2>2. N \in P
    BY <1>2, <2>1
  <2>3. QED
    BY <2>2 DEF P
<1>8. /\ \A o \in Outpoint : done[Utxo(o)] = at(N)[Utxo(o)]
      /\ \A k \in TokenKey : done[Token(k)] = at(N)[Token(k)]
  <2>1. BalancesNoted(at(N), done, work[N].staged)
    BY <1>size, DoneIs
  <2>2. QED
    BY <2>1 DEF BalancesNoted
<1>9. ASSUME NEW v \in DOMAIN tx.outputs
      PROVE  Reads(done, <<tx.id, v>>) = Judged(rec, tx, work[(M + v) - 1], v)
  <2>1. M + v <= N
    BY <1>2
  <2>2. v \in Looked(tx, N)
    BY <1>size, <2>1 DEF Looked
  <2>3. Reads(done, <<tx.id, v>>) = Reads(at(N), <<tx.id, v>>)
    BY <1>4, <1>8 DEF Reads, Held, Get
  <2>4. QED
    BY <1>7, <2>2, <2>3
<1>10. QED
  BY <1>8, <1>9, <1>size DEF Outcome

\* The inputs first, then the outputs.
LEMMA InputsThenOutputs ==
  ASSUME NEW tx \in Transaction, NEW P, 0 \in P,
         \A n \in 1 .. Len(tx.inputs) : n - 1 \in P => n \in P,
         \A v \in DOMAIN tx.outputs :
           (Len(tx.inputs) + v) - 1 \in P => Len(tx.inputs) + v \in P
  PROVE  \A n \in 0 .. Steps(tx) : n \in P
<1> DEFINE N == Steps(tx)
           M == Len(tx.inputs)
<1>1. /\ M \in Nat /\ N \in Nat /\ Len(tx.outputs) \in Nat /\ N = M + Len(tx.outputs)
      /\ DOMAIN tx.outputs = 1 .. Len(tx.outputs)
  BY TransactionIs DEF Steps
<1>2. /\ \A n \in 1 .. M : n - 1 \in P => n \in P
      /\ \A v \in DOMAIN tx.outputs : (M + v) - 1 \in P => M + v \in P
  OBVIOUS
<1> HIDE DEF N, M
<1>3. ASSUME NEW n \in 1 .. N, n - 1 \in P
      PROVE  n \in P
  <2>1. CASE n <= M
    BY <1>1, <1>2, <1>3, <2>1
  <2>2. CASE ~ (n <= M)
    <3> DEFINE v == n - M
    <3>1. v \in DOMAIN tx.outputs /\ M + v = n /\ (M + v) - 1 = n - 1
      BY <1>1, <2>2
    <3> HIDE DEF v
    <3>2. QED
      BY <1>2, <1>3, <3>1
  <2>3. QED
    BY <2>1, <2>2
<1>4. \A n \in 0 .. N : n \in P
  BY <1>1, <1>3, StepByStep
<1>5. QED
  BY <1>4 DEF N

\* A well-formed document of a token named by an outpoint.
LEMMA DocIs ==
  ASSUME NEW tx \in Transaction, NEW v \in TokenOutputs(tx),
         NEW doc, doc = tx.outputs[v], doc.wellFormed,
         KeyOf(doc, <<tx.id, v>>) \in Outpoint
  PROVE  /\ doc.standard = "BSV-21" /\ doc.max = None /\ doc.limit = None
         /\ IsDeploy(doc) => KeyOf(doc, <<tx.id, v>>) = <<tx.id, v>>
         /\ doc.op = "mint" => doc.amount \in Nat
<1>1. v \in DOMAIN tx.outputs /\ doc # NoToken /\ tx.outputs \in Outputs
  BY DEF TokenOutputs, Transaction
<1>2. /\ doc.standard # "unknown" /\ doc.tick \notin Outpoint
      /\ doc.max # None \/ doc.limit # None => doc.standard = "BSV-20"
      /\ doc.op = "mint" => doc.amount \in Nat
  BY <1>1, DocumentAssumption
<1>3. doc \in Document
  BY OutputIs
<1>4. doc.standard # "BSV-20"
  BY <1>2 DEF KeyOf
<1>5. doc.standard = "BSV-21"
  BY <1>2, <1>3, <1>4 DEF Document
<1>6. IsDeploy(doc) => KeyOf(doc, <<tx.id, v>>) = <<tx.id, v>>
  BY <1>4 DEF KeyOf
<1>7. QED
  BY <1>2, <1>4, <1>5, <1>6

\* Only its own transaction deploys a token named by an outpoint, without a cap.
LEMMA TokensKept ==
  ASSUME NEW rec, NEW tx, Applicable(rec, tx), NEW height \in Nat, NEW idx \in Nat,
         NEW done, done = Apply(rec, TransactionWrites(rec, tx, height, idx)),
         NEW k \in Outpoint
  PROVE  /\ Capless(rec, k) => Capless(done, k)
         /\ k[1] # tx.id => (Held(done, Token(k)) <=> Held(rec, Token(k)))
<1>1. k \in TokenKey /\ RecordsOK(rec) /\ tx \in Transaction
  BY DEF TokenKey, Applicable
<1>2. CASE Held(rec, Token(k))
  <2>1. Held(done, Token(k)) /\ Continues(rec[Token(k)], done[Token(k)])
    BY <1>1, <1>2, TransactionApplied DEF Applied, TokensStand
  <2>2. QED
    BY <1>2, <2>1 DEF Capless, Continues
<1>3. CASE ~ Held(rec, Token(k))
  <2> DEFINE work == Work(rec, tx, height, idx)
             N == Steps(tx)
             M == Len(tx.inputs)
             at(n) == Apply(rec, work[n].writes)
             Fine(n) == Capless(at(n), k) /\ (k[1] # tx.id => ~ Held(at(n), Token(k)))
             P == {n \in 0 .. N : Fine(n)}
  <2>1. Get(rec, Token(k)) = Absent
    BY <1>3 DEF Held
  <2>size. /\ N \in Nat /\ M \in Nat /\ Len(tx.outputs) \in Nat /\ N = M + Len(tx.outputs)
          /\ DOMAIN tx.outputs = 1 .. Len(tx.outputs)
    BY <1>1, TransactionIs DEF Steps
  <2>are. N = Steps(tx) /\ M = Len(tx.inputs)
    OBVIOUS
  <2> HIDE DEF N, M
  <2>2. ASSUME NEW n \in 0 .. N, at(n)[Token(k)] = Absent \/ at(n)[Token(k)] = Null
        PROVE  Fine(n)
    BY <2>2 DEF Capless, Held, Get
  <2>3. 0 \in P
    <3>1. 0 \in 0 .. N
      BY <2>size
    <3>2. Midway(rec, tx, 0, work[0], at(0))
      BY <2>are, <3>1, WorkGoesOn
    <3>3. Looked(tx, 0) = {}
      BY <1>1, TransactionIs DEF Looked
    <3>4. at(0)[Token(k)] = rec[Token(k)]
      BY <1>1, <3>2, <3>3 DEF Midway, TokensStand
    <3>5. Get(at(0), Token(k)) = Absent
      BY <2>1, <3>4 DEF Get
    <3>6. QED
      BY <3>1, <3>5 DEF Capless, Held
  <2>4. ASSUME NEW n \in 1 .. M, n - 1 \in P
        PROVE  n \in P
    <3>1. Consumed(rec, tx, tx.inputs[n], work[n - 1], at(n - 1), work[n], at(n)) /\ n \in 1 .. N
      BY <2>are, InputStep
    <3>2. at(n)[Token(k)] = at(n - 1)[Token(k)]
      BY <1>1, <3>1 DEF Consumed
    <3>3. QED
      BY <2>4, <3>1, <3>2 DEF Capless, Held, Get
  <2>5. ASSUME NEW v \in DOMAIN tx.outputs, (M + v) - 1 \in P
        PROVE  M + v \in P
    <3> DEFINE n == M + v
               st == work[n - 1]
               doc == tx.outputs[v]
               key == KeyOf(doc, <<tx.id, v>>)
               record == Get(rec, Token(key))
               after == TokenAfter(doc, record, key, <<tx.id, v>>, height, idx)
    <3>1. /\ n \in M + 1 .. N
          /\ ~ Taken(rec, tx, st, v) => work[n] = st
          /\ Taken(rec, tx, st, v) =>
               /\ v \in TokenOutputs(tx)
               /\ Accepted(doc, record, key \in st.authorised, Left(st, key))
               /\ Created(doc, key, <<tx.id, v>>, Amount(doc, record), after,
                          st, at(n - 1), work[n], at(n))
      <4>1. Turn(rec, tx, height, idx, work, v)
        BY OutputStep
      <4>2. QED
        BY <2>are, <4>1 DEF Turn
    <3>2. n \in 0 .. N /\ n - 1 \in 0 .. N /\ Fine(n - 1)
      BY <2>5, <2>size, <3>1
    <3>3. CASE ~ Taken(rec, tx, st, v) \/ key # k \/ ~ Issues(doc)
      <4>1. at(n)[Token(k)] = at(n - 1)[Token(k)]
        BY <1>1, <3>1, <3>3 DEF Created
      <4>2. QED
        BY <3>2, <4>1 DEF Capless, Held, Get
    <3>4. CASE Taken(rec, tx, st, v) /\ key = k /\ Issues(doc)
      <4>1. /\ v \in TokenOutputs(tx)
            /\ Accepted(doc, Absent, key \in st.authorised, Left(st, key))
            /\ at(n)[Token(k)] = after /\ (IsDeploy(doc) => after \in TokenRecord)
        BY <2>1, <3>1, <3>4 DEF Created
      <4>2. doc.wellFormed /\ doc.op # "mint"
        BY <4>1 DEF Accepted, Mintable, IsDeploy
      <4>3. doc.max = None /\ doc.limit = None /\ (IsDeploy(doc) => k = <<tx.id, v>>)
        <5>1. KeyOf(doc, <<tx.id, v>>) \in Outpoint
          BY <3>4
        <5>2. /\ doc.max = None /\ doc.limit = None
              /\ IsDeploy(doc) => KeyOf(doc, <<tx.id, v>>) = <<tx.id, v>>
          BY <1>1, <4>1, <4>2, <5>1, DocIs
        <5>3. QED
          BY <3>4, <5>2
      <4>4. CASE IsDeploy(doc)
        <5> HIDE DEF doc, record, key
        <5>a. after = [tokenKey |-> key, deployOutpoint |-> <<tx.id, v>>, max |-> doc.max,
                       limit |-> doc.limit, supply |-> Amount(doc, record),
                       burned |-> 0, height |-> height, idx |-> idx]
          BY <4>2, <4>4 DEF TokenAfter
        <5> HIDE DEF after
        <5>1. after.max = None /\ after.limit = None
          BY <4>3, <5>a
        <5>2. k[1] = tx.id
          BY <4>3, <4>4
        <5>3. QED
          BY <3>2, <4>1, <5>1, <5>2 DEF Capless
      <4>5. CASE ~ IsDeploy(doc)
        <5>1. after = Null
          BY <2>1, <3>4, <4>2, <4>5 DEF TokenAfter
        <5>2. QED
          BY <2>2, <3>2, <4>1, <5>1
      <4>6. QED
        BY <4>4, <4>5
    <3>5. QED
      BY <3>3, <3>4
  <2>6. Fine(N)
    <3> HIDE DEF P
    <3>1. \A n \in 0 .. N : n \in P
      BY <1>1, <2>are, <2>3, <2>4, <2>5, InputsThenOutputs
    <3>2. N \in P
      BY <2>size, <3>1
    <3>3. QED
      BY <3>2 DEF P
  <2>7. done[Token(k)] = at(N)[Token(k)]
    <3>1. Outcome(rec, tx, work, done)
      BY <2>are, OutcomeIs DEF work
    <3>2. QED
      BY <1>1, <2>are, <3>1 DEF Outcome
  <2>8. QED
    BY <1>3, <2>6, <2>7 DEF Capless, Held, Get
<1>4. QED
  BY <1>2, <1>3

\* A reading says all there is to say.
LEMMA ReadsAre ==
  ASSUME NEW rec, NEW o, NEW k
  PROVE  /\ Held(rec, Utxo(o)) =>
              /\ Reads(rec, o) # << >> /\ Reads(rec, o)[1] = rec[Utxo(o)].tokenKey
              /\ Reads(rec, o)[2] = rec[Utxo(o)].amount
              /\ Reads(rec, o)[3] = rec[Utxo(o)].authority
         /\ ~ Held(rec, Utxo(o)) => Reads(rec, o) = << >>
         /\ ReadsOf(rec, o, k) # << >> <=> Held(rec, Utxo(o)) /\ rec[Utxo(o)].tokenKey = k
         /\ ReadsOf(rec, o, k) # << >> => ReadsOf(rec, o, k) = Reads(rec, o)
         /\ ReadsOf(rec, o, k) =
              IF Reads(rec, o) # << >> /\ Reads(rec, o)[1] = k THEN Reads(rec, o) ELSE << >>
<1>1. \A a, b, c, d : <<a, b, c, d>> # << >>
  OBVIOUS
<1>2. Held(rec, Utxo(o)) =>
        /\ Reads(rec, o) # << >> /\ Reads(rec, o)[1] = rec[Utxo(o)].tokenKey
        /\ Reads(rec, o)[2] = rec[Utxo(o)].amount
        /\ Reads(rec, o)[3] = rec[Utxo(o)].authority
  BY <1>1 DEF Reads
<1>3. ~ Held(rec, Utxo(o)) => Reads(rec, o) = << >>
  BY DEF Reads
<1>4. QED
  BY <1>2, <1>3 DEF ReadsOf

\* Two stores that agree on a token judge its outputs alike.
LEMMA JudgedAlike ==
  ASSUME NEW tx \in Transaction, NEW one, NEW other, RecordsOK(one), RecordsOK(other),
         NEW k \in Outpoint, Capless(one, k), Capless(other, k),
         k[1] = tx.id => ~ Held(one, Token(k)) /\ ~ Held(other, Token(k)),
         NEW v \in DOMAIN tx.outputs, KeyOf(tx.outputs[v], <<tx.id, v>>) = k,
         tx.outputs[v].op = "mint" /\ v \in TokenOutputs(tx) =>
           (Held(one, Token(k)) <=> Held(other, Token(k))),
         NEW first, NEW second, Left(first, k) = Left(second, k),
         k \in first.authorised <=> k \in second.authorised
  PROVE  /\ Taken(one, tx, first, v) <=> Taken(other, tx, second, v)
         /\ Judged(one, tx, first, v) = Judged(other, tx, second, v)
<1> DEFINE doc == tx.outputs[v]
           was == Get(one, Token(k))
           is == Get(other, Token(k))
           may == k \in first.authorised
           left == Left(first, k)
<1>1. k \in TokenKey
  BY DEF TokenKey
<1>2. /\ was # Absent => was.max = None /\ was.limit = None
      /\ is # Absent => is.max = None /\ is.limit = None
      /\ Held(one, Token(k)) <=> was # Absent
      /\ Held(other, Token(k)) <=> is # Absent
  <2>1. was \in TokenRecord \cup {Absent} /\ is \in TokenRecord \cup {Absent}
    BY <1>1, RecordIs
  <2>2. was # Absent => was.max = None /\ was.limit = None
    BY <1>1, RecordIs DEF Capless, Held
  <2>3. is # Absent => is.max = None /\ is.limit = None
    BY <1>1, RecordIs DEF Capless, Held
  <2>4. QED
    BY <2>1, <2>2, <2>3 DEF Held
<1>3. /\ Taken(one, tx, first, v) <=> v \in TokenOutputs(tx) /\ Accepted(doc, was, may, left)
      /\ Taken(other, tx, second, v) <=> v \in TokenOutputs(tx) /\ Accepted(doc, is, may, left)
  <2>1. KeyOf(doc, <<tx.id, v>>) = k
    OBVIOUS
  <2>2. (k \in second.authorised) = may
    OBVIOUS
  <2> HIDE DEF doc, may
  <2>3. QED
    BY <2>1, <2>2 DEF Taken, doc
<1>d. doc = tx.outputs[v] /\ KeyOf(doc, <<tx.id, v>>) = k
  OBVIOUS
<1> HIDE DEF was, is, may, left, doc
<1>4. ASSUME v \in TokenOutputs(tx), doc.wellFormed
      PROVE  /\ Accepted(doc, was, may, left) <=> Accepted(doc, is, may, left)
             /\ Accepted(doc, was, may, left) => Amount(doc, was) = Amount(doc, is)
  <2>1. IsDeploy(doc) => k = <<tx.id, v>>
    BY <1>d, <1>4, DocIs
  <2>2. CASE IsDeploy(doc)
    <3>1. was = Absent /\ is = Absent
      BY <1>2, <2>1, <2>2
    <3>2. QED
      BY <3>1
  <2>3. CASE doc.op = "mint"
    <3>1. was # Absent <=> is # Absent
      BY <1>d, <1>2, <1>4, <2>3
    <3>2. ~ IsDeploy(doc)
      BY <2>3 DEF IsDeploy
    <3>3. Mintable(doc, was, may) <=> Mintable(doc, is, may)
      <4>1. ASSUME NEW r, r # Absent => r.max = None /\ r.limit = None
            PROVE  Mintable(doc, r, may) <=> r # Absent /\ (doc.standard = "BSV-21" => may)
        BY <4>1 DEF Mintable
      <4>2. /\ Mintable(doc, was, may) <=> was # Absent /\ (doc.standard = "BSV-21" => may)
            /\ Mintable(doc, is, may) <=> is # Absent /\ (doc.standard = "BSV-21" => may)
        BY <1>2, <4>1
      <4>3. QED
        BY <3>1, <4>2
    <3>4. was # Absent => Filled(doc, was) = Filled(doc, is)
      <4>1. ASSUME NEW r, r.max = None
            PROVE  Filled(doc, r) = doc.amount
        BY <4>1 DEF Filled
      <4>2. QED
        BY <1>2, <3>1, <4>1
    <3>5. Accepted(doc, was, may, left) => was # Absent
      BY <2>3, <3>2 DEF Accepted, Mintable
    <3>6. Accepted(doc, was, may, left) <=> Accepted(doc, is, may, left)
      BY <2>3, <3>2, <3>3 DEF Accepted
    <3>7. Amount(doc, was) = Filled(doc, was) /\ Amount(doc, is) = Filled(doc, is)
      BY <2>3 DEF Amount
    <3>8. QED
      BY <3>4, <3>5, <3>6, <3>7
  <2>4. CASE ~ IsDeploy(doc) /\ doc.op # "mint"
    <3>1. Accepted(doc, was, may, left) <=> Accepted(doc, is, may, left)
      BY <2>4 DEF Accepted
    <3>2. doc.op # "deploy+mint" /\ Amount(doc, was) = Amount(doc, is)
      BY <2>4 DEF Amount, IsDeploy
    <3>3. QED
      BY <3>1, <3>2
  <2>5. QED
    BY <2>2, <2>3, <2>4
<1>5. ~ doc.wellFormed => ~ Accepted(doc, was, may, left) /\ ~ Accepted(doc, is, may, left)
  BY DEF Accepted
<1>6. Taken(one, tx, first, v) <=> Taken(other, tx, second, v)
  BY <1>3, <1>4, <1>5
<1>7. Taken(one, tx, first, v) => Amount(doc, was) = Amount(doc, is)
  BY <1>3, <1>4, <1>5
<1>8. Judged(one, tx, first, v) =
        IF Taken(one, tx, first, v) /\ doc.op # "burn"
        THEN <<k, Amount(doc, was), IsAuth(doc), doc.owner>> ELSE << >>
  BY <1>d DEF Judged, was
<1>9. Judged(other, tx, second, v) =
        IF Taken(other, tx, second, v) /\ doc.op # "burn"
        THEN <<k, Amount(doc, is), IsAuth(doc), doc.owner>> ELSE << >>
  BY <1>d DEF Judged, is
<1>10. QED
  BY <1>6, <1>7, <1>8, <1>9

\* Two stores a transaction cannot tell apart by the token k.
Alike(one, other, tx, k) ==
  /\ Capless(one, k) /\ Capless(other, k)
  /\ \A o \in Ins(tx) : ReadsOf(one, o, k) = ReadsOf(other, o, k)
  /\ k[1] = tx.id => ~ Held(one, Token(k)) /\ ~ Held(other, Token(k))
  /\ \A v \in TokenOutputs(tx) :
       tx.outputs[v].op = "mint" /\ KeyOf(tx.outputs[v], <<tx.id, v>>) = k
         => (Held(one, Token(k)) <=> Held(other, Token(k)))

\* The work on both, side by side.
InStep(tx, k, first, was, second, is) ==
  /\ Left(first, k) = Left(second, k)
  /\ k \in first.authorised <=> k \in second.authorised
  /\ k[1] = tx.id => (Held(was, Token(k)) <=> Held(is, Token(k)))

\* An input takes the same of the token out of both.
LEMMA TwinInput ==
  ASSUME NEW one, NEW other, NEW tx, NEW k \in TokenKey, NEW o \in Ins(tx),
         Alike(one, other, tx, k),
         NEW first, NEW was, NEW first2, NEW was2, Consumed(one, tx, o, first, was, first2, was2),
         NEW second, NEW is, NEW second2, NEW is2, Consumed(other, tx, o, second, is, second2, is2),
         InStep(tx, k, first, was, second, is)
  PROVE  InStep(tx, k, first2, was2, second2, is2)
<1> DEFINE mine == Held(one, Utxo(o)) /\ one[Utxo(o)].tokenKey = k
           ours == Held(other, Utxo(o)) /\ other[Utxo(o)].tokenKey = k
<1>1. ReadsOf(one, o, k) = ReadsOf(other, o, k)
  BY DEF Alike
<1>2. mine <=> ours
  BY <1>1, ReadsAre
<1>3. ASSUME mine
      PROVE  /\ one[Utxo(o)].authority = other[Utxo(o)].authority
             /\ one[Utxo(o)].amount = other[Utxo(o)].amount
  <2>1. ours
    BY <1>2, <1>3
  <2>2. /\ ReadsOf(one, o, k) # << >> /\ ReadsOf(other, o, k) # << >>
    BY <1>3, <2>1, ReadsAre
  <2>3. Reads(one, o) = Reads(other, o)
    BY <1>1, <2>2, ReadsAre
  <2>4. QED
    BY <1>3, <2>1, <2>3, ReadsAre
<1>4. mine => Carries(one[Utxo(o)]) = Carries(other[Utxo(o)])
  BY <1>3 DEF Carries
<1>5. /\ was2[Token(k)] = was[Token(k)]
      /\ Left(first2, k) = Left(first, k) + (IF mine THEN Carries(one[Utxo(o)]) ELSE 0)
      /\ k \in first2.authorised <=> k \in first.authorised \/ (mine /\ one[Utxo(o)].authority)
  BY DEF Consumed
<1>6. /\ is2[Token(k)] = is[Token(k)]
      /\ Left(second2, k) = Left(second, k) + (IF ours THEN Carries(other[Utxo(o)]) ELSE 0)
      /\ k \in second2.authorised <=> k \in second.authorised \/ (ours /\ other[Utxo(o)].authority)
  BY DEF Consumed
<1> HIDE DEF mine, ours
<1>7. Left(first2, k) = Left(second2, k)
  BY <1>2, <1>4, <1>5, <1>6 DEF InStep
<1>8. k \in first2.authorised <=> k \in second2.authorised
  BY <1>2, <1>3, <1>5, <1>6 DEF InStep
<1>9. k[1] = tx.id => (Held(was2, Token(k)) <=> Held(is2, Token(k)))
  BY <1>5, <1>6 DEF InStep, Held, Get
<1>10. QED
  BY <1>7, <1>8, <1>9 DEF InStep

\* What an output's turn does to the token k, if it is one of that token.
Moves(rec, tx, work, k, v) ==
  LET n == Len(tx.inputs) + v
      was == Apply(rec, work[n - 1].writes)
      is == Apply(rec, work[n].writes)
      doc == tx.outputs[v]
      mine == Taken(rec, tx, work[n - 1], v) /\ KeyOf(doc, <<tx.id, v>>) = k
  IN  /\ work[n].authorised = work[n - 1].authorised
      /\ Left(work[n], k) =
           IF mine THEN Left(work[n - 1], k) - Drawn(doc) ELSE Left(work[n - 1], k)
      /\ ~ mine => is[Token(k)] = was[Token(k)]
      /\ mine /\ ~ Held(rec, Token(k)) =>
           /\ ~ Issues(doc) => is[Token(k)] = was[Token(k)]
           /\ IsDeploy(doc) => Held(is, Token(k))
           /\ Issues(doc) /\ ~ IsDeploy(doc) => ~ Held(is, Token(k))

LEMMA TokenMoves ==
  ASSUME NEW rec, NEW tx, Applicable(rec, tx), NEW height \in Nat, NEW idx \in Nat,
         NEW work, work = Work(rec, tx, height, idx), NEW v \in DOMAIN tx.outputs,
         NEW k \in Outpoint, Capless(rec, k)
  PROVE  Moves(rec, tx, work, k, v)
<1> DEFINE n == Len(tx.inputs) + v
           was == Apply(rec, work[n - 1].writes)
           is == Apply(rec, work[n].writes)
           doc == tx.outputs[v]
           mine == Taken(rec, tx, work[n - 1], v) /\ KeyOf(doc, <<tx.id, v>>) = k
           key == KeyOf(doc, <<tx.id, v>>)
           record == Get(rec, Token(key))
           after == TokenAfter(doc, record, key, <<tx.id, v>>, height, idx)
<1>1. k \in TokenKey
  BY DEF TokenKey
<1>2. /\ ~ Taken(rec, tx, work[n - 1], v) => work[n] = work[n - 1]
      /\ Taken(rec, tx, work[n - 1], v) =>
           /\ Accepted(doc, record, key \in work[n - 1].authorised, Left(work[n - 1], key))
           /\ Created(doc, key, <<tx.id, v>>, Amount(doc, record), after,
                      work[n - 1], was, work[n], is)
  <2>1. Turn(rec, tx, height, idx, work, v)
    BY OutputStep
  <2>2. QED
    BY <2>1 DEF Turn
<1>are. mine <=> Taken(rec, tx, work[n - 1], v) /\ key = k
  OBVIOUS
<1> HIDE DEF n, was, is, doc, mine
<1>3. ASSUME ~ Taken(rec, tx, work[n - 1], v)
      PROVE  /\ work[n].authorised = work[n - 1].authorised
             /\ Left(work[n], k) = IF mine THEN Left(work[n - 1], k) - Drawn(doc)
                                 ELSE Left(work[n - 1], k)
             /\ ~ mine => is[Token(k)] = was[Token(k)]
             /\ mine /\ ~ Held(rec, Token(k)) =>
                  /\ ~ Issues(doc) => is[Token(k)] = was[Token(k)]
                  /\ IsDeploy(doc) => Held(is, Token(k))
                  /\ Issues(doc) /\ ~ IsDeploy(doc) => ~ Held(is, Token(k))
  BY <1>2, <1>3, <1>are DEF was, is
<1>4. ASSUME Taken(rec, tx, work[n - 1], v)
      PROVE  /\ work[n].authorised = work[n - 1].authorised
             /\ Left(work[n], k) = IF mine THEN Left(work[n - 1], k) - Drawn(doc)
                                 ELSE Left(work[n - 1], k)
             /\ ~ mine => is[Token(k)] = was[Token(k)]
             /\ mine /\ ~ Held(rec, Token(k)) =>
                  /\ ~ Issues(doc) => is[Token(k)] = was[Token(k)]
                  /\ IsDeploy(doc) => Held(is, Token(k))
                  /\ Issues(doc) /\ ~ IsDeploy(doc) => ~ Held(is, Token(k))
  <2>1. Created(doc, key, <<tx.id, v>>, Amount(doc, record), after, work[n - 1], was, work[n], is)
    BY <1>2, <1>4
  <2>2. Accepted(doc, record, key \in work[n - 1].authorised, Left(work[n - 1], key))
    BY <1>2, <1>4
  <2>3. mine <=> key = k
    BY <1>4, <1>are
  <2> HIDE DEF key, record
  <2>4. /\ work[n].authorised = work[n - 1].authorised
        /\ Left(work[n], k) = IF key = k THEN Left(work[n - 1], key) - Drawn(doc)
                            ELSE Left(work[n - 1], k)
        /\ k # key \/ ~ Issues(doc) => is[Token(k)] = was[Token(k)]
        /\ Issues(doc) => is[Token(key)] = after /\ (IsDeploy(doc) => after \in TokenRecord)
    BY <1>1, <2>1 DEF Created
  <2>5. ASSUME key = k, ~ Held(rec, Token(k)), Issues(doc)
        PROVE  /\ IsDeploy(doc) => Held(is, Token(k))
               /\ ~ IsDeploy(doc) => ~ Held(is, Token(k))
    <3>1. record = Absent
      BY <2>5 DEF record, Held
    <3>2. is[Token(k)] = after
      BY <2>4, <2>5
    <3>3. ASSUME IsDeploy(doc)
          PROVE  Held(is, Token(k))
      <4>1. after \in TokenRecord
        BY <2>4, <2>5, <3>3
      <4> HIDE DEF after
      <4>2. QED
        BY <3>2, <4>1, MarkAssumption DEF Held, Get
    <3>4. ASSUME ~ IsDeploy(doc)
          PROVE  ~ Held(is, Token(k))
      <4>1. doc.op # "mint"
        BY <2>2, <3>1, <3>4 DEF Accepted, Mintable
      <4>2. after = Null
        BY <3>1, <3>4, <4>1 DEF TokenAfter
      <4> HIDE DEF after
      <4>3. QED
        BY <3>2, <4>2 DEF Held, Get
    <3>5. QED
      BY <3>3, <3>4
  <2> HIDE DEF after
  <2>6. CASE mine
    <3>1. key = k
      BY <2>3, <2>6
    <3>2. /\ Left(work[n], k) = Left(work[n - 1], k) - Drawn(doc)
          /\ work[n].authorised = work[n - 1].authorised
          /\ ~ Issues(doc) => is[Token(k)] = was[Token(k)]
      BY <2>4, <3>1
    <3>3. /\ ~ Held(rec, Token(k)) /\ Issues(doc) /\ IsDeploy(doc) => Held(is, Token(k))
          /\ ~ Held(rec, Token(k)) /\ Issues(doc) /\ ~ IsDeploy(doc) => ~ Held(is, Token(k))
      BY <2>5, <3>1
    <3>4. IsDeploy(doc) => Issues(doc)
      BY DEF Issues
    <3>5. QED
      BY <2>6, <3>2, <3>3, <3>4
  <2>7. CASE ~ mine
    <3>1. key # k
      BY <2>3, <2>7
    <3>2. QED
      BY <2>4, <2>7, <3>1
  <2>8. QED
    BY <2>6, <2>7
<1>5. QED
  BY <1>3, <1>4 DEF n, was, is, doc, mine, Moves

Abreast(one, other, tx, k, work, work2, n) ==
  InStep(tx, k, work[n], Apply(one, work[n].writes), work2[n], Apply(other, work2[n].writes))
Concur(one, other, tx, k, work, work2, v) ==
  KeyOf(tx.outputs[v], <<tx.id, v>>) = k =>
    Judged(one, tx, work[(Len(tx.inputs) + v) - 1], v)
      = Judged(other, tx, work2[(Len(tx.inputs) + v) - 1], v)

\* An output gives the same of the token to both.
LEMMA TwinOutput ==
  ASSUME NEW one, NEW other, NEW tx, Applicable(one, tx), Applicable(other, tx),
         NEW h1 \in Nat, NEW x1 \in Nat, NEW h2 \in Nat, NEW x2 \in Nat,
         NEW work, work = Work(one, tx, h1, x1), NEW work2, work2 = Work(other, tx, h2, x2),
         NEW k \in Outpoint, Alike(one, other, tx, k),
         NEW v \in DOMAIN tx.outputs,
         Abreast(one, other, tx, k, work, work2, (Len(tx.inputs) + v) - 1)
  PROVE  /\ Abreast(one, other, tx, k, work, work2, Len(tx.inputs) + v)
         /\ Concur(one, other, tx, k, work, work2, v)
<1> DEFINE n == Len(tx.inputs) + v
           doc == tx.outputs[v]
           key == KeyOf(doc, <<tx.id, v>>)
           first == work[n - 1]
           second == work2[n - 1]
           was == Apply(one, first.writes)
           was2 == Apply(other, second.writes)
           is == Apply(one, work[n].writes)
           is2 == Apply(other, work2[n].writes)
           mine == Taken(one, tx, first, v) /\ key = k
           ours == Taken(other, tx, second, v) /\ key = k
<1>1. /\ Capless(one, k) /\ Capless(other, k)
      /\ k[1] = tx.id => ~ Held(one, Token(k)) /\ ~ Held(other, Token(k))
      /\ v \in TokenOutputs(tx) /\ doc.op = "mint" /\ key = k
           => (Held(one, Token(k)) <=> Held(other, Token(k)))
      /\ RecordsOK(one) /\ RecordsOK(other) /\ tx \in Transaction
  BY DEF Alike, Applicable
<1>2. /\ Left(first, k) = Left(second, k)
      /\ k \in first.authorised <=> k \in second.authorised
      /\ k[1] = tx.id => (Held(was, Token(k)) <=> Held(was2, Token(k)))
  <2>1. InStep(tx, k, first, was, second, was2)
    BY DEF Abreast
  <2>2. QED
    BY <2>1 DEF InStep
<1>3. ASSUME key = k
      PROVE  /\ Taken(one, tx, first, v) <=> Taken(other, tx, second, v)
             /\ Judged(one, tx, first, v) = Judged(other, tx, second, v)
  <2> HIDE DEF first, second
  <2>1. QED
    BY <1>1, <1>2, <1>3, JudgedAlike
<1>4. mine <=> ours
  BY <1>3
<1>5. /\ work[n].authorised = first.authorised
      /\ Left(work[n], k) = IF mine THEN Left(first, k) - Drawn(doc) ELSE Left(first, k)
      /\ ~ mine => is[Token(k)] = was[Token(k)]
      /\ mine /\ ~ Held(one, Token(k)) =>
           /\ ~ Issues(doc) => is[Token(k)] = was[Token(k)]
           /\ IsDeploy(doc) => Held(is, Token(k))
           /\ Issues(doc) /\ ~ IsDeploy(doc) => ~ Held(is, Token(k))
  <2>1. Moves(one, tx, work, k, v)
    BY <1>1, TokenMoves
  <2>2. QED
    BY <2>1 DEF Moves
<1>6. /\ work2[n].authorised = second.authorised
      /\ Left(work2[n], k) = IF ours THEN Left(second, k) - Drawn(doc) ELSE Left(second, k)
      /\ ~ ours => is2[Token(k)] = was2[Token(k)]
      /\ ours /\ ~ Held(other, Token(k)) =>
           /\ ~ Issues(doc) => is2[Token(k)] = was2[Token(k)]
           /\ IsDeploy(doc) => Held(is2, Token(k))
           /\ Issues(doc) /\ ~ IsDeploy(doc) => ~ Held(is2, Token(k))
  <2>1. Moves(other, tx, work2, k, v)
    BY <1>1, TokenMoves
  <2>2. QED
    BY <2>1 DEF Moves
<1> HIDE DEF n, mine, ours, doc, key, first, second, was, was2, is, is2
<1>7. Left(work[n], k) = Left(work2[n], k)
  BY <1>2, <1>4, <1>5, <1>6
<1>8. k \in work[n].authorised <=> k \in work2[n].authorised
  BY <1>2, <1>5, <1>6
<1>9. ASSUME k[1] = tx.id
      PROVE  Held(is, Token(k)) <=> Held(is2, Token(k))
  <2>1. ~ Held(one, Token(k)) /\ ~ Held(other, Token(k))
    BY <1>1, <1>9
  <2>2. Held(was, Token(k)) <=> Held(was2, Token(k))
    BY <1>2, <1>9
  <2>3. /\ is[Token(k)] = was[Token(k)] => (Held(is, Token(k)) <=> Held(was, Token(k)))
        /\ is2[Token(k)] = was2[Token(k)] => (Held(is2, Token(k)) <=> Held(was2, Token(k)))
    BY DEF Held, Get
  <2>4. CASE ~ mine
    BY <1>4, <1>5, <1>6, <2>2, <2>3, <2>4
  <2>5. CASE mine
    <3>1. ours
      BY <1>4, <2>5
    <3>2. CASE IsDeploy(doc)
      BY <1>5, <1>6, <2>1, <2>5, <3>1, <3>2
    <3>3. CASE ~ IsDeploy(doc) /\ Issues(doc)
      BY <1>5, <1>6, <2>1, <2>5, <3>1, <3>3
    <3>4. CASE ~ Issues(doc)
      BY <1>5, <1>6, <2>1, <2>2, <2>3, <2>5, <3>1, <3>4
    <3>5. QED
      BY <3>2, <3>3, <3>4
  <2>6. QED
    BY <2>4, <2>5
<1>10. InStep(tx, k, work[n], is, work2[n], is2)
  BY <1>7, <1>8, <1>9 DEF InStep
<1>11. Abreast(one, other, tx, k, work, work2, Len(tx.inputs) + v)
  BY <1>10 DEF n, is, is2, Abreast
<1>12. QED
  BY <1>3, <1>11 DEF n, doc, key, first, second, Concur

\* What two stores that agree on a token make of it with one transaction.
LEMMA Twins ==
  ASSUME NEW one, NEW other, NEW tx, Applicable(one, tx), Applicable(other, tx),
         NEW h1 \in Nat, NEW x1 \in Nat, NEW h2 \in Nat, NEW x2 \in Nat,
         NEW left, left = Apply(one, TransactionWrites(one, tx, h1, x1)),
         NEW right, right = Apply(other, TransactionWrites(other, tx, h2, x2)),
         NEW k \in Outpoint, Alike(one, other, tx, k)
  PROVE  /\ \A v \in DOMAIN tx.outputs :
              ReadsOf(left, <<tx.id, v>>, k) = ReadsOf(right, <<tx.id, v>>, k)
         /\ k[1] = tx.id => (Held(left, Token(k)) <=> Held(right, Token(k)))
<1> DEFINE N == Steps(tx)
           M == Len(tx.inputs)
           work == Work(one, tx, h1, x1)
           work2 == Work(other, tx, h2, x2)
           was(n) == Apply(one, work[n].writes)
           was2(n) == Apply(other, work2[n].writes)
           P == {n \in 0 .. N : Abreast(one, other, tx, k, work, work2, n)}
<1>1. /\ k \in TokenKey /\ tx \in Transaction
      /\ RecordsOK(one) /\ RecordsOK(other)
  BY DEF TokenKey, Applicable
<1>2. /\ M \in Nat /\ N \in Nat /\ Len(tx.outputs) \in Nat /\ N = M + Len(tx.outputs)
      /\ DOMAIN tx.outputs = 1 .. Len(tx.outputs)
  BY <1>1, TransactionIs DEF Steps
<1>are. /\ N = Steps(tx) /\ M = Len(tx.inputs)
        /\ work = Work(one, tx, h1, x1) /\ work2 = Work(other, tx, h2, x2)
  OBVIOUS
<1> HIDE DEF N, M, work, work2
<1>3. 0 \in P
  <2>1. work[0] = Begun /\ work2[0] = Begun
    BY <1>1, <1>are, WorkAdvances, TransactionIs
  <2>2. 0 \in 0 .. Steps(tx) /\ Looked(tx, 0) = {}
    BY <1>1, TransactionIs DEF Looked
  <2>3. /\ Midway(one, tx, 0, work[0], was(0)) /\ Midway(other, tx, 0, work2[0], was2(0))
    BY <1>are, <2>2, WorkGoesOn
  <2>4. was(0)[Token(k)] = one[Token(k)] /\ was2(0)[Token(k)] = other[Token(k)]
    BY <1>1, <2>2, <2>3 DEF Midway, TokensStand
  <2>5. Abreast(one, other, tx, k, work, work2, 0)
    BY <2>1, <2>4 DEF InStep, Abreast, Alike, Held, Get
  <2>6. QED
    BY <1>2, <2>5
<1>4. ASSUME NEW n \in 1 .. M, n - 1 \in P
      PROVE  n \in P
  <2>1. /\ tx.inputs[n] \in Ins(tx) /\ n \in 1 .. N
        /\ Consumed(one, tx, tx.inputs[n], work[n - 1], was(n - 1), work[n], was(n))
    BY <1>are, InputStep
  <2>2. Consumed(other, tx, tx.inputs[n], work2[n - 1], was2(n - 1), work2[n], was2(n))
    BY <1>are, InputStep
  <2>3. InStep(tx, k, work[n - 1], was(n - 1), work2[n - 1], was2(n - 1))
    BY <1>4 DEF Abreast
  <2>4. Abreast(one, other, tx, k, work, work2, n)
    BY <1>1, <2>1, <2>2, <2>3, TwinInput DEF Abreast
  <2>5. QED
    BY <1>2, <2>1, <2>4
<1>5. ASSUME NEW v \in DOMAIN tx.outputs, (M + v) - 1 \in P
      PROVE  /\ M + v \in P
             /\ KeyOf(tx.outputs[v], <<tx.id, v>>) = k =>
                  Judged(one, tx, work[(M + v) - 1], v) = Judged(other, tx, work2[(M + v) - 1], v)
  <2>a. M + v \in 0 .. N
    BY <1>2
  <2>1. M + v \in 0 .. N /\ Abreast(one, other, tx, k, work, work2, (M + v) - 1)
    BY <1>5, <2>a
  <2>2. Abreast(one, other, tx, k, work, work2, (Len(tx.inputs) + v) - 1)
    BY <1>are, <2>1
  <2>3. /\ Abreast(one, other, tx, k, work, work2, Len(tx.inputs) + v)
        /\ Concur(one, other, tx, k, work, work2, v)
    BY <1>are, <2>2, TwinOutput
  <2>4. QED
    BY <1>are, <2>1, <2>3 DEF Concur
<1>6. \A n \in 0 .. N : n \in P
  <2> HIDE DEF P
  <2>1. QED
    BY <1>1, <1>are, <1>3, <1>4, <1>5, InputsThenOutputs
<1>7. /\ \A v \in DOMAIN tx.outputs :
           Reads(left, <<tx.id, v>>) = Judged(one, tx, work[(M + v) - 1], v)
      /\ left[Token(k)] = was(N)[Token(k)]
  <2>1. Outcome(one, tx, work, left)
    BY <1>are, OutcomeIs
  <2>2. QED
    BY <1>1, <1>are, <2>1 DEF Outcome
<1>8. /\ \A v \in DOMAIN tx.outputs :
           Reads(right, <<tx.id, v>>) = Judged(other, tx, work2[(M + v) - 1], v)
      /\ right[Token(k)] = was2(N)[Token(k)]
  <2>1. Outcome(other, tx, work2, right)
    BY <1>are, OutcomeIs
  <2>2. QED
    BY <1>1, <1>are, <2>1 DEF Outcome
<1>9. ASSUME NEW v \in DOMAIN tx.outputs
      PROVE  ReadsOf(left, <<tx.id, v>>, k) = ReadsOf(right, <<tx.id, v>>, k)
  <2>1. CASE KeyOf(tx.outputs[v], <<tx.id, v>>) = k
    <3>1. (M + v) - 1 \in 0 .. N
      BY <1>2
    <3>2. Judged(one, tx, work[(M + v) - 1], v) = Judged(other, tx, work2[(M + v) - 1], v)
      <4> HIDE DEF P
      <4>1. QED
        BY <1>5, <1>6, <2>1, <3>1
    <3>3. Reads(left, <<tx.id, v>>) = Reads(right, <<tx.id, v>>)
      BY <1>7, <1>8, <3>2
    <3>4. QED
      BY <3>3, ReadsAre
  <2>2. CASE KeyOf(tx.outputs[v], <<tx.id, v>>) # k
    <3>1. \A rec, st : Judged(rec, tx, st, v) = << >> \/ Judged(rec, tx, st, v)[1] # k
      BY <2>2 DEF Judged
    <3>2. /\ Reads(left, <<tx.id, v>>) = << >> \/ Reads(left, <<tx.id, v>>)[1] # k
          /\ Reads(right, <<tx.id, v>>) = << >> \/ Reads(right, <<tx.id, v>>)[1] # k
      BY <1>7, <1>8, <3>1
    <3>3. QED
      BY <3>2, ReadsAre
  <2>3. QED
    BY <2>1, <2>2
<1>10. ASSUME k[1] = tx.id
       PROVE  Held(left, Token(k)) <=> Held(right, Token(k))
  <2>1. N \in 0 .. N
    BY <1>2
  <2>2. InStep(tx, k, work[N], was(N), work2[N], was2(N))
    BY <1>6, <2>1 DEF Abreast
  <2>3. Held(was(N), Token(k)) <=> Held(was2(N), Token(k))
    BY <1>10, <2>2 DEF InStep
  <2>4. QED
    BY <1>7, <1>8, <2>3 DEF Held, Get
<1>11. QED
  BY <1>9, <1>10

\* What a transaction does to the store, all in all.
LEMMA AppliedOnce ==
  ASSUME NEW rec, NEW tx, Applicable(rec, tx), NEW height \in Nat, NEW idx \in Nat,
         NEW done, done = Apply(rec, TransactionWrites(rec, tx, height, idx))
  PROVE  /\ RecordsOK(done) /\ IsFiniteSet(Live(done))
         /\ \A w \in Owner, k \in TokenKey :
              Stored(done, w, k) = Total(done, LivePaid(done, w, k))
         /\ \A o \in Outpoint : o[1] # tx.id =>
              IF o \in Ins(tx) THEN ~ Held(done, Utxo(o)) ELSE done[Utxo(o)] = rec[Utxo(o)]
         /\ \A o \in Live(done) : o[1] = tx.id =>
              /\ o[2] \in TokenOutputs(tx)
              /\ done[Utxo(o)].tokenKey = KeyOf(tx.outputs[o[2]], o)
         /\ \A k \in Outpoint :
              /\ Capless(rec, k) => Capless(done, k)
              /\ k[1] # tx.id => (Held(done, Token(k)) <=> Held(rec, Token(k)))
<1> DEFINE n == Steps(tx)
           work == Work(rec, tx, height, idx)
           cur == Apply(rec, work[n].writes)
<1>1. Applied(rec, tx, done)
  BY TransactionApplied
<1>2. tx \in Transaction
  BY DEF Applicable
<1>3. IsFiniteSet(Live(done))
  <2>1. n \in Nat /\ Midway(rec, tx, n, work[n], cur) /\ BalancesNoted(cur, done, work[n].staged)
    BY DoneIs
  <2>2. \A o \in Outpoint : done[Utxo(o)] = cur[Utxo(o)]
    BY <2>1 DEF BalancesNoted
  <2>3. Live(done) = Live(cur)
    BY <2>2 DEF Live, Held, Get
  <2>4. QED
    BY <2>1, <2>3 DEF Midway
<1>4. Used(tx, n) = Ins(tx)
  <2>1. /\ Len(tx.inputs) \in Nat /\ Len(tx.outputs) \in Nat
        /\ DOMAIN tx.inputs = 1 .. Len(tx.inputs)
    BY <1>2, TransactionIs
  <2>2. \A a, b \in Nat : \A i \in 1 .. a : i <= a + b
    OBVIOUS
  <2>3. \A i \in DOMAIN tx.inputs : i <= Steps(tx)
    BY <2>1, <2>2 DEF Steps
  <2>4. QED
    BY <2>3 DEF Used, Ins, ToSet
<1>5. ASSUME NEW o \in Outpoint, o[1] # tx.id
      PROVE  IF o \in Ins(tx) THEN ~ Held(done, Utxo(o)) ELSE done[Utxo(o)] = rec[Utxo(o)]
  <2>1. done[Utxo(o)] = IF o \in Ins(tx) THEN Absent ELSE rec[Utxo(o)]
    BY <1>1, <1>4, <1>5 DEF Applied, InputsGone
  <2>2. QED
    BY <2>1 DEF Held, Get
<1>6. ASSUME NEW o \in Live(done), o[1] = tx.id
      PROVE  /\ o[2] \in TokenOutputs(tx)
             /\ done[Utxo(o)].tokenKey = KeyOf(tx.outputs[o[2]], o)
  <2>1. o \in Outpoint /\ Held(done, Utxo(o))
    BY DEF Live
  <2>2. o = <<tx.id, o[2]>>
    BY <1>6, <2>1 DEF Outpoint
  <2>3. o[2] \in DOMAIN tx.outputs
    BY <1>1, <1>6 DEF Applied, OutputsMade, Looked
  <2>4. Outcome(rec, tx, work, done)
    BY OutcomeIs
  <2> DEFINE st == work[(Len(tx.inputs) + o[2]) - 1]
  <2>5. Reads(done, o) = Judged(rec, tx, st, o[2])
    BY <2>2, <2>3, <2>4 DEF Outcome
  <2> HIDE DEF st
  <2>6. Reads(done, o) # << >> /\ Reads(done, o)[1] = done[Utxo(o)].tokenKey
    BY <2>1, ReadsAre
  <2>7. Taken(rec, tx, st, o[2]) /\ Judged(rec, tx, st, o[2])[1] = KeyOf(tx.outputs[o[2]], <<tx.id, o[2]>>)
    BY <2>5, <2>6 DEF Judged
  <2>8. QED
    BY <2>2, <2>5, <2>6, <2>7 DEF Taken
<1>7. \A k \in Outpoint :
        /\ Capless(rec, k) => Capless(done, k)
        /\ k[1] # tx.id => (Held(done, Token(k)) <=> Held(rec, Token(k)))
  BY TokensKept
<1>8. QED
  BY <1>1, <1>3, <1>5, <1>6, <1>7 DEF Applied

\* An output that moves no amount.
MovesNothing(doc) ==
  /\ doc.wellFormed /\ doc.satoshis = 1
  /\ ~ IsDeploy(doc) /\ doc.op \notin {"mint", "burn"} /\ Big(doc.amount) = 0
Nothing(doc, k) == <<k, 0, IsAuth(doc), doc.owner>>

\* It is always accepted.
LEMMA NothingIsTaken ==
  ASSUME NEW rec, NEW tx, Applicable(rec, tx), NEW height \in Nat, NEW idx \in Nat,
         NEW done, done = Apply(rec, TransactionWrites(rec, tx, height, idx)),
         NEW v \in TokenOutputs(tx), MovesNothing(tx.outputs[v])
  PROVE  Reads(done, <<tx.id, v>>) = Nothing(tx.outputs[v], KeyOf(tx.outputs[v], <<tx.id, v>>))
<1> DEFINE work == Work(rec, tx, height, idx)
           st == work[(Len(tx.inputs) + v) - 1]
           doc == tx.outputs[v]
           key == KeyOf(doc, <<tx.id, v>>)
<1>1. tx \in Transaction /\ v \in DOMAIN tx.outputs
  BY DEF Applicable, TokenOutputs
<1>2. Reads(done, <<tx.id, v>>) = Judged(rec, tx, st, v)
  <2>1. Outcome(rec, tx, work, done)
    BY OutcomeIs
  <2>2. QED
    BY <1>1, <2>1 DEF Outcome
<1>3. Left(st, key) \in Nat
  <2> DEFINE n == (Len(tx.inputs) + v) - 1
  <2>1. n \in 0 .. Steps(tx)
    <3>1. Turn(rec, tx, height, idx, work, v)
      BY <1>1, OutputStep
    <3>2. QED
      BY <3>1 DEF Turn
  <2> HIDE DEF n
  <2>2. Midway(rec, tx, n, work[n], Apply(rec, work[n].writes))
    BY <2>1, WorkGoesOn
  <2>3. work[n].remaining \in Maps(TokenKey)
    BY <2>2 DEF Midway, WorkState
  <2>4. Left(work[n], key) \in Nat
    BY <2>3, LeftIs
  <2>5. QED
    BY <2>4 DEF n
<1>4. /\ doc.wellFormed /\ doc.satoshis = 1
      /\ ~ IsDeploy(doc) /\ doc.op \notin {"mint", "burn"} /\ Big(doc.amount) = 0
  BY DEF MovesNothing
<1> HIDE DEF doc, key, st
<1>5. \A record, may : Accepted(doc, record, may, Left(st, key)) /\ Amount(doc, record) = 0
  <2>1. ASSUME NEW record, NEW may
        PROVE  Accepted(doc, record, may, Left(st, key))
    BY <1>3, <1>4 DEF Accepted
  <2>2. ASSUME NEW record
        PROVE  Amount(doc, record) = 0
    BY <1>4 DEF Amount, IsDeploy
  <2>3. QED
    BY <2>1, <2>2
<1>6. Taken(rec, tx, st, v)
  BY <1>5 DEF Taken, doc, key
<1>7. Judged(rec, tx, st, v) = Nothing(doc, key)
  BY <1>4, <1>5, <1>6 DEF Judged, Nothing, doc, key
<1>8. QED
  BY <1>2, <1>7 DEF doc, key

\* Where the token was never deployed, nothing of it comes of nothing.
LEMMA NothingComes ==
  ASSUME NEW rec, NEW tx, Applicable(rec, tx), NEW height \in Nat, NEW idx \in Nat,
         NEW done, done = Apply(rec, TransactionWrites(rec, tx, height, idx)),
         NEW k \in Outpoint, k[1] # tx.id, ~ Held(rec, Token(k)),
         \A o \in Live(rec) : rec[Utxo(o)].tokenKey = k => rec[Utxo(o)].amount = 0,
         NEW v \in TokenOutputs(tx), KeyOf(tx.outputs[v], <<tx.id, v>>) = k,
         Reads(done, <<tx.id, v>>) # << >>
  PROVE  /\ MovesNothing(tx.outputs[v])
         /\ Reads(done, <<tx.id, v>>) = Nothing(tx.outputs[v], k)
<1> DEFINE N == Steps(tx)
           M == Len(tx.inputs)
           work == Work(rec, tx, height, idx)
           at(n) == Apply(rec, work[n].writes)
           P == {n \in 0 .. N : Left(work[n], k) = 0}
<1>1. /\ k \in TokenKey /\ tx \in Transaction /\ v \in DOMAIN tx.outputs
  BY DEF TokenKey, Applicable, TokenOutputs
<1>2. /\ M \in Nat /\ N \in Nat /\ Len(tx.outputs) \in Nat /\ N = M + Len(tx.outputs)
      /\ DOMAIN tx.outputs = 1 .. Len(tx.outputs)
  BY <1>1, TransactionIs DEF Steps
<1>are. N = Steps(tx) /\ M = Len(tx.inputs) /\ work = Work(rec, tx, height, idx)
  OBVIOUS
<1> HIDE DEF N, M, work
<1>3. 0 \in P
  <2>1. work[0] = Begun
    BY <1>1, <1>are, TransactionIs, WorkAdvances
  <2>2. Left(Begun, k) = 0
    BY DEF Left, Begun, NoMap
  <2>3. QED
    BY <1>2, <2>1, <2>2
<1>4. ASSUME NEW n \in 1 .. M, n - 1 \in P
      PROVE  n \in P
  <2> DEFINE o == tx.inputs[n]
             mine == Held(rec, Utxo(o)) /\ rec[Utxo(o)].tokenKey = k
  <2>1. /\ o \in Ins(tx) /\ n \in 1 .. N
        /\ Consumed(rec, tx, o, work[n - 1], at(n - 1), work[n], at(n))
    <3> DEFINE st == work[n - 1]
               next == work[n]
               cur == Apply(rec, st.writes)
               new == Apply(rec, next.writes)
    <3>1. /\ n \in 1 .. Len(tx.inputs) /\ st = work[n - 1] /\ next = work[n]
          /\ cur = Apply(rec, st.writes) /\ new = Apply(rec, next.writes)
      BY <1>are
    <3> HIDE DEF P, st, next, cur, new
    <3>2. /\ tx.inputs[n] \in Ins(tx) /\ n \in 1 .. Steps(tx)
          /\ Consumed(rec, tx, tx.inputs[n], st, cur, next, new)
      BY <1>are, <3>1, InputStep
    <3>3. QED
      BY <1>are, <3>2 DEF st, next, cur, new
  <2>2. Left(work[n], k) = Left(work[n - 1], k) + IF mine THEN Carries(rec[Utxo(o)]) ELSE 0
    BY <1>1, <2>1 DEF Consumed
  <2>3. mine => Carries(rec[Utxo(o)]) = 0
    <3>1. o \in Outpoint
      BY <1>1, <1>are, TransactionIs
    <3>2. mine => rec[Utxo(o)].amount = 0
      BY <3>1 DEF Live
    <3>3. QED
      BY <3>2 DEF Carries
  <2>4. Left(work[n - 1], k) = 0
    BY <1>4
  <2> HIDE DEF mine, o
  <2>5. Left(work[n], k) = 0
    BY <2>2, <2>3, <2>4
  <2>6. n \in 0 .. N
    BY <1>2, <2>1
  <2>7. QED
    BY <2>5, <2>6
<1>5. ASSUME NEW u \in DOMAIN tx.outputs, (M + u) - 1 \in P
      PROVE  M + u \in P
  <2> DEFINE doc == tx.outputs[u]
             key == KeyOf(doc, <<tx.id, u>>)
             st == work[(M + u) - 1]
  <2>1. Turn(rec, tx, height, idx, work, u)
    BY <1>are, OutputStep
  <2>2. /\ ~ Taken(rec, tx, st, u) => work[M + u] = st
        /\ Taken(rec, tx, st, u) =>
             /\ Drawn(doc) \in Nat /\ Drawn(doc) <= Left(st, key)
             /\ Left(work[M + u], k) = IF k = key THEN Left(st, key) - Drawn(doc) ELSE Left(st, k)
    BY <1>are, <2>1 DEF Turn, Created
  <2>3. Left(st, k) = 0 /\ M + u \in 0 .. N
    BY <1>2, <1>5
  <2> HIDE DEF doc, key, st
  <2>4. Left(work[M + u], k) = 0
    BY <2>2, <2>3
  <2>5. QED
    BY <2>3, <2>4
<1>6. \A n \in 0 .. N : n \in P
  <2> HIDE DEF P
  <2>1. QED
    BY <1>1, <1>are, <1>3, <1>4, <1>5, InputsThenOutputs
<1> DEFINE doc == tx.outputs[v]
           st == work[(M + v) - 1]
           record == Get(rec, Token(k))
<1>7. Left(st, k) = 0
  <2>1. (M + v) - 1 \in 0 .. N
    BY <1>1, <1>2
  <2>2. QED
    BY <1>6, <2>1
<1>8. Reads(done, <<tx.id, v>>) = Judged(rec, tx, st, v)
  <2>1. Outcome(rec, tx, work, done)
    BY <1>are, OutcomeIs
  <2>2. QED
    BY <1>1, <1>are, <2>1 DEF Outcome
<1>9. /\ Accepted(doc, record, k \in st.authorised, Left(st, k)) /\ doc.op # "burn"
      /\ Judged(rec, tx, st, v) = <<k, Amount(doc, record), IsAuth(doc), doc.owner>>
  BY <1>8 DEF Judged, Taken
<1>10. record = Absent
  BY DEF Held
<1>11. IsDeploy(doc) => k = <<tx.id, v>>
  <2>1. doc.wellFormed /\ KeyOf(doc, <<tx.id, v>>) = k
    BY <1>9 DEF Accepted
  <2>2. QED
    BY <1>1, <2>1, DocIs
<1> HIDE DEF doc, st, record
<1>12. ~ IsDeploy(doc)
  BY <1>11
<1>13. doc.op # "mint"
  BY <1>9, <1>10, <1>12 DEF Accepted, Mintable
<1>14. doc.wellFormed /\ doc.satoshis = 1 /\ Big(doc.amount) <= 0
  BY <1>7, <1>9, <1>12, <1>13 DEF Accepted
<1>15. Big(doc.amount) \in Nat
  <2>1. doc \in Document
    BY <1>1, OutputIs DEF doc
  <2>2. QED
    BY <2>1 DEF Document, Big
<1>16. Big(doc.amount) = 0
  BY <1>14, <1>15
<1>17. Amount(doc, record) = 0
  BY <1>12, <1>13, <1>16 DEF Amount, IsDeploy
<1>18. MovesNothing(doc)
  BY <1>9, <1>12, <1>13, <1>14, <1>16 DEF MovesNothing
<1>19. Reads(done, <<tx.id, v>>) = Nothing(doc, k)
  BY <1>8, <1>9, <1>17 DEF Nothing
<1>20. QED
  BY <1>18, <1>19 DEF doc

-----------------------------------------------------------------------------
(* Transactions of the chain, applied to an empty store in some order: as the  *)
(* index applied all of them, or as a replay applies a few.                    *)

Follows(rec, tx, done) ==
  \E height \in Nat, idx \in Nat : done = Apply(rec, TransactionWrites(rec, tx, height, idx))
Ran(c, order, run) ==
  /\ run[0] = [key \in Key |-> Absent]
  /\ \A n \in 1 .. Len(order) : Follows(run[n - 1], c[order[n]], run[n])
Upto(order, n) == {order[m] : m \in 1 .. n}

\* Each of them once.
OnceEach(order) ==
  /\ order \in Seq(Ids) /\ IsInjective(order)
  /\ \A i \in Ids : IsInjective(chain[i].inputs)

\* After n of them, no more of each output is known than its document says.
Stage(order, run, n) ==
  /\ RecordsOK(run[n]) /\ IsFiniteSet(Live(run[n]))
  /\ \A w \in Owner, k \in TokenKey :
       Stored(run[n], w, k) = Total(run[n], LivePaid(run[n], w, k))
  /\ \A k \in Outpoint :
       Capless(run[n], k) /\ (k[1] \notin Upto(order, n) => ~ Held(run[n], Token(k)))
  /\ \A o \in Live(run[n]) :
       /\ o[1] \in Upto(order, n)
       /\ o[2] \in TokenOutputs(chain[o[1]])
       /\ run[n][Utxo(o)].tokenKey = KeyOf(DocAt(o), o)
Fits(order, run, n) == Applicable(run[n - 1], chain[order[n]])

LEMMA OnceEachIs ==
  ASSUME NEW order, OnceEach(order)
  PROVE  /\ Len(order) \in Nat /\ DOMAIN order = 1 .. Len(order)
         /\ \A n \in 1 .. Len(order) :
              /\ order[n] \in Ids /\ order[n] \notin Upto(order, n - 1)
              /\ Upto(order, n) = Upto(order, n - 1) \cup {order[n]}
<1>1. /\ Len(order) \in Nat /\ DOMAIN order = 1 .. Len(order) /\ IsInjective(order)
      /\ \A n \in 1 .. Len(order) : order[n] \in Ids
  BY DEF OnceEach
<1>2. ASSUME NEW n \in 1 .. Len(order)
      PROVE  /\ order[n] \notin Upto(order, n - 1)
             /\ Upto(order, n) = Upto(order, n - 1) \cup {order[n]}
  <2>1. 1 .. n = (1 .. n - 1) \cup {n} /\ \A m \in 1 .. n - 1 : m \in 1 .. Len(order) /\ m # n
    BY <1>1
  <2>2. \A m \in 1 .. n - 1 : order[m] # order[n]
    BY <1>1, <2>1 DEF IsInjective
  <2>3. QED
    BY <2>1, <2>2 DEF Upto
<1>3. QED
  BY <1>1, <1>2

\* The empty store.
LEMMA NothingRan ==
  ASSUME NEW order, NEW run, Ran(chain, order, run)
  PROVE  Stage(order, run, 0)
<1> DEFINE rec == run[0]
<1>1. /\ DOMAIN rec = Key
      /\ \A o \in Outpoint : rec[Utxo(o)] = Absent /\ rec[Spend(o)] = Absent
      /\ \A k \in TokenKey : rec[Token(k)] = Absent
      /\ \A w \in Owner, k \in TokenKey : rec[Balance(w, k)] = Absent
  <2>1. rec = [key \in Key |-> Absent]
    BY DEF Ran
  <2> HIDE DEF rec
  <2>2. QED
    BY <2>1, KeyIs
<1> HIDE DEF rec
<1>2. RecordsOK(rec)
  BY <1>1 DEF RecordsOK
<1>3. /\ \A o \in Outpoint : ~ Held(rec, Utxo(o))
      /\ \A k \in TokenKey : ~ Held(rec, Token(k))
      /\ \A w \in Owner, k \in TokenKey : ~ Held(rec, Balance(w, k))
  BY <1>1 DEF Held, Get
<1>4. Live(rec) = {}
  BY <1>3 DEF Live
<1>5. \A w, k : LivePaid(rec, w, k) = {}
  BY <1>4 DEF LiveOf, LivePaid
<1>6. \A w \in Owner, k \in TokenKey : Stored(rec, w, k) = Total(rec, LivePaid(rec, w, k))
  BY <1>3, <1>5, TotalOfNone DEF Stored
<1>7. \A k \in Outpoint : ~ Held(rec, Token(k)) /\ Capless(rec, k)
  BY <1>3 DEF TokenKey, Capless
<1>8. IsFiniteSet(Live(rec))
  BY <1>4, FS_EmptySet
<1>9. QED
  BY <1>2, <1>4, <1>6, <1>7, <1>8 DEF Stage, rec

\* One more.
LEMMA OneMoreRan ==
  ASSUME LedgerIInv, NEW order, OnceEach(order), NEW run, Ran(chain, order, run),
         NEW n \in 1 .. Len(order), Stage(order, run, n - 1)
  PROVE  Fits(order, run, n) /\ Stage(order, run, n)
<1> DEFINE rec == run[n - 1]
           done == run[n]
           i == order[n]
           tx == chain[i]
<1>1. PICK height \in Nat, idx \in Nat : done = Apply(rec, TransactionWrites(rec, tx, height, idx))
  <2>1. Follows(rec, tx, done)
    BY DEF Ran
  <2> HIDE DEF rec, tx, done
  <2>2. QED
    BY <2>1 DEF Follows
<1>2. /\ i \in Ids /\ i \notin Upto(order, n - 1)
      /\ Upto(order, n) = Upto(order, n - 1) \cup {i}
  BY OnceEachIs
<1>3. tx \in Transaction /\ tx.id = i /\ IsInjective(tx.inputs)
      /\ \A o \in Ins(tx) : o \in Source /\ o[1] \in Nat /\ o[1] < i
  BY <1>2, ChainFacts DEF OnceEach
<1>4. /\ RecordsOK(rec) /\ IsFiniteSet(Live(rec))
      /\ \A w \in Owner, k \in TokenKey : Stored(rec, w, k) = Total(rec, LivePaid(rec, w, k))
      /\ \A k \in Outpoint :
           Capless(rec, k) /\ (k[1] \notin Upto(order, n - 1) => ~ Held(rec, Token(k)))
      /\ \A o \in Live(rec) :
           /\ o[1] \in Upto(order, n - 1)
           /\ o[2] \in TokenOutputs(chain[o[1]])
           /\ rec[Utxo(o)].tokenKey = KeyOf(DocAt(o), o)
  BY DEF Stage
<1> HIDE DEF rec, done, i, tx
<1>5. \A o \in Ins(tx) \cup Live(rec) : o[1] # tx.id
  <2>1. i \in Nat
    BY <1>2, ChainFacts
  <2>2. \A o \in Ins(tx) : o[1] # i
    BY <1>3, <2>1
  <2>3. QED
    BY <1>2, <1>3, <1>4, <2>2
<1>6. Applicable(rec, tx)
  BY <1>3, <1>4, <1>5 DEF Applicable
<1>7. /\ RecordsOK(done) /\ IsFiniteSet(Live(done))
      /\ \A w \in Owner, k \in TokenKey : Stored(done, w, k) = Total(done, LivePaid(done, w, k))
      /\ \A o \in Outpoint : o[1] # tx.id =>
           IF o \in Ins(tx) THEN ~ Held(done, Utxo(o)) ELSE done[Utxo(o)] = rec[Utxo(o)]
      /\ \A o \in Live(done) : o[1] = tx.id =>
           /\ o[2] \in TokenOutputs(tx)
           /\ done[Utxo(o)].tokenKey = KeyOf(tx.outputs[o[2]], o)
      /\ \A k \in Outpoint :
           /\ Capless(rec, k) => Capless(done, k)
           /\ k[1] # tx.id => (Held(done, Token(k)) <=> Held(rec, Token(k)))
  BY <1>1, <1>6, AppliedOnce
<1>8. \A k \in Outpoint :
        Capless(done, k) /\ (k[1] \notin Upto(order, n) => ~ Held(done, Token(k)))
  BY <1>2, <1>3, <1>4, <1>7
<1>9. ASSUME NEW o \in Live(done)
      PROVE  /\ o[1] \in Upto(order, n)
             /\ o[2] \in TokenOutputs(chain[o[1]])
             /\ done[Utxo(o)].tokenKey = KeyOf(DocAt(o), o)
  <2>1. CASE o[1] = tx.id
    <3>1. chain[o[1]] = tx /\ DocAt(o) = tx.outputs[o[2]]
      BY <1>3, <2>1 DEF tx, DocAt
    <3>2. QED
      BY <1>2, <1>3, <1>7, <2>1, <3>1
  <2>2. CASE o[1] # tx.id
    <3>1. o \in Outpoint /\ Held(done, Utxo(o))
      BY DEF Live
    <3>2. done[Utxo(o)] = rec[Utxo(o)]
      BY <1>7, <2>2, <3>1
    <3>3. o \in Live(rec)
      BY <3>1, <3>2 DEF Live, Held, Get
    <3>4. QED
      BY <1>2, <1>4, <3>2, <3>3
  <2>3. QED
    BY <2>1, <2>2
<1>10. Stage(order, run, n)
  BY <1>7, <1>8, <1>9 DEF Stage, done
<1>11. QED
  BY <1>6, <1>10 DEF Fits, rec, tx, i

\* All of them.
LEMMA RunIs ==
  ASSUME LedgerIInv, NEW order, OnceEach(order), NEW run, Ran(chain, order, run)
  PROVE  /\ \A n \in 0 .. Len(order) : Stage(order, run, n)
         /\ \A n \in 1 .. Len(order) : Fits(order, run, n)
<1> DEFINE P == {n \in 0 .. Len(order) : Stage(order, run, n)}
<1>1. Len(order) \in Nat
  BY OnceEachIs
<1>2. 0 \in P
  BY <1>1, NothingRan
<1>3. ASSUME NEW n \in 1 .. Len(order), n - 1 \in P
      PROVE  n \in P
  <2>1. n \in 0 .. Len(order)
    BY <1>1
  <2>2. QED
    BY <1>3, <2>1, OneMoreRan
<1>4. \A n \in 0 .. Len(order) : n \in P
  <2> HIDE DEF P
  <2>1. QED
    BY <1>1, <1>2, <1>3, StepByStep
<1>5. ASSUME NEW n \in 1 .. Len(order)
      PROVE  Fits(order, run, n)
  <2>1. n - 1 \in 0 .. Len(order)
    BY <1>1
  <2>2. QED
    BY <1>4, <2>1, OneMoreRan
<1>6. QED
  BY <1>4, <1>5

\* Nobody spends o among those between m and n.
Untouched(order, o, m, n) == \A j \in 1 .. n : m < j => o \notin Ins(chain[order[j]])

\* What is said of an output stays until it is spent, and a token stays deployed
\* or not after its own transaction.
LEMMA RunKeeps ==
  ASSUME LedgerIInv, NEW order, OnceEach(order), NEW run, Ran(chain, order, run),
         NEW m \in 1 .. Len(order)
  PROVE  \A n \in m .. Len(order) :
           /\ \A o \in Outpoint : o[1] = order[m] /\ Untouched(order, o, m, n) =>
                Reads(run[n], o) = Reads(run[m], o)
           /\ \A k \in Outpoint : k[1] = order[m] =>
                (Held(run[n], Token(k)) <=> Held(run[m], Token(k)))
<1> DEFINE N == Len(order)
           Fine(n) ==
             n >= m =>
               /\ \A o \in Outpoint : o[1] = order[m] /\ Untouched(order, o, m, n) =>
                    Reads(run[n], o) = Reads(run[m], o)
               /\ \A k \in Outpoint : k[1] = order[m] =>
                    (Held(run[n], Token(k)) <=> Held(run[m], Token(k)))
           P == {n \in 0 .. N : Fine(n)}
<1>1. N \in Nat /\ DOMAIN order = 1 .. N /\ IsInjective(order)
  BY OnceEachIs DEF OnceEach
<1>2. 0 \in P
  <2>1. ~ (0 >= m)
    BY <1>1
  <2>2. QED
    BY <1>1, <2>1
<1>3. ASSUME NEW n \in 1 .. N, n - 1 \in P
      PROVE  n \in P
  <2>1. n \in 0 .. N /\ n \in Nat /\ m \in Nat
    BY <1>1
  <2>2. CASE ~ (n >= m)
    BY <2>1, <2>2
  <2>3. CASE n = m
    BY <2>1, <2>3
  <2>4. CASE n > m
    <3> DEFINE tx == chain[order[n]]
    <3>1. n - 1 >= m /\ Fine(n - 1)
      BY <1>3, <2>1, <2>4
    <3>2. Applicable(run[n - 1], tx)
      BY RunIs DEF Fits
    <3>3. tx.id = order[n]
      BY OnceEachIs, ChainFacts
    <3>4. order[n] # order[m]
      BY <1>1, <2>4 DEF IsInjective
    <3>5. PICK height \in Nat, idx \in Nat :
            run[n] = Apply(run[n - 1], TransactionWrites(run[n - 1], tx, height, idx))
      <4>1. Follows(run[n - 1], tx, run[n])
        BY DEF Ran
      <4>2. QED
        BY <4>1 DEF Follows
    <3> HIDE DEF Fine
    <3>6. /\ \A o \in Outpoint : o[1] # tx.id =>
               IF o \in Ins(tx) THEN ~ Held(run[n], Utxo(o))
               ELSE run[n][Utxo(o)] = run[n - 1][Utxo(o)]
          /\ \A k \in Outpoint : k[1] # tx.id =>
               (Held(run[n], Token(k)) <=> Held(run[n - 1], Token(k)))
      <4> DEFINE rec == run[n - 1]
                 done == run[n]
      <4>1. Applicable(rec, tx) /\ done = Apply(rec, TransactionWrites(rec, tx, height, idx))
        BY <3>2, <3>5
      <4> HIDE DEF tx, rec, done
      <4>2. /\ \A o \in Outpoint : o[1] # tx.id =>
                 IF o \in Ins(tx) THEN ~ Held(done, Utxo(o)) ELSE done[Utxo(o)] = rec[Utxo(o)]
            /\ \A k \in Outpoint : k[1] # tx.id =>
                 (Held(done, Token(k)) <=> Held(rec, Token(k)))
        BY <4>1, AppliedOnce
      <4>3. QED
        BY <4>2 DEF rec, done
    <3>7. ASSUME NEW o \in Outpoint, o[1] = order[m], Untouched(order, o, m, n)
          PROVE  Reads(run[n], o) = Reads(run[m], o)
      <4>1. o \notin Ins(tx)
        BY <2>1, <2>4, <3>7 DEF Untouched
      <4>2. Untouched(order, o, m, n - 1)
        <5>1. \A j \in 1 .. n - 1 : j \in 1 .. n
          BY <2>1
        <5>2. QED
          BY <3>7, <5>1 DEF Untouched
      <4>3. Reads(run[n - 1], o) = Reads(run[m], o)
        BY <3>1, <3>7, <4>2 DEF Fine
      <4>4. run[n][Utxo(o)] = run[n - 1][Utxo(o)]
        BY <3>3, <3>4, <3>6, <3>7, <4>1
      <4>5. QED
        BY <4>3, <4>4 DEF Reads, Held, Get
    <3>8. ASSUME NEW k \in Outpoint, k[1] = order[m]
          PROVE  Held(run[n], Token(k)) <=> Held(run[m], Token(k))
      <4>1. Held(run[n - 1], Token(k)) <=> Held(run[m], Token(k))
        BY <3>1, <3>8 DEF Fine
      <4>2. Held(run[n], Token(k)) <=> Held(run[n - 1], Token(k))
        BY <3>3, <3>4, <3>6, <3>8
      <4>3. QED
        BY <4>1, <4>2
    <3>9. Fine(n)
      BY <3>7, <3>8 DEF Fine
    <3>10. QED
      BY <2>1, <3>9
  <2>5. QED
    BY <2>1, <2>2, <2>3, <2>4
<1> HIDE DEF P, Fine
<1>4. \A n \in 0 .. N : n \in P
  BY <1>1, <1>2, <1>3, StepByStep
<1>5. ASSUME NEW n \in m .. N
      PROVE  Fine(n) /\ n >= m
  <2>1. n \in 0 .. N /\ n >= m
    BY <1>1
  <2>2. QED
    BY <1>4, <2>1 DEF P
<1>6. QED
  BY <1>5 DEF Fine

-----------------------------------------------------------------------------
(* The runs there are: a replay, and the history of the index.                *)

\* A replay applies its transactions one by one: its definition has a solution.
LEMMA ReplayRan ==
  ASSUME NEW txs, Len(txs) \in Nat
  PROVE  Ran(chain, txs, Replayed(txs))
<1> DEFINE N == Len(txs)
           base == [k \in Key |-> Absent]
           After(rec, i) == Apply(rec, TransactionWrites(rec, chain[txs[i]], i - 1, i - 1))
           Solves(g, m) == g = [i \in 0 .. m |-> IF i = 0 THEN base ELSE After(g[i - 1], i)]
           Bad == {m \in Nat : ~ \E g : Solves(g, m)}
<1>1. ASSUME Bad # {}
      PROVE  FALSE
  <2> DEFINE m == Min(Bad)
  <2>1. m \in Nat /\ m \in Bad /\ \A k \in Bad : m <= k
    BY <1>1, MinIsLeast
  <2> HIDE DEF m
  <2> HIDE DEF After, base
  <2>2. CASE m = 0
    <3> DEFINE g == [i \in 0 .. 0 |-> base]
    <3>1. Solves(g, 0)
      OBVIOUS
    <3>2. QED
      BY <2>1, <2>2, <3>1
  <2>3. CASE m # 0
    <3>1. m - 1 \in Nat /\ m - 1 \notin Bad
      <4> HIDE DEF Bad
      <4>1. QED
        BY <2>1, <2>3
    <3>2. PICK g : Solves(g, m - 1)
      BY <3>1
    <3> DEFINE h == [i \in 0 .. m |-> IF i = 0 THEN base ELSE After(g[i - 1], i)]
    <3>3. ASSUME NEW n \in 0 .. m - 1
          PROVE  h[n] = g[n]
      <4>1. n \in 0 .. m
        BY <2>1
      <4>2. g[n] = IF n = 0 THEN base ELSE After(g[n - 1], n)
        BY <3>2
      <4>3. QED
        BY <4>1, <4>2
    <3>4. ASSUME NEW n \in 0 .. m, n # 0
          PROVE  h[n - 1] = g[n - 1]
      <4>1. n - 1 \in 0 .. m - 1
        BY <2>1, <3>4
      <4>2. QED
        BY <3>3, <4>1
    <3>5. Solves(h, m)
      BY <3>4
    <3>6. QED
      BY <2>1, <3>5
  <2>4. QED
    BY <2>2, <2>3
<1>2. \E g : Solves(g, N)
  BY <1>1
<1>3. Replayed(txs) = CHOOSE g : Solves(g, N)
  BY DEF Replayed
<1>4. Solves(Replayed(txs), N)
  BY <1>2, <1>3
<1> DEFINE run == Replayed(txs)
<1> HIDE DEF run
<1>5. run = [i \in 0 .. N |-> IF i = 0 THEN base ELSE After(run[i - 1], i)]
  BY <1>4 DEF run
<1>6. run[0] = base /\ \A n \in 1 .. N : run[n] = After(run[n - 1], n) /\ n - 1 \in Nat
  <2> HIDE DEF base, After
  <2>1. 0 \in 0 .. N /\ \A n \in 1 .. N : n \in 0 .. N /\ n # 0 /\ n - 1 \in Nat
    OBVIOUS
  <2>2. QED
    BY <1>5, <2>1
<1>7. ASSUME NEW n \in 1 .. N
      PROVE  Follows(run[n - 1], chain[txs[n]], run[n])
  BY <1>6 DEF Follows
<1>8. QED
  BY <1>6, <1>7 DEF Ran, run

\* The index is a run over the whole chain, in the order of the chain.
InChainOrder(c) == [i \in 1 .. Len(c) |-> i]
Remembered == \E past : Ran(chain, InChainOrder(chain), past) /\ records = past[Len(chain)]

\* No output is spent twice, and every output spent exists.
ChainSound ==
  /\ \A i \in DOMAIN chain : /\ IsInjective(chain[i].inputs)
                             /\ \A o \in Ins(chain[i]) : o[2] \in DOMAIN chain[o[1]].outputs
  /\ \A i, j \in DOMAIN chain : \A o \in Ins(chain[i]) : o \in Ins(chain[j]) => i = j

HistoryIInv == LedgerIInv /\ ChainSound /\ Remembered

LEMMA InitHistory == Init => HistoryIInv
<1> SUFFICES ASSUME Init PROVE HistoryIInv
  OBVIOUS
<1>1. /\ records = [k \in Key |-> Absent] /\ chain = << >>
      /\ DOMAIN chain = {} /\ Len(chain) = 0
  BY DEF Init
<1>2. LedgerIInv
  BY InitLedger
<1>3. ChainSound
  BY <1>1 DEF ChainSound
<1>4. Remembered
  <2> DEFINE past == [n \in {0} |-> records]
  <2>1. past[0] = records
    OBVIOUS
  <2> HIDE DEF past
  <2>2. Len(InChainOrder(chain)) = 0
    BY <1>1 DEF InChainOrder
  <2>3. Ran(chain, InChainOrder(chain), past)
    BY <1>1, <2>1, <2>2 DEF Ran
  <2>4. QED
    BY <1>1, <2>1, <2>3 DEF Remembered
<1>5. QED
  BY <1>2, <1>3, <1>4 DEF HistoryIInv

\* One transaction more: it spends what exists and nobody spent, and the index
\* remembers one run longer.
LEMMA ApplyKeepsHistory ==
  ASSUME HistoryIInv,
         NEW inputs \in SUBSET Unspent, NEW outputs \in Outputs, ApplyNext(inputs, outputs)
  PROVE  HistoryIInv'
<1> DEFINE tx == [id |-> Len(chain) + 1, inputs |-> SetToSeq(inputs), outputs |-> outputs]
           L == Len(chain)
<1>1. /\ L < MaxTxs
      /\ records' = Apply(records, TransactionWrites(records, tx, tx.id, 0))
      /\ chain' = Append(chain, tx)
  BY DEF ApplyNext
<1>2. LedgerIInv /\ ChainSound /\ Remembered
  BY DEF HistoryIInv
<1>3. L \in Nat /\ Ids = 1 .. L /\ chain \in Seq(Transaction)
  BY <1>2, ChainFacts, ChainIs
<1>4. Applicable(records, tx) /\ Ins(tx) \in SUBSET inputs /\ tx.id = L + 1
  BY <1>1, <1>2, NextApplicable
<1>5. LedgerIInv'
  BY <1>2, ApplyKeeps
<1> HIDE DEF tx
<1>6. /\ Len(chain') = L + 1 /\ DOMAIN chain' = 1 .. L + 1 /\ chain'[L + 1] = tx
      /\ \A i \in 1 .. L : chain'[i] = chain[i]
  BY <1>1, <1>3
<1> HIDE DEF L
<1>7. \A i \in 1 .. L + 1 : i \in 1 .. L \/ i = L + 1
  BY <1>3
<1>8. IsInjective(tx.inputs)
  BY <1>4 DEF Applicable
<1>9. ASSUME NEW o \in Ins(tx)
      PROVE  /\ o[1] \in 1 .. L /\ o[2] \in DOMAIN chain[o[1]].outputs
             /\ \A i \in 1 .. L : o \notin Ins(chain[i])
  <2>1. o \in Unspent
    BY <1>4, <1>9
  <2>2. PICK i \in 1 .. L : o \in Outs(chain[i])
    BY <1>3, <2>1 DEF Unspent, ToSet, Ids
  <2>3. chain[i].id = i
    BY <1>2, <1>3, ChainFacts
  <2>4. o[1] = i /\ o[2] \in DOMAIN chain[i].outputs
    BY <2>2, <2>3 DEF Outs
  <2>5. \A j \in 1 .. L : chain[j] \in ToSet(chain)
    BY <1>3 DEF ToSet, Ids
  <2>6. \A j \in 1 .. L : o \notin Ins(chain[j])
    BY <2>1, <2>5 DEF Unspent, SpentBy
  <2>7. QED
    BY <2>2, <2>4, <2>6
<1>10. ASSUME NEW i \in 1 .. L
       PROVE  /\ IsInjective(chain[i].inputs)
              /\ \A o \in Ins(chain[i]) : o[1] \in 1 .. L /\ o[2] \in DOMAIN chain[o[1]].outputs
              /\ \A j \in 1 .. L : \A o \in Ins(chain[i]) : o \in Ins(chain[j]) => i = j
  <2>1. \A o \in Ins(chain[i]) : o[1] \in 1 .. L
    BY <1>2, <1>3, ChainFacts
  <2>2. QED
    BY <1>2, <1>3, <2>1 DEF ChainSound, Ids
<1>11. ChainSound'
  <2>1. ASSUME NEW i \in 1 .. L + 1
        PROVE  /\ IsInjective(chain'[i].inputs)
               /\ \A o \in Ins(chain'[i]) : o[2] \in DOMAIN chain'[o[1]].outputs
    BY <1>6, <1>7, <1>8, <1>9, <1>10
  <2>2. ASSUME NEW i \in 1 .. L + 1, NEW j \in 1 .. L + 1,
               NEW o \in Ins(chain'[i]), o \in Ins(chain'[j])
        PROVE  i = j
    BY <1>6, <1>7, <1>9, <1>10, <2>2
  <2>3. QED
    BY <1>6, <2>1, <2>2 DEF ChainSound
<1>12. Remembered'
  <2>1. PICK past : Ran(chain, InChainOrder(chain), past) /\ records = past[L]
    BY <1>2 DEF Remembered, L
  <2> DEFINE order == InChainOrder(chain)
             more == InChainOrder(chain')
             longer == [n \in 0 .. L + 1 |-> IF n = L + 1 THEN records' ELSE past[n]]
  <2>2. Len(order) = L /\ \A n \in 1 .. L : order[n] = n
    BY <1>3 DEF InChainOrder, L
  <2>3. Len(more) = L + 1 /\ \A n \in 1 .. L + 1 : more[n] = n
    BY <1>3, <1>6 DEF InChainOrder
  <2>4. /\ 0 \in 0 .. L + 1 /\ L + 1 \in 0 .. L + 1 /\ L \in 0 .. L + 1 /\ L # L + 1 /\ 0 # L + 1
        /\ (L + 1) - 1 = L
        /\ \A n \in 1 .. L : n \in 0 .. L + 1 /\ n - 1 \in 0 .. L + 1 /\ n # L + 1 /\ n - 1 # L + 1
    BY <1>3
  <2>5. /\ longer[0] = past[0] /\ longer[L + 1] = records' /\ longer[L] = records
        /\ \A n \in 1 .. L : longer[n] = past[n] /\ longer[n - 1] = past[n - 1]
    BY <2>1, <2>4
  <2> HIDE DEF longer, order, more
  <2>6. past[0] = [key \in Key |-> Absent]
    BY <2>1 DEF Ran
  <2>7. ASSUME NEW n \in 1 .. L
        PROVE  Follows(longer[n - 1], chain'[more[n]], longer[n])
    <3>1. Follows(past[n - 1], chain[order[n]], past[n])
      BY <2>1, <2>2 DEF Ran, order
    <3>2. n \in 1 .. L + 1
      BY <1>3
    <3>3. chain'[more[n]] = chain[order[n]]
      BY <1>6, <2>2, <2>3, <3>2
    <3>4. QED
      BY <2>5, <3>1, <3>3
  <2>8. Follows(longer[(L + 1) - 1], chain'[more[L + 1]], longer[L + 1])
    <3>1. L + 1 \in 1 .. L + 1 /\ (L + 1) - 1 = L /\ L + 1 \in Nat /\ 0 \in Nat
      BY <1>3
    <3>2. more[L + 1] = L + 1 /\ chain'[more[L + 1]] = tx
      BY <1>6, <2>3, <3>1
    <3>3. Follows(records, tx, records')
      BY <1>1, <1>4, <3>1 DEF Follows
    <3>4. QED
      BY <2>5, <3>1, <3>2, <3>3
  <2>9. Ran(chain', more, longer)
    <3>1. ASSUME NEW n \in 1 .. Len(more)
          PROVE  Follows(longer[n - 1], chain'[more[n]], longer[n])
      BY <1>7, <2>3, <2>7, <2>8
    <3>2. longer[0] = [key \in Key |-> Absent]
      BY <2>5, <2>6
    <3>3. QED
      BY <3>1, <3>2 DEF Ran
  <2>10. records' = longer[Len(chain')]
    BY <1>6, <2>5
  <2>11. QED
    BY <2>9, <2>10 DEF Remembered, more
<1>13. QED
  BY <1>5, <1>11, <1>12 DEF HistoryIInv

LEMMA HistoryInductive == Spec => []HistoryIInv
<1>1. Init => HistoryIInv
  BY InitHistory
<1>2. HistoryIInv /\ [Next]_vars => HistoryIInv'
  <2>1. ASSUME HistoryIInv, Next
        PROVE  HistoryIInv'
    BY <2>1, ApplyKeepsHistory DEF Next
  <2>2. ASSUME HistoryIInv, UNCHANGED vars
        PROVE  HistoryIInv'
    <3>1. UNCHANGED <<records, chain>>
      BY <2>2 DEF vars
    <3>2. LedgerIInv /\ ChainSound /\ Remembered
      BY <2>2 DEF HistoryIInv
    <3>3. LedgerIInv'
      BY <3>2, <2>2, NextLedger
    <3>4. ChainSound'
      BY <3>1, <3>2 DEF ChainSound
    <3>5. Remembered'
      BY <3>1, <3>2 DEF Remembered, InChainOrder, Ran
    <3>6. QED
      BY <3>3, <3>4, <3>5 DEF HistoryIInv
  <2>3. QED
    BY <2>1, <2>2
<1>3. QED
  BY <1>1, <1>2, PTL DEF Spec

-----------------------------------------------------------------------------
(* Two runs over what a transaction descends from, side by side.              *)

\* Each transaction after those it descends from.
Sorted(order) ==
  /\ OnceEach(order)
  /\ \A n \in 1 .. Len(order) : Parents(order[n]) \subseteq Upto(order, n - 1)

\* The runs m of one order and n of another are at the transaction i.
Same(k, i, one, first, two, second) ==
  \A m \in 1 .. Len(one), n \in 1 .. Len(two) : one[m] = i /\ two[n] = i =>
    /\ \A v \in DOMAIN chain[i].outputs :
         ReadsOf(first[m], <<i, v>>, k) = ReadsOf(second[n], <<i, v>>, k)
    /\ i = k[1] => (Held(first[m], Token(k)) <=> Held(second[n], Token(k)))

\* An input reads at its transaction as it did when it was made.
LEMMA InputReads ==
  ASSUME LedgerIInv, ChainSound, NEW order, Sorted(order), NEW run, Ran(chain, order, run),
         NEW m \in 1 .. Len(order), NEW o \in Ins(chain[order[m]])
  PROVE  IF DocAt(o) = NoToken THEN Reads(run[m - 1], o) = << >>
         ELSE \E l \in 1 .. m - 1 : /\ l \in 1 .. Len(order) /\ order[l] = o[1]
                                    /\ Reads(run[m - 1], o) = Reads(run[l], o)
<1>1. OnceEach(order) /\ Parents(order[m]) \subseteq Upto(order, m - 1)
  BY DEF Sorted
<1>2. /\ Len(order) \in Nat /\ IsInjective(order) /\ DOMAIN order = 1 .. Len(order)
      /\ order[m] \in Ids
  BY <1>1, OnceEachIs DEF OnceEach
<1>3. o \in Outpoint /\ o[1] \in Ids
  BY <1>2, ChainFacts DEF Source
<1>4. /\ m - 1 \in 0 .. Len(order)
      /\ \A l \in 1 .. m - 1 : l \in 1 .. Len(order) /\ l # m /\ m - 1 \in l .. Len(order)
  BY <1>2
<1>5. CASE DocAt(o) = NoToken
  <2>1. Stage(order, run, m - 1)
    BY <1>1, <1>4, RunIs
  <2>2. o \notin Live(run[m - 1])
    <3>1. o \in Live(run[m - 1]) => o[2] \in TokenOutputs(chain[o[1]])
      BY <2>1 DEF Stage
    <3>2. QED
      BY <1>5, <3>1 DEF TokenOutputs, DocAt
  <2>3. ~ Held(run[m - 1], Utxo(o))
    BY <1>3, <2>2 DEF Live
  <2>4. QED
    BY <1>5, <2>3, ReadsAre
<1>6. CASE DocAt(o) # NoToken
  <2>1. o[1] \in Upto(order, m - 1)
    BY <1>1, <1>6 DEF Parents
  <2>2. PICK l \in 1 .. m - 1 : order[l] = o[1]
    BY <2>1 DEF Upto
  <2>3. Untouched(order, o, l, m - 1)
    <3>1. ASSUME NEW j \in 1 .. m - 1, o \in Ins(chain[order[j]])
          PROVE  FALSE
      <4>1. j \in 1 .. Len(order) /\ j # m
        BY <1>4
      <4>2. order[j] \in Ids
        BY <1>1, <4>1, OnceEachIs
      <4>3. order[j] = order[m]
        BY <1>2, <3>1, <4>2 DEF ChainSound, Ids
      <4>4. QED
        BY <1>2, <4>1, <4>3 DEF IsInjective
    <3>2. QED
      BY <3>1 DEF Untouched
  <2>4. l \in 1 .. Len(order) /\ m - 1 \in l .. Len(order)
    BY <1>4
  <2>5. Reads(run[m - 1], o) = Reads(run[l], o)
    BY <1>1, <1>3, <2>2, <2>3, <2>4, RunKeeps
  <2>6. QED
    BY <1>6, <2>2, <2>4, <2>5
<1>7. QED
  BY <1>5, <1>6

\* What a transaction descends from: itself, what came before it, and in any
\* sorted order what was taken up to it.
LEMMA LineageIs ==
  ASSUME LedgerIInv, NEW i \in Ids
  PROVE  /\ i \in Lineage(i) /\ Closed(Lineage(i)) /\ Lineage(i) \in SUBSET Ids
         /\ \A S \in SUBSET Ids : i \in S /\ Closed(S) => Lineage(i) \subseteq S
         /\ \A j \in Lineage(i) : j <= i
<1>1. /\ i \in Lineage(i) /\ Lineage(i) \in SUBSET Ids
      /\ \A S \in SUBSET Ids : i \in S /\ Closed(S) => Lineage(i) \subseteq S
  BY DEF Lineage, Ids
<1>2. Closed(Lineage(i))
  <2>1. ASSUME NEW j \in Lineage(i), NEW o \in Ins(chain[j]), DocAt(o) # NoToken
        PROVE  o[1] \in Lineage(i)
    <3>1. \A S \in SUBSET Ids : i \in S /\ Closed(S) => j \in S
      BY <1>1
    <3>2. \A S \in SUBSET Ids : i \in S /\ Closed(S) => o[1] \in S
      BY <2>1, <3>1 DEF Closed
    <3>3. o[1] \in Ids
      BY <1>1, ChainFacts
    <3>4. QED
      BY <3>2, <3>3 DEF Lineage, Ids
  <2>2. QED
    BY <2>1 DEF Closed
<1>3. \A j \in Lineage(i) : j <= i
  <2> DEFINE S == {j \in Ids : j <= i}
  <2>1. i \in S /\ S \in SUBSET Ids
    BY ChainFacts
  <2>2. Closed(S)
    <3>1. ASSUME NEW j \in S, NEW o \in Ins(chain[j])
          PROVE  o[1] \in S
      <4>1. j \in Nat /\ i \in Nat /\ j \in Ids /\ j <= i
        BY ChainFacts
      <4>2. o[1] \in Ids /\ o[1] \in Nat /\ o[1] < j
        BY <4>1, ChainFacts
      <4>3. QED
        BY <4>1, <4>2
    <3>2. QED
      BY <3>1 DEF Closed
  <2>3. Lineage(i) \subseteq S
    BY <1>1, <2>1, <2>2
  <2>4. QED
    BY <2>3
<1>4. QED
  BY <1>1, <1>2, <1>3

LEMMA UptoClosed ==
  ASSUME LedgerIInv, NEW order, Sorted(order), NEW n \in 0 .. Len(order)
  PROVE  Upto(order, n) \in SUBSET Ids /\ Closed(Upto(order, n))
<1>1. /\ Len(order) \in Nat
      /\ \A m \in 1 .. Len(order) : order[m] \in Ids /\ Parents(order[m]) \subseteq Upto(order, m - 1)
  BY OnceEachIs DEF Sorted
<1>2. \A m \in 1 .. n : m \in 1 .. Len(order) /\ \A l \in 1 .. m - 1 : l \in 1 .. n
  BY <1>1
<1>3. \A m \in 1 .. n : order[m] \in Ids /\ Parents(order[m]) \subseteq Upto(order, n)
  BY <1>1, <1>2 DEF Upto
<1>4. ASSUME NEW i \in Upto(order, n), NEW o \in Ins(chain[i]), DocAt(o) # NoToken
      PROVE  o[1] \in Upto(order, n)
  <2>1. PICK m \in 1 .. n : order[m] = i
    BY DEF Upto
  <2>2. o[1] \in Parents(order[m])
    BY <1>4, <2>1 DEF Parents
  <2>3. QED
    BY <1>3, <2>2
<1>5. QED
  BY <1>3, <1>4 DEF Upto, Closed

\* What a mint needs of the token's record is the same at both.
LEMMA SameDeployed ==
  ASSUME LedgerIInv, NEW k \in Outpoint,
         NEW one, Sorted(one), NEW first, Ran(chain, one, first),
         NEW two, Sorted(two), NEW second, Ran(chain, two, second),
         NEW m \in 1 .. Len(one), NEW n \in 1 .. Len(two), NEW i \in Ids, one[m] = i, two[n] = i,
         k[1] \in Lineage(i), k[1] < i => Same(k, k[1], one, first, two, second)
  PROVE  Held(first[m - 1], Token(k)) <=> Held(second[n - 1], Token(k))
<1>1. OnceEach(one) /\ OnceEach(two)
  BY DEF Sorted
<1>2. /\ Len(one) \in Nat /\ Len(two) \in Nat
      /\ m \in 0 .. Len(one) /\ n \in 0 .. Len(two)
      /\ m - 1 \in 0 .. Len(one) /\ n - 1 \in 0 .. Len(two)
      /\ i \notin Upto(one, m - 1) /\ Upto(one, m) = Upto(one, m - 1) \cup {i}
      /\ i \notin Upto(two, n - 1) /\ Upto(two, n) = Upto(two, n - 1) \cup {i}
  <2>1. Len(one) \in Nat /\ Len(two) \in Nat
    BY <1>1, OnceEachIs
  <2>2. /\ i \notin Upto(one, m - 1) /\ Upto(one, m) = Upto(one, m - 1) \cup {i}
        /\ i \notin Upto(two, n - 1) /\ Upto(two, n) = Upto(two, n - 1) \cup {i}
    BY <1>1, OnceEachIs
  <2>3. QED
    BY <2>1, <2>2
<1>3. CASE k[1] = i
  <2>1. Stage(one, first, m - 1) /\ Stage(two, second, n - 1)
    BY <1>1, <1>2, RunIs
  <2>2. ~ Held(first[m - 1], Token(k)) /\ ~ Held(second[n - 1], Token(k))
    BY <1>2, <1>3, <2>1 DEF Stage
  <2>3. QED
    BY <2>2
<1>4. CASE k[1] # i
  <2>1. k[1] \in Upto(one, m - 1) /\ k[1] \in Upto(two, n - 1)
    <3>1. /\ Upto(one, m) \in SUBSET Ids /\ Closed(Upto(one, m))
          /\ Upto(two, n) \in SUBSET Ids /\ Closed(Upto(two, n))
      BY <1>2, UptoClosed
    <3>2. Lineage(i) \subseteq Upto(one, m) /\ Lineage(i) \subseteq Upto(two, n)
      BY <1>2, <3>1, LineageIs
    <3>3. QED
      BY <1>2, <1>4, <3>2
  <2>2. PICK a \in 1 .. m - 1 : one[a] = k[1]
    BY <2>1 DEF Upto
  <2>3. PICK b \in 1 .. n - 1 : two[b] = k[1]
    BY <2>1 DEF Upto
  <2>4. /\ a \in 1 .. Len(one) /\ m - 1 \in a .. Len(one)
        /\ b \in 1 .. Len(two) /\ n - 1 \in b .. Len(two)
    BY <1>2
  <2>5. Same(k, k[1], one, first, two, second)
    <3>1. k[1] \in Ids /\ k[1] <= i /\ i \in Nat /\ k[1] \in Nat
      BY ChainFacts, LineageIs
    <3>2. QED
      BY <1>4, <3>1
  <2>6. Held(first[a], Token(k)) <=> Held(second[b], Token(k))
    BY <2>2, <2>3, <2>4, <2>5 DEF Same
  <2>7. Held(first[m - 1], Token(k)) <=> Held(first[a], Token(k))
    BY <1>1, <2>2, <2>4, RunKeeps
  <2>8. Held(second[n - 1], Token(k)) <=> Held(second[b], Token(k))
    BY <1>1, <2>3, <2>4, RunKeeps
  <2>9. QED
    BY <2>6, <2>7, <2>8
<1>5. QED
  BY <1>3, <1>4

\* Where all that a transaction descends from agrees, so does what it makes.
LEMMA SameStep ==
  ASSUME LedgerIInv, ChainSound, NEW k \in Outpoint,
         NEW one, Sorted(one), NEW first, Ran(chain, one, first),
         NEW two, Sorted(two), NEW second, Ran(chain, two, second),
         NEW i \in Ids, Mints(i, k) => k[1] \in Lineage(i),
         \A j \in Lineage(i) : j < i => Same(k, j, one, first, two, second)
  PROVE  Same(k, i, one, first, two, second)
<1> SUFFICES ASSUME NEW m \in 1 .. Len(one), NEW n \in 1 .. Len(two), one[m] = i, two[n] = i
             PROVE  /\ \A v \in DOMAIN chain[i].outputs :
                         ReadsOf(first[m], <<i, v>>, k) = ReadsOf(second[n], <<i, v>>, k)
                    /\ i = k[1] => (Held(first[m], Token(k)) <=> Held(second[n], Token(k)))
  BY DEF Same
<1> DEFINE tx == chain[i]
           left == first[m - 1]
           right == second[n - 1]
<1>1. OnceEach(one) /\ OnceEach(two)
  BY DEF Sorted
<1>2. tx.id = i /\ \A o \in Ins(tx) : o \in Outpoint /\ o[1] \in Ids /\ o[1] < i
  BY ChainFacts DEF Source
<1>3. /\ m - 1 \in 0 .. Len(one) /\ n - 1 \in 0 .. Len(two)
      /\ i \notin Upto(one, m - 1) /\ i \notin Upto(two, n - 1)
  <2>1. Len(one) \in Nat /\ Len(two) \in Nat
    BY <1>1, OnceEachIs
  <2>2. i \notin Upto(one, m - 1) /\ i \notin Upto(two, n - 1)
    BY <1>1, OnceEachIs
  <2>3. QED
    BY <2>1, <2>2
<1>4. Stage(one, first, m - 1) /\ Stage(two, second, n - 1)
  BY <1>1, <1>3, RunIs
<1>5. Applicable(left, tx) /\ Applicable(right, tx)
  <2>1. Fits(one, first, m) /\ Fits(two, second, n)
    BY <1>1, RunIs
  <2>2. QED
    BY <2>1 DEF Fits
<1>6. /\ Capless(left, k) /\ Capless(right, k)
      /\ k[1] = i => ~ Held(left, Token(k)) /\ ~ Held(right, Token(k))
  BY <1>3, <1>4 DEF Stage
<1>7. ASSUME NEW o \in Ins(tx)
      PROVE  ReadsOf(left, o, k) = ReadsOf(right, o, k)
  <2>1. /\ IF DocAt(o) = NoToken THEN Reads(left, o) = << >>
           ELSE \E l \in 1 .. m - 1 : /\ l \in 1 .. Len(one) /\ one[l] = o[1]
                                      /\ Reads(left, o) = Reads(first[l], o)
        /\ IF DocAt(o) = NoToken THEN Reads(right, o) = << >>
           ELSE \E l \in 1 .. n - 1 : /\ l \in 1 .. Len(two) /\ two[l] = o[1]
                                      /\ Reads(right, o) = Reads(second[l], o)
    BY InputReads
  <2>2. CASE DocAt(o) = NoToken
    BY <2>1, <2>2, ReadsAre
  <2>3. CASE DocAt(o) # NoToken
    <3>1. PICK a \in 1 .. Len(one) : one[a] = o[1] /\ Reads(left, o) = Reads(first[a], o)
      BY <2>1, <2>3
    <3>2. PICK b \in 1 .. Len(two) : two[b] = o[1] /\ Reads(right, o) = Reads(second[b], o)
      BY <2>1, <2>3
    <3>3. o[1] \in Lineage(i)
      BY <2>3, LineageIs DEF Closed
    <3>4. Same(k, o[1], one, first, two, second)
      BY <1>2, <3>3
    <3>5. o[2] \in DOMAIN chain[o[1]].outputs
      BY DEF ChainSound, Ids
    <3>6. o = <<o[1], o[2]>>
      BY <1>2 DEF Outpoint
    <3>7. ReadsOf(first[a], o, k) = ReadsOf(second[b], o, k)
      BY <3>1, <3>2, <3>4, <3>5, <3>6 DEF Same
    <3>8. ReadsOf(left, o, k) = ReadsOf(first[a], o, k)
      BY <3>1, ReadsAre
    <3>9. ReadsOf(right, o, k) = ReadsOf(second[b], o, k)
      BY <3>2, ReadsAre
    <3>10. QED
      BY <3>7, <3>8, <3>9
  <2>4. QED
    BY <2>2, <2>3
<1>8. ASSUME NEW v \in TokenOutputs(tx), tx.outputs[v].op = "mint",
             KeyOf(tx.outputs[v], <<tx.id, v>>) = k
      PROVE  Held(left, Token(k)) <=> Held(right, Token(k))
  <2>1. Mints(i, k)
    BY <1>2, <1>8 DEF Mints
  <2>2. k[1] \in Lineage(i)
    BY <2>1
  <2> HIDE DEF Mints
  <2>3. k[1] < i => Same(k, k[1], one, first, two, second)
    BY <2>2
  <2>4. QED
    BY <2>2, <2>3, SameDeployed
<1>9. Alike(left, right, tx, k)
  BY <1>2, <1>6, <1>7, <1>8 DEF Alike
<1>10. PICK h1 \in Nat, x1 \in Nat :
         first[m] = Apply(left, TransactionWrites(left, tx, h1, x1))
  <2>1. Follows(left, tx, first[m])
    BY DEF Ran
  <2>2. QED
    BY <2>1 DEF Follows
<1>11. PICK h2 \in Nat, x2 \in Nat :
         second[n] = Apply(right, TransactionWrites(right, tx, h2, x2))
  <2>1. Follows(right, tx, second[n])
    BY DEF Ran
  <2>2. QED
    BY <2>1 DEF Follows
<1> HIDE DEF tx, left, right
<1>12. /\ \A v \in DOMAIN tx.outputs :
            ReadsOf(first[m], <<tx.id, v>>, k) = ReadsOf(second[n], <<tx.id, v>>, k)
       /\ k[1] = tx.id => (Held(first[m], Token(k)) <=> Held(second[n], Token(k)))
  BY <1>5, <1>9, <1>10, <1>11, Twins
<1>13. QED
  BY <1>2, <1>12 DEF tx

\* So does what every transaction of a lineage makes, if the mints in it are rooted.
LEMMA Lockstep ==
  ASSUME LedgerIInv, ChainSound, NEW k \in Outpoint,
         NEW one, Sorted(one), NEW first, Ran(chain, one, first),
         NEW two, Sorted(two), NEW second, Ran(chain, two, second),
         NEW i \in Ids, Rooted(i, k)
  PROVE  Same(k, i, one, first, two, second)
<1> DEFINE S == Lineage(i)
           P == {j \in S : Same(k, j, one, first, two, second)}
<1>1. S \in SUBSET Ids /\ Ids \in SUBSET Nat /\ Closed(S) /\ i \in S
  BY LineageIs, ChainFacts
<1>2. ASSUME NEW n \in S, \A j \in S : j < n => j \in P
      PROVE  n \in P
  <2>1. Lineage(n) \subseteq S /\ n \in Ids
    BY <1>1, LineageIs
  <2>2. \A j \in Lineage(n) : j < n => Same(k, j, one, first, two, second)
    BY <1>2, <2>1
  <2>3. Mints(n, k) => k[1] \in Lineage(n)
    BY DEF Rooted
  <2>4. Same(k, n, one, first, two, second)
    BY <2>1, <2>2, <2>3, SameStep
  <2>5. QED
    BY <2>4
<1>3. \A n \in S : n \in P
  <2> HIDE DEF S, P
  <2>1. S \in SUBSET Nat
    BY <1>1
  <2>2. QED
    BY <1>2, <2>1, FromBelow
<1>4. QED
  BY <1>1, <1>3

-----------------------------------------------------------------------------
(* A run that never comes to the deploy: no amount is ever moved.             *)

Moveless(rec, k) == \A o \in Live(rec) : rec[Utxo(o)].tokenKey = k => rec[Utxo(o)].amount = 0

\* Any output of the token k that transaction n makes moves nothing.
OnlyNothing(order, run, k, n) ==
  \A o \in Outpoint : o[1] = order[n] /\ KeyOf(DocAt(o), o) = k /\ Reads(run[n], o) # << >> =>
    /\ o[2] \in TokenOutputs(chain[o[1]])
    /\ MovesNothing(DocAt(o))
    /\ Reads(run[n], o) = Nothing(DocAt(o), k)

LEMMA MovelessStep ==
  ASSUME LedgerIInv, NEW order, OnceEach(order), NEW run, Ran(chain, order, run),
         NEW k \in Outpoint, k[1] \notin Upto(order, Len(order)),
         NEW n \in 1 .. Len(order), Moveless(run[n - 1], k)
  PROVE  OnlyNothing(order, run, k, n) /\ Moveless(run[n], k)
<1> DEFINE rec == run[n - 1]
           done == run[n]
           tx == chain[order[n]]
<1>1. /\ Len(order) \in Nat /\ order[n] \in Ids
      /\ n - 1 \in 0 .. Len(order) /\ n \in 0 .. Len(order)
      /\ \A m \in 1 .. n - 1 : m \in 1 .. Len(order)
  <2>1. Len(order) \in Nat /\ order[n] \in Ids
    BY OnceEachIs
  <2>2. QED
    BY <2>1
<1>2. tx.id = order[n]
  BY <1>1, ChainFacts
<1>3. k[1] # tx.id /\ k[1] \notin Upto(order, n - 1)
  BY <1>1, <1>2 DEF Upto
<1>4. ~ Held(rec, Token(k))
  <2>1. Stage(order, run, n - 1)
    BY <1>1, RunIs
  <2>2. QED
    BY <1>3, <2>1 DEF Stage
<1>5. Applicable(rec, tx)
  BY RunIs DEF Fits
<1>6. PICK height \in Nat, idx \in Nat : done = Apply(rec, TransactionWrites(rec, tx, height, idx))
  <2>1. Follows(rec, tx, done)
    BY DEF Ran
  <2> HIDE DEF rec, tx, done
  <2>2. QED
    BY <2>1 DEF Follows
<1>7. \A o \in Live(rec) : rec[Utxo(o)].tokenKey = k => rec[Utxo(o)].amount = 0
  BY DEF Moveless
<1>8. Stage(order, run, n)
  BY <1>1, RunIs
<1> HIDE DEF rec, done, tx
<1>9. \A o \in Outpoint : o[1] # tx.id =>
        IF o \in Ins(tx) THEN ~ Held(done, Utxo(o)) ELSE done[Utxo(o)] = rec[Utxo(o)]
  BY <1>5, <1>6, AppliedOnce
<1>10. \A o \in Live(done) : o[2] \in TokenOutputs(chain[o[1]])
                             /\ done[Utxo(o)].tokenKey = KeyOf(DocAt(o), o)
  BY <1>8 DEF Stage, done
<1>11. ASSUME NEW o \in Outpoint, o[1] = order[n], KeyOf(DocAt(o), o) = k, Reads(done, o) # << >>
       PROVE  /\ o[2] \in TokenOutputs(chain[o[1]])
              /\ MovesNothing(DocAt(o))
              /\ Reads(done, o) = Nothing(DocAt(o), k)
  <2>1. o \in Live(done)
    BY <1>11, ReadsAre DEF Live
  <2>2. o[2] \in TokenOutputs(tx) /\ DocAt(o) = tx.outputs[o[2]] /\ chain[o[1]] = tx
    BY <1>10, <1>11, <2>1 DEF DocAt, tx
  <2>3. o = <<tx.id, o[2]>>
    BY <1>2, <1>11 DEF Outpoint
  <2> DEFINE v == o[2]
  <2>4. /\ v \in TokenOutputs(tx) /\ KeyOf(tx.outputs[v], <<tx.id, v>>) = k
        /\ Reads(done, <<tx.id, v>>) # << >>
    BY <1>11, <2>2, <2>3
  <2> HIDE DEF v
  <2>5. MovesNothing(tx.outputs[v]) /\ Reads(done, <<tx.id, v>>) = Nothing(tx.outputs[v], k)
    BY <1>3, <1>4, <1>5, <1>6, <1>7, <2>4, NothingComes
  <2>6. QED
    BY <2>2, <2>3, <2>5 DEF v
<1>12. OnlyNothing(order, run, k, n)
  BY <1>11 DEF OnlyNothing, done
<1>13. ASSUME NEW o \in Live(done), done[Utxo(o)].tokenKey = k
       PROVE  done[Utxo(o)].amount = 0
  <2>1. o \in Outpoint /\ Held(done, Utxo(o))
    BY DEF Live
  <2>2. CASE o[1] = tx.id
    <3>1. KeyOf(DocAt(o), o) = k /\ Reads(done, o) # << >>
      BY <1>10, <1>13, <2>1, ReadsAre
    <3>2. Reads(done, o) = Nothing(DocAt(o), k)
      BY <1>2, <1>11, <2>1, <2>2, <3>1
    <3>3. Reads(done, o)[2] = 0
      BY <3>2 DEF Nothing
    <3>4. QED
      BY <2>1, <3>3, ReadsAre
  <2>3. CASE o[1] # tx.id
    <3>1. done[Utxo(o)] = rec[Utxo(o)]
      BY <1>9, <2>1, <2>3
    <3>2. o \in Live(rec)
      BY <2>1, <3>1 DEF Live, Held, Get
    <3>3. QED
      BY <1>7, <1>13, <3>1, <3>2
  <2>4. QED
    BY <2>2, <2>3
<1>14. QED
  BY <1>12, <1>13 DEF Moveless, done

LEMMA NothingMoves ==
  ASSUME LedgerIInv, NEW order, OnceEach(order), NEW run, Ran(chain, order, run),
         NEW k \in Outpoint, k[1] \notin Upto(order, Len(order))
  PROVE  \A n \in 1 .. Len(order) : OnlyNothing(order, run, k, n)
<1> DEFINE P == {n \in 0 .. Len(order) : Moveless(run[n], k)}
<1>1. Len(order) \in Nat
  BY OnceEachIs
<1>2. 0 \in P
  <2>1. Stage(order, run, 0)
    BY NothingRan
  <2>2. Live(run[0]) = {}
    BY <2>1 DEF Stage, Upto
  <2>3. QED
    BY <1>1, <2>2 DEF Moveless
<1>3. ASSUME NEW n \in 1 .. Len(order), n - 1 \in P
      PROVE  n \in P
  <2>1. n \in 0 .. Len(order)
    BY <1>1
  <2>2. QED
    BY <1>3, <2>1, MovelessStep
<1>4. \A n \in 0 .. Len(order) : n \in P
  <2> HIDE DEF P
  <2>1. QED
    BY <1>1, <1>2, <1>3, StepByStep
<1>5. ASSUME NEW n \in 1 .. Len(order)
      PROVE  OnlyNothing(order, run, k, n)
  <2>1. n - 1 \in 0 .. Len(order)
    BY <1>1
  <2>2. QED
    BY <1>4, <2>1, MovelessStep
<1>6. QED
  BY <1>5

-----------------------------------------------------------------------------
(* The index and a replay.                                                    *)

\* Both are sorted runs: the index over the chain, the replay over a lineage.
LEMMA IndexSorted ==
  ASSUME LedgerIInv, ChainSound
  PROVE  /\ Sorted(InChainOrder(chain))
         /\ Len(InChainOrder(chain)) = Len(chain)
         /\ \A i \in Ids : i \in 1 .. Len(InChainOrder(chain)) /\ InChainOrder(chain)[i] = i
<1> DEFINE order == InChainOrder(chain)
<1>1. Len(chain) \in Nat /\ Ids = 1 .. Len(chain) /\ Ids \in SUBSET Nat
  BY ChainFacts
<1>2. /\ order \in Seq(Ids) /\ Len(order) = Len(chain) /\ DOMAIN order = Ids
      /\ \A i \in Ids : order[i] = i
  BY <1>1 DEF InChainOrder
<1> HIDE DEF order
<1>3. IsInjective(order)
  BY <1>2 DEF IsInjective
<1>4. \A i \in Ids : IsInjective(chain[i].inputs)
  BY DEF ChainSound, Ids
<1>5. ASSUME NEW n \in 1 .. Len(order)
      PROVE  Parents(order[n]) \subseteq Upto(order, n - 1)
  <2>1. n \in Ids /\ order[n] = n /\ n \in Nat
    BY <1>1, <1>2
  <2>2. ASSUME NEW j \in Parents(n)
        PROVE  j \in Upto(order, n - 1)
    <3>1. j \in Ids /\ j < n /\ j \in 1 .. Len(chain)
      BY <1>1, <2>1, ChainFacts
    <3>2. j \in 1 .. n - 1
      BY <1>1, <2>1, <3>1
    <3>3. order[j] = j
      BY <1>2, <3>1
    <3>4. QED
      BY <3>2, <3>3 DEF Upto
  <2>3. QED
    BY <2>1, <2>2
<1>6. QED
  BY <1>1, <1>2, <1>3, <1>4, <1>5 DEF Sorted, OnceEach, order

LEMMA ReplaySorted ==
  ASSUME LedgerIInv, ChainSound, NEW o \in Source, MaxDepth >= Len(chain),
         NEW txs, txs = OrderByDependency(CollectHistory(o, {}).seen)
  PROVE  /\ Sorted(txs) /\ Upto(txs, Len(txs)) = Lineage(o[1])
         /\ \E n \in 1 .. Len(txs) : txs[n] = o[1]
<1> DEFINE ids == CollectHistory(o, {}).seen
<1>1. ids \in Seq(Ids) /\ IsInjective(ids) /\ ToSet(ids) = Lineage(o[1])
  BY CollectGives
<1> HIDE DEF ids
<1>2. Ordered(ids, txs) /\ ToSet(txs) = Lineage(o[1])
  BY <1>1, OrderGives DEF ids
<1>3. o[1] \in Ids
  BY DEF Source
<1>4. /\ txs \in Seq(Ids) /\ IsInjective(txs) /\ Len(txs) \in Nat /\ DOMAIN txs = 1 .. Len(txs)
      /\ \A n \in 1 .. Len(txs) : Placed(ids, txs, n)
  BY <1>2 DEF Ordered
<1>5. Upto(txs, Len(txs)) = Lineage(o[1])
  BY <1>2, <1>4 DEF Upto, ToSet
<1>6. /\ o[1] \in Lineage(o[1]) /\ Closed(Lineage(o[1]))
  BY <1>3, LineageIs
<1>7. ASSUME NEW n \in 1 .. Len(txs), NEW j \in Parents(txs[n])
      PROVE  j \in Upto(txs, n - 1)
  <2>1. txs[n] \in Lineage(o[1])
    BY <1>5 DEF Upto
  <2>2. PICK p \in Ins(chain[txs[n]]) : DocAt(p) # NoToken /\ p[1] = j
    BY DEF Parents
  <2>3. j \in ToSet(ids)
    BY <1>1, <1>6, <2>1, <2>2 DEF Closed
  <2>4. j \in Deps(ids, txs[n])
    BY <2>2, <2>3 DEF Deps
  <2>5. Placed(ids, txs, n)
    BY <1>4
  <2>6. PICK m \in 1 .. n - 1 : txs[m] = j
    BY <2>4, <2>5 DEF Placed
  <2>7. QED
    BY <2>6 DEF Upto
<1>8. \A i \in Ids : IsInjective(chain[i].inputs)
  BY DEF ChainSound, Ids
<1>9. Sorted(txs)
  BY <1>4, <1>7, <1>8 DEF Sorted, OnceEach
<1>10. \E n \in 1 .. Len(txs) : txs[n] = o[1]
  BY <1>5, <1>6 DEF Upto
<1>11. QED
  BY <1>5, <1>9, <1>10

\* The key of a BSV-21 output is an outpoint.
LEMMA KeyIsOutpoint ==
  ASSUME LedgerIInv, NEW o \in Unspent, DocAt(o) # NoToken, DocAt(o).standard = "BSV-21",
         KeyOf(DocAt(o), o) # NoKey
  PROVE  /\ KeyOf(DocAt(o), o) \in Outpoint
         /\ o[2] \in DOMAIN chain[o[1]].outputs
<1>1. o \in Source /\ o \in Outpoint /\ o[1] \in Ids
  BY UnspentIs DEF Source
<1>2. PICK i \in Ids : o \in Outs(chain[i])
  BY DEF Unspent, ToSet, Ids
<1>3. chain[i].id = i /\ chain[i] \in Transaction
  BY ChainFacts
<1>4. o[1] = i /\ o[2] \in DOMAIN chain[i].outputs
  BY <1>2, <1>3 DEF Outs
<1>5. DocAt(o) \in Document
  <2> DEFINE tx == chain[i]
             v == o[2]
  <2>1. tx.id = i /\ o = <<tx.id, v>> /\ DocAt(o) = tx.outputs[v]
    BY <1>1, <1>3, <1>4 DEF Outpoint, DocAt
  <2>2. v \in TokenOutputs(tx)
    BY <1>4, <2>1 DEF TokenOutputs
  <2> HIDE DEF tx, v
  <2>3. tx \in Transaction
    BY <1>3 DEF tx
  <2>4. tx.outputs[v] \in Document
    BY <2>2, <2>3, OutputIs
  <2>5. QED
    BY <2>1, <2>4
<1>6. QED
  BY <1>1, <1>4, <1>5 DEF KeyOf, Document

\* What is said of an unspent output at the end is what was said when it was made.
LEMMA SaidAtTheEnd ==
  ASSUME LedgerIInv, NEW order, OnceEach(order), NEW run, Ran(chain, order, run),
         NEW o \in Unspent, NEW n \in 1 .. Len(order), order[n] = o[1]
  PROVE  Reads(run[Len(order)], o) = Reads(run[n], o)
<1>1. Len(order) \in Nat /\ \A j \in 1 .. Len(order) : order[j] \in Ids
  BY OnceEachIs
<1>2. \A i \in Ids : o \notin Ins(chain[i])
  BY DEF Unspent, SpentBy, ToSet, Ids
<1>3. Untouched(order, o, n, Len(order))
  BY <1>1, <1>2 DEF Untouched
<1>4. o \in Outpoint /\ Len(order) \in n .. Len(order)
  BY <1>1, UnspentIs DEF Source
<1>5. QED
  BY <1>3, <1>4, RunKeeps

\* Read of its own key, an output reads as it reads.
LEMMA ReadsOwn ==
  ASSUME LedgerIInv, NEW order, OnceEach(order), NEW run, Ran(chain, order, run),
         NEW o \in Outpoint, NEW n \in 1 .. Len(order)
  PROVE  ReadsOf(run[n], o, KeyOf(DocAt(o), o)) = Reads(run[n], o)
<1>1. n \in 0 .. Len(order)
  BY OnceEachIs
<1>2. Stage(order, run, n)
  BY <1>1, RunIs
<1>3. Held(run[n], Utxo(o)) => run[n][Utxo(o)].tokenKey = KeyOf(DocAt(o), o)
  BY <1>2 DEF Stage, Live
<1>4. QED
  BY <1>3, ReadsAre DEF ReadsOf

LEMMA HistoryAgrees ==
  ASSUME HistoryIInv, NEW o \in Unspent, DocAt(o) # NoToken, DocAt(o).standard = "BSV-21",
         NEW k, k = KeyOf(DocAt(o), o), MaxDepth >= Len(chain), k # NoKey,
         NEW replayed, replayed = ReplayToken(o, {})
  PROVE  /\ Rooted(o[1], k) => Reads(replayed, o) = Reads(records, o)
         /\ k[1] \notin Lineage(o[1]) => Reads(replayed, o) \in {<< >>, Reads(records, o)}
<1>1. LedgerIInv /\ ChainSound /\ Remembered
  BY DEF HistoryIInv
<1> DEFINE all == InChainOrder(chain)
           txs == OrderByDependency(CollectHistory(o, {}).seen)
           run == Replayed(txs)
           i == o[1]
<1>2. /\ Sorted(all) /\ OnceEach(all) /\ Len(all) = Len(chain)
      /\ \A j \in Ids : j \in 1 .. Len(all) /\ all[j] = j
  BY <1>1, IndexSorted DEF Sorted
<1>3. PICK past : Ran(chain, all, past) /\ records = past[Len(all)]
  BY <1>1, <1>2 DEF Remembered
<1>4. o \in Source /\ o \in Outpoint /\ i \in Ids
  BY <1>1, UnspentIs DEF Source
<1>5. Sorted(txs) /\ Upto(txs, Len(txs)) = Lineage(i) /\ \E n \in 1 .. Len(txs) : txs[n] = i
  BY <1>1, <1>4, ReplaySorted
<1>6. OnceEach(txs)
  BY <1>5 DEF Sorted
<1> HIDE DEF all, txs
<1>7. Ran(chain, txs, run) /\ replayed = run[Len(txs)]
  <2>1. Len(txs) \in Nat
    BY <1>1, <1>6, OnceEachIs
  <2>2. QED
    BY <2>1, ReplayRan DEF ReplayToken, txs
<1> HIDE DEF run
<1>8. PICK n \in 1 .. Len(txs) : txs[n] = i
  BY <1>5
<1>9. i \in 1 .. Len(all) /\ all[i] = i
  BY <1>2, <1>4
<1>10. k \in Outpoint /\ o[2] \in DOMAIN chain[i].outputs
  BY <1>1, KeyIsOutpoint
<1>11. Reads(replayed, o) = Reads(run[n], o) /\ Reads(records, o) = Reads(past[i], o)
  BY <1>1, <1>2, <1>3, <1>6, <1>7, <1>8, <1>9, SaidAtTheEnd
<1>12. ASSUME Rooted(i, k)
       PROVE  Reads(replayed, o) = Reads(records, o)
  <2>1. Same(k, i, all, past, txs, run)
    BY <1>1, <1>2, <1>3, <1>4, <1>5, <1>7, <1>10, <1>12, Lockstep
  <2>2. o = <<i, o[2]>>
    BY <1>4 DEF Outpoint
  <2>3. ReadsOf(past[i], o, k) = ReadsOf(run[n], o, k)
    BY <1>8, <1>9, <1>10, <2>1, <2>2 DEF Same
  <2>4. ReadsOf(past[i], o, k) = Reads(past[i], o) /\ ReadsOf(run[n], o, k) = Reads(run[n], o)
    BY <1>1, <1>2, <1>3, <1>4, <1>6, <1>7, <1>8, <1>9, ReadsOwn
  <2>5. QED
    BY <1>11, <2>3, <2>4
<1>13. ASSUME k[1] \notin Lineage(i), Reads(replayed, o) # << >>
       PROVE  Reads(replayed, o) = Reads(records, o)
  <2>1. k[1] \notin Upto(txs, Len(txs))
    BY <1>5, <1>13
  <2>2. OnlyNothing(txs, run, k, n)
    BY <1>1, <1>6, <1>7, <1>8, <1>10, <2>1, NothingMoves
  <2>3. /\ o[2] \in TokenOutputs(chain[i]) /\ MovesNothing(DocAt(o))
        /\ Reads(run[n], o) = Nothing(DocAt(o), k)
    BY <1>4, <1>8, <1>11, <1>13, <2>2 DEF OnlyNothing
  <2> DEFINE tx == chain[i]
             v == o[2]
  <2>4. tx.id = i /\ o = <<tx.id, v>> /\ DocAt(o) = tx.outputs[v]
    BY <1>1, <1>4, ChainFacts DEF Outpoint, DocAt
  <2>5. Applicable(past[i - 1], tx)
    <3>1. Fits(all, past, i)
      BY <1>1, <1>2, <1>3, <1>9, RunIs
    <3>2. QED
      BY <1>9, <3>1 DEF Fits
  <2>6. PICK height \in Nat, idx \in Nat :
          past[i] = Apply(past[i - 1], TransactionWrites(past[i - 1], tx, height, idx))
    <3>1. Follows(past[i - 1], tx, past[i])
      BY <1>3, <1>9 DEF Ran
    <3>2. QED
      BY <3>1 DEF Follows
  <2>7. v \in TokenOutputs(tx) /\ MovesNothing(tx.outputs[v])
    BY <2>3, <2>4
  <2> HIDE DEF tx, v
  <2>8. Reads(past[i], <<tx.id, v>>) = Nothing(tx.outputs[v], KeyOf(tx.outputs[v], <<tx.id, v>>))
    BY <2>5, <2>6, <2>7, NothingIsTaken
  <2>9. Reads(past[i], o) = Nothing(DocAt(o), k)
    BY <2>4, <2>8
  <2>10. QED
    BY <1>11, <2>3, <2>9
<1>14. QED
  BY <1>12, <1>13

\* A replay that throws met a document without an op among the inputs behind it.
LEMMA ThrownMeets ==
  ASSUME LedgerIInv, NEW o \in Unspent, MaxDepth >= Len(chain), Thrown(o, {})
  PROVE  StumblesBehind(o[1])
<1>1. o \in Source
  BY UnspentIs
<1> DEFINE ids == CollectHistory(o, {}).seen
<1>2. /\ ToSet(ids) = Lineage(o[1])
      /\ CollectHistory(o, {}).thrown => \E i \in ToSet(ids) : StumblesAt(i)
  BY <1>1, CollectGives
<1>3. CollectHistory(o, {}).thrown
  BY DEF Thrown
<1> HIDE DEF ids
<1>4. QED
  BY <1>2, <1>3 DEF StumblesBehind, StumblesAt

LEMMA HistoryReplays ==
  ASSUME HistoryIInv
  PROVE  ReplayAgrees
<1> SUFFICES ASSUME NEW o \in Unspent, DocAt(o) # NoToken, DocAt(o).standard = "BSV-21",
                    NEW k, k = KeyOf(DocAt(o), o), MaxDepth >= Len(chain), k # NoKey,
                    NEW replayed, replayed = ReplayToken(o, {})
             PROVE  \/ Thrown(o, {}) /\ StumblesBehind(o[1])
                    \/ /\ ~Thrown(o, {})
                       /\ Rooted(o[1], k) => Reads(replayed, o) = Reads(records, o)
                       /\ k[1] \notin Lineage(o[1])
                            => Reads(replayed, o) \in {<< >>, Reads(records, o)}
  BY DEF ReplayAgrees
<1>1. Thrown(o, {}) => StumblesBehind(o[1])
  BY ThrownMeets DEF HistoryIInv
<1>2. /\ Rooted(o[1], k) => Reads(replayed, o) = Reads(records, o)
      /\ k[1] \notin Lineage(o[1]) => Reads(replayed, o) \in {<< >>, Reads(records, o)}
  BY HistoryAgrees
<1>3. QED
  BY <1>1, <1>2

\* Nothing lost and nothing cut off, the replay of a BSV-21 output throws only
\* over a document without an op that was spent behind it. Otherwise it says of
\* the output what the index of the whole chain says, as long as every mint
\* behind it descends from the deploy; without the deploy the output is at most
\* missing. (replay.js:10-18, 49-52)
THEOREM ReplaysAgree == Spec => []ReplayAgrees
<1>1. HistoryIInv => ReplayAgrees
  BY HistoryReplays
<1>2. QED
  BY <1>1, HistoryInductive, PTL

=============================================================================
