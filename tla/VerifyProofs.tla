---------------------------- MODULE VerifyProofs ----------------------------
(* The safety properties of Verify and of ChainPosition, its verdict and its   *)
(* inspection, for every chain, every length of walk, every budget and every   *)
(* answer of the indexes.                                                      *)
EXTENDS ChainPosition, HelperProofs
-----------------------------------------------------------------------------
(* Sums of the first amounts, and which amount covers an offset.               *)

Solves(g, a, n) == g = [i \in 0 .. n |-> IF i = 0 THEN 0 ELSE g[i - 1] + a[i]]

LEMMA SumSolved ==
  ASSUME NEW a, NEW n \in Nat
  PROVE  \E g : Solves(g, a, n)
<1> DEFINE Bad == {m \in Nat : ~ \E g : Solves(g, a, m)}
<1>1. ASSUME Bad # {}
      PROVE  FALSE
  <2> DEFINE m == Min(Bad)
  <2>1. m \in Nat /\ m \in Bad /\ \A k \in Bad : m <= k
    BY <1>1, MinIsLeast
  <2> HIDE DEF m
  <2>2. CASE m = 0
    <3> DEFINE g == [i \in 0 .. 0 |-> 0]
    <3>1. Solves(g, a, 0)
      BY DEF Solves
    <3> HIDE DEF g
    <3>2. QED
      BY <2>1, <2>2, <3>1
  <2>3. CASE m # 0
    <3>1. m - 1 \in Nat /\ m - 1 \notin Bad
      <4> HIDE DEF Bad
      <4>1. QED
        BY <2>1, <2>3
    <3>2. PICK g : Solves(g, a, m - 1)
      BY <3>1
    <3> DEFINE h == [i \in 0 .. m |-> IF i = 0 THEN 0 ELSE g[i - 1] + a[i]]
    <3>3. ASSUME NEW i \in 0 .. m, i # 0
          PROVE  h[i - 1] = g[i - 1]
      <4>1. i - 1 \in 0 .. m - 1 /\ i - 1 \in 0 .. m
        BY <2>1, <3>3
      <4>2. QED
        BY <3>2, <4>1 DEF Solves
    <3>4. Solves(h, a, m)
      BY <3>3 DEF Solves
    <3> HIDE DEF h
    <3>5. QED
      BY <2>1, <3>4
  <2>4. QED
    BY <2>2, <2>3
<1>2. QED
  BY <1>1

LEMMA SumsMeet ==
  ASSUME NEW a, NEW n \in Nat, NEW m \in Nat, NEW g, NEW h,
         Solves(g, a, n), Solves(h, a, m), NEW k \in Nat, k <= n, k <= m
  PROVE  g[k] = h[k]
<1> DEFINE Bad == {i \in Nat : i <= k /\ g[i] # h[i]}
<1>1. ASSUME Bad # {}
      PROVE  FALSE
  <2> DEFINE i == Min(Bad)
  <2>1. i \in Nat /\ i \in Bad /\ \A j \in Bad : i <= j
    BY <1>1, MinIsLeast
  <2> HIDE DEF i
  <2>2. i <= k /\ g[i] # h[i] /\ i \in 0 .. n /\ i \in 0 .. m
    BY <2>1
  <2>3. i # 0
    BY <2>2 DEF Solves
  <2>4. i - 1 \in Nat /\ i - 1 \notin Bad /\ i - 1 <= k
    <3> HIDE DEF Bad
    <3>1. QED
      BY <2>1, <2>2, <2>3
  <2>5. g[i - 1] = h[i - 1]
    BY <2>4
  <2>6. g[i] = g[i - 1] + a[i] /\ h[i] = h[i - 1] + a[i]
    BY <2>2, <2>3 DEF Solves
  <2>7. QED
    BY <2>2, <2>5, <2>6
<1>2. QED
  BY <1>1

LEMMA SumOfSolves ==
  ASSUME NEW a, NEW n \in Nat
  PROVE  \E g : Solves(g, a, n) /\ SumOf(a, n) = g[n]
<1> DEFINE sum == CHOOSE g : Solves(g, a, n)
<1>1. Solves(sum, a, n)
  BY SumSolved
<1>2. CASE n < 1
  <2>1. SumOf(a, n) = 0
    BY <1>2 DEF SumOf
  <2>2. n = 0 /\ sum[n] = 0
    <3> HIDE DEF sum
    <3>1. n = 0 /\ 0 \in 0 .. n
      BY <1>2
    <3>2. QED
      BY <1>1, <3>1 DEF Solves
  <2>3. QED
    BY <1>1, <2>1, <2>2
<1>3. CASE ~(n < 1)
  <2>1. SumOf(a, n) = sum[n]
    BY <1>3 DEF SumOf, Solves
  <2> HIDE DEF sum
  <2>2. QED
    BY <1>1, <2>1
<1>4. QED
  BY <1>2, <1>3

LEMMA SumOfIs ==
  ASSUME NEW a
  PROVE  /\ SumOf(a, 0) = 0
         /\ \A n \in Nat : n # 0 => SumOf(a, n) = SumOf(a, n - 1) + a[n]
<1>1. SumOf(a, 0) = 0
  BY DEF SumOf
<1>2. ASSUME NEW n \in Nat, n # 0
      PROVE  SumOf(a, n) = SumOf(a, n - 1) + a[n]
  <2>1. n - 1 \in Nat
    BY <1>2
  <2>2. PICK g : Solves(g, a, n) /\ SumOf(a, n) = g[n]
    BY SumOfSolves
  <2>3. PICK h : Solves(h, a, n - 1) /\ SumOf(a, n - 1) = h[n - 1]
    BY <2>1, SumOfSolves
  <2>4. g[n - 1] = h[n - 1]
    BY <2>1, <2>2, <2>3, SumsMeet
  <2>5. n \in 0 .. n /\ g[n] = g[n - 1] + a[n]
    BY <1>2, <2>2 DEF Solves
  <2>6. QED
    BY <2>2, <2>3, <2>4, <2>5
<1>3. QED
  BY <1>1, <1>2

\* The first of n natural numbers sum up to less than all, step by step.
Amounts(a, n) == \A i \in 1 .. n : a[i] \in Nat

LEMMA SumOfRises ==
  ASSUME NEW a, NEW n \in Nat, Amounts(a, n), NEW k \in 0 .. n
  PROVE  /\ SumOf(a, k) \in Nat
         /\ k # 0 => a[k] \in Nat /\ SumOf(a, k - 1) \in Nat
                       /\ SumOf(a, k) = SumOf(a, k - 1) + a[k]
         /\ \A j \in 0 .. k : SumOf(a, j) \in Nat /\ SumOf(a, j) <= SumOf(a, k)
<1> DEFINE Right(m) == SumOf(a, m) \in Nat /\ \A j \in 0 .. m : SumOf(a, j) \in Nat /\ SumOf(a, j) <= SumOf(a, m)
           Bad == {m \in Nat : m <= n /\ ~Right(m)}
<1>1. ASSUME Bad # {}
      PROVE  FALSE
  <2> DEFINE m == Min(Bad)
  <2>1. m \in Nat /\ m \in Bad /\ \A j \in Bad : m <= j
    BY <1>1, MinIsLeast
  <2> HIDE DEF m
  <2>2. m <= n /\ ~Right(m)
    BY <2>1
  <2>3. m # 0
    <3>1. Right(0)
      BY SumOfIs
    <3>2. QED
      BY <2>2, <3>1
  <2>4. m - 1 \in Nat /\ m - 1 \notin Bad /\ m - 1 <= n
    <3> HIDE DEF Bad
    <3>1. QED
      BY <2>1, <2>2, <2>3
  <2>5. Right(m - 1)
    <3> HIDE DEF Right
    <3>1. QED
      BY <2>4
  <2>6. a[m] \in Nat
    BY <2>1, <2>2, <2>3 DEF Amounts
  <2>7. SumOf(a, m) = SumOf(a, m - 1) + a[m]
    BY <2>1, <2>3, SumOfIs
  <2>8. SumOf(a, m) \in Nat /\ SumOf(a, m - 1) <= SumOf(a, m) /\ SumOf(a, m - 1) \in Nat
    BY <2>5, <2>6, <2>7
  <2>9. ASSUME NEW j \in 0 .. m
        PROVE  SumOf(a, j) \in Nat /\ SumOf(a, j) <= SumOf(a, m)
    <3>1. CASE j = m
      BY <2>8, <3>1
    <3>2. CASE j # m
      <4>1. j \in 0 .. m - 1
        BY <2>1, <3>2
      <4>2. SumOf(a, j) \in Nat /\ SumOf(a, j) <= SumOf(a, m - 1)
        BY <2>5, <4>1
      <4>3. QED
        BY <2>8, <4>2
    <3>3. QED
      BY <3>1, <3>2
  <2>10. QED
    BY <2>2, <2>8, <2>9
<1>2. ASSUME NEW m \in 0 .. n
      PROVE  Right(m)
  <2>1. m \in Nat /\ m <= n
    OBVIOUS
  <2> HIDE DEF Right
  <2>2. QED
    BY <1>1, <2>1
<1>3. k # 0 => a[k] \in Nat /\ SumOf(a, k - 1) \in Nat /\ SumOf(a, k) = SumOf(a, k - 1) + a[k]
  <2>1. ASSUME k # 0
        PROVE  k \in Nat /\ k - 1 \in 0 .. n /\ k \in 1 .. n
    BY <2>1
  <2>2. QED
    BY <1>2, <2>1, SumOfIs DEF Amounts
<1>4. QED
  BY <1>2, <1>3

LEMMA SumOfAll ==
  ASSUME NEW a, NEW n \in Nat, Amounts(a, n)
  PROVE  SumOf(a, n) \in Nat
<1>1. n \in 0 .. n
  OBVIOUS
<1>2. QED
  BY <1>1, SumOfRises

LEMMA SumOfSame ==
  ASSUME NEW a, NEW b, NEW n \in Nat, \A i \in 1 .. n : a[i] = b[i]
  PROVE  SumOf(a, n) = SumOf(b, n)
<1> DEFINE Bad == {m \in Nat : m <= n /\ SumOf(a, m) # SumOf(b, m)}
<1>1. ASSUME Bad # {}
      PROVE  FALSE
  <2> DEFINE m == Min(Bad)
  <2>1. m \in Nat /\ m \in Bad /\ \A j \in Bad : m <= j
    BY <1>1, MinIsLeast
  <2> HIDE DEF m
  <2>2. m <= n /\ SumOf(a, m) # SumOf(b, m)
    BY <2>1
  <2>3. m # 0
    BY <2>2, SumOfIs
  <2>4. m - 1 \in Nat /\ m - 1 \notin Bad /\ m - 1 <= n
    <3> HIDE DEF Bad
    <3>1. QED
      BY <2>1, <2>2, <2>3
  <2>5. SumOf(a, m - 1) = SumOf(b, m - 1)
    BY <2>4
  <2>6. m \in 1 .. n
    BY <2>1, <2>2, <2>3
  <2>7. SumOf(a, m) = SumOf(a, m - 1) + a[m] /\ SumOf(b, m) = SumOf(b, m - 1) + b[m]
    BY <2>1, <2>3, SumOfIs
  <2>8. QED
    BY <2>2, <2>5, <2>6, <2>7
<1>2. QED
  BY <1>1

\* Holder finds the amount in whose stretch an offset lies, and there is one up
\* to the whole sum.
LEMMA HolderIs ==
  ASSUME NEW a, NEW n \in Nat, DOMAIN a = 1 .. n, Amounts(a, n), NEW place \in Nat
  PROVE  /\ Holder(a, place) = 0 => SumOf(a, n) <= place
         /\ Holder(a, place) # 0 =>
              /\ Holder(a, place) \in 1 .. n
              /\ SumOf(a, Holder(a, place) - 1) <= place
              /\ place < SumOf(a, Holder(a, place))
<1> DEFINE covering == {i \in DOMAIN a : place < SumOf(a, i)}
<1>1. Holder(a, place) = IF covering = {} THEN 0 ELSE Min(covering)
  BY DEF Holder
<1>2. CASE covering = {}
  <2>1. CASE n = 0
    BY <1>1, <1>2, <2>1, SumOfIs
  <2>2. CASE n # 0
    <3>1. n \in 1 .. n
      BY <2>2
    <3>2. SumOf(a, n) \in Nat
      BY SumOfRises
    <3>3. ~(place < SumOf(a, n))
      BY <1>2, <3>1
    <3>4. QED
      BY <1>1, <1>2, <3>2, <3>3
  <2>3. QED
    BY <2>1, <2>2
<1>3. CASE covering # {}
  <2> DEFINE h == Min(covering)
  <2>1. h \in covering /\ \A i \in covering : h <= i
    <3>1. covering \in SUBSET Nat
      OBVIOUS
    <3> HIDE DEF covering
    <3>2. QED
      BY <1>3, <3>1, MinIsLeast
  <2>2. Holder(a, place) = h
    BY <1>1, <1>3
  <2> HIDE DEF h
  <2>3. h \in 1 .. n /\ place < SumOf(a, h)
    BY <2>1
  <2>4. SumOf(a, h - 1) \in Nat /\ SumOf(a, h - 1) <= place
    <3>1. h - 1 \in 0 .. n
      BY <2>3
    <3>2. SumOf(a, h - 1) \in Nat
      BY <3>1, SumOfRises
    <3>3. CASE h = 1
      BY <3>3, SumOfIs
    <3>4. CASE h # 1
      <4>1. h - 1 \in 1 .. n /\ ~(h <= h - 1)
        BY <2>3, <3>4
      <4>2. h - 1 \notin covering
        <5> HIDE DEF covering
        <5>1. QED
          BY <2>1, <4>1
      <4>3. QED
        BY <3>2, <4>1, <4>2
    <3>5. QED
      BY <3>2, <3>3, <3>4
  <2>5. QED
    BY <2>2, <2>3, <2>4
<1>4. QED
  BY <1>2, <1>3

\* Only one stretch holds an offset.
LEMMA OneStretch ==
  ASSUME NEW a, NEW n \in Nat, Amounts(a, n), NEW i \in 1 .. n, NEW j \in 1 .. n,
         NEW place \in Nat,
         SumOf(a, i - 1) <= place, place < SumOf(a, i),
         SumOf(a, j - 1) <= place, place < SumOf(a, j)
  PROVE  i = j
<1>1. ASSUME NEW x \in 1 .. n, NEW y \in 1 .. n, x < y,
             place < SumOf(a, x), SumOf(a, y - 1) <= place
      PROVE  FALSE
  <2>1. x \in 0 .. y - 1 /\ y - 1 \in 0 .. n
    BY <1>1
  <2>2. SumOf(a, x) \in Nat /\ SumOf(a, y - 1) \in Nat /\ SumOf(a, x) <= SumOf(a, y - 1)
    BY <2>1, SumOfRises
  <2>3. QED
    BY <1>1, <2>2
<1>2. ~(i < j) /\ ~(j < i)
  BY <1>1
<1>3. QED
  BY <1>2

-----------------------------------------------------------------------------
(* Facts about the chain. *)

IsCoinbase(t) == TxOf[t].inputs = <<Coinbase>>
Amount(o) == TxOf[o[1]].outputs[o[2]]
InValues(t) == [i \in DOMAIN TxOf[t].inputs |-> Amount(TxOf[t].inputs[i])]
PaidOut(t) == SumOf(TxOf[t].outputs, Len(TxOf[t].outputs))
PaidIn(t) == SumOf(InValues(t), Len(TxOf[t].inputs))
Incoming(t) == IF IsCoinbase(t) THEN PaidOut(t) ELSE PaidIn(t)

LEMMA ChainIs ==
  /\ Len(TxOf) \in Nat /\ TxId = 1 .. Len(TxOf) /\ TxId \in SUBSET Nat
  /\ \A t \in TxId :
       /\ DOMAIN TxOf[t].inputs = 1 .. Len(TxOf[t].inputs) /\ Len(TxOf[t].inputs) \in Nat
       /\ DOMAIN TxOf[t].outputs = 1 .. Len(TxOf[t].outputs) /\ Len(TxOf[t].outputs) \in Nat
       /\ Amounts(TxOf[t].outputs, Len(TxOf[t].outputs))
<1>1. Len(TxOf) \in Nat /\ TxId = 1 .. Len(TxOf)
  BY ShapeAssumption DEF TxId
<1>2. ASSUME NEW t \in TxId
      PROVE  /\ DOMAIN TxOf[t].inputs = 1 .. Len(TxOf[t].inputs)
             /\ Len(TxOf[t].inputs) \in Nat
  BY ShapeAssumption
<1>3. ASSUME NEW t \in TxId
      PROVE  /\ DOMAIN TxOf[t].outputs = 1 .. Len(TxOf[t].outputs)
             /\ Len(TxOf[t].outputs) \in Nat
             /\ Amounts(TxOf[t].outputs, Len(TxOf[t].outputs))
  <2> DEFINE outputs == TxOf[t].outputs
  <2>1. outputs \in Seq(Nat)
    BY ShapeAssumption
  <2> HIDE DEF outputs
  <2>2. /\ DOMAIN outputs = 1 .. Len(outputs) /\ Len(outputs) \in Nat
        /\ \A i \in 1 .. Len(outputs) : outputs[i] \in Nat
    BY <2>1
  <2>3. QED
    BY <2>2 DEF Amounts, outputs
<1>4. QED
  BY <1>1, <1>2, <1>3

LEMMA OutpointIs ==
  ASSUME NEW o
  PROVE  /\ o \in Outpoint => /\ o[1] \in TxId /\ o[2] \in DOMAIN TxOf[o[1]].outputs
                              /\ o = <<o[1], o[2]>> /\ o \in Nat \X Nat
                              /\ o[1] \in Nat /\ o[2] \in Nat \ {0} /\ Amount(o) \in Nat
                              /\ o # Coinbase /\ o # None
         /\ \A t \in TxId : \A v \in DOMAIN TxOf[t].outputs : <<t, v>> \in Outpoint
<1>1. ASSUME o \in Outpoint
      PROVE  /\ o[1] \in TxId /\ o[2] \in DOMAIN TxOf[o[1]].outputs
             /\ o = <<o[1], o[2]>> /\ o \in Nat \X Nat
             /\ o[1] \in Nat /\ o[2] \in Nat \ {0} /\ Amount(o) \in Nat
             /\ o # Coinbase /\ o # None
  <2>1. PICK t \in TxId : \E v \in DOMAIN TxOf[t].outputs : o = <<t, v>>
    BY <1>1 DEF Outpoint
  <2> PICK v \in DOMAIN TxOf[t].outputs : o = <<t, v>>
    BY <2>1
  <2>2. t \in Nat /\ v \in Nat \ {0} /\ TxOf[t].outputs[v] \in Nat
    BY ChainIs DEF Amounts
  <2>3. o \in Nat \X Nat
    BY <2>2
  <2>4. QED
    BY <2>2, <2>3, ShapeAssumption DEF Amount
<1>2. QED
  BY <1>1 DEF Outpoint

\* Of the inputs of a transaction of the chain that is no coinbase.
LEMMA InputIs ==
  ASSUME NEW t \in TxId, ~IsCoinbase(t), NEW i \in DOMAIN TxOf[t].inputs
  PROVE  /\ TxOf[t].inputs[i] \in Outpoint /\ TxOf[t].inputs[i][1] \in TxId
         /\ TxOf[t].inputs[i][1] \in Nat /\ TxOf[t].inputs[i][1] < t
         /\ Amount(TxOf[t].inputs[i]) \in Nat
         /\ \A u \in TxId : \A j \in DOMAIN TxOf[u].inputs :
              TxOf[u].inputs[j] = TxOf[t].inputs[i] => u = t /\ j = i
<1>1. /\ TxOf[t].inputs[i] \in Outpoint /\ TxOf[t].inputs[i][1] < t
      /\ \A u \in TxId : \A j \in DOMAIN TxOf[u].inputs :
           TxOf[u].inputs[j] = TxOf[t].inputs[i] => u = t /\ j = i
  BY LedgerAssumption DEF IsCoinbase
<1>2. QED
  BY <1>1, OutpointIs

LEMMA ValuesAre ==
  ASSUME NEW t \in TxId, ~IsCoinbase(t)
  PROVE  /\ Len(TxOf[t].inputs) \in Nat /\ DOMAIN TxOf[t].inputs = 1 .. Len(TxOf[t].inputs)
         /\ Amounts(InValues(t), Len(TxOf[t].inputs))
         /\ DOMAIN InValues(t) = 1 .. Len(TxOf[t].inputs)
         /\ \A i \in DOMAIN TxOf[t].inputs : InValues(t)[i] = Amount(TxOf[t].inputs[i])
         /\ PaidOut(t) \in Nat /\ PaidIn(t) \in Nat /\ PaidOut(t) <= PaidIn(t)
<1>1. Len(TxOf[t].inputs) \in Nat /\ DOMAIN TxOf[t].inputs = 1 .. Len(TxOf[t].inputs)
  BY ChainIs
<1>2. /\ DOMAIN InValues(t) = 1 .. Len(TxOf[t].inputs)
      /\ \A i \in DOMAIN TxOf[t].inputs : InValues(t)[i] = Amount(TxOf[t].inputs[i])
  BY <1>1 DEF InValues
<1>3. Amounts(InValues(t), Len(TxOf[t].inputs))
  BY <1>1, <1>2, InputIs DEF Amounts
<1>4. PaidIn(t) \in Nat
  BY <1>1, <1>3, SumOfAll DEF PaidIn
<1>5. PaidOut(t) \in Nat
  BY ChainIs, SumOfAll DEF PaidOut
<1>6. PaidOut(t) <= PaidIn(t)
  <2>1. SumOf(TxOf[t].outputs, Len(TxOf[t].outputs)) <=
          SumOf([i \in DOMAIN TxOf[t].inputs |->
                   TxOf[TxOf[t].inputs[i][1]].outputs[TxOf[t].inputs[i][2]]],
                Len(TxOf[t].inputs))
    BY ZenonT(30), LedgerAssumption DEF IsCoinbase
  <2>2. QED
    BY ZenonT(30), <2>1 DEF PaidOut, PaidIn, InValues, Amount
<1>7. QED
  BY <1>1, <1>2, <1>3, <1>4, <1>5, <1>6

\* Which input spends an outpoint; only a transaction with inputs of its own does.
LEMMA SpendsIs ==
  ASSUME NEW t \in TxId, NEW o
  PROVE  /\ Spends(t, o) => /\ InputSpending(TxOf[t], o) \in DOMAIN TxOf[t].inputs
                            /\ TxOf[t].inputs[InputSpending(TxOf[t], o)] = o
         /\ (\E i \in DOMAIN TxOf[t].inputs : TxOf[t].inputs[i] = o) => Spends(t, o)
         /\ Spends(t, o) /\ o \in Outpoint => ~IsCoinbase(t)
<1> DEFINE S == {i \in 1 .. Len(TxOf[t].inputs) : TxOf[t].inputs[i] = o}
<1>1. DOMAIN TxOf[t].inputs = 1 .. Len(TxOf[t].inputs) /\ Len(TxOf[t].inputs) \in Nat
  BY ChainIs
<1>2. InputSpending(TxOf[t], o) = IF S # {} THEN Min(S) ELSE 0
  BY DEF InputSpending, SelectInSeq
<1>3. S # {} => Min(S) \in S
  <2>1. S \in SUBSET Nat
    BY <1>1
  <2> HIDE DEF S
  <2>2. QED
    BY <2>1, MinIsLeast
<1>4. Spends(t, o) => /\ InputSpending(TxOf[t], o) \in DOMAIN TxOf[t].inputs
                      /\ TxOf[t].inputs[InputSpending(TxOf[t], o)] = o
  <2>1. Spends(t, o) => InputSpending(TxOf[t], o) \in S
    BY <1>2, <1>3 DEF Spends
  <2>2. QED
    BY <1>1, <2>1
<1>5. (\E i \in DOMAIN TxOf[t].inputs : TxOf[t].inputs[i] = o) => Spends(t, o)
  <2>1. (\E i \in DOMAIN TxOf[t].inputs : TxOf[t].inputs[i] = o) => S # {}
    BY <1>1
  <2>2. \A i \in S : i # 0
    BY <1>1
  <2>3. QED
    BY <1>2, <1>3, <2>1, <2>2 DEF Spends
<1>6. ASSUME Spends(t, o), o \in Outpoint, IsCoinbase(t)
      PROVE  FALSE
  <2>1. PICK i \in DOMAIN TxOf[t].inputs : TxOf[t].inputs[i] = o
    BY <1>4, <1>6
  <2>2. TxOf[t].inputs[i] = Coinbase
    BY <1>6 DEF IsCoinbase
  <2>3. QED
    BY <1>6, <2>1, <2>2, OutpointIs
<1>7. QED
  BY <1>4, <1>5, <1>6

\* An outpoint is spent once, by a later transaction, in one input.
LEMMA SpentOnce ==
  ASSUME NEW t \in TxId, NEW o \in Outpoint, Spends(t, o)
  PROVE  /\ o[1] < t /\ \A u \in TxId : Spends(u, o) => u = t
         /\ \A i \in DOMAIN TxOf[t].inputs :
              TxOf[t].inputs[i] = o => i = InputSpending(TxOf[t], o)
<1>1. ~IsCoinbase(t) /\ InputSpending(TxOf[t], o) \in DOMAIN TxOf[t].inputs
      /\ TxOf[t].inputs[InputSpending(TxOf[t], o)] = o
  BY SpendsIs
<1>2. /\ o[1] < t
      /\ \A u \in TxId : \A j \in DOMAIN TxOf[u].inputs :
           TxOf[u].inputs[j] = o => u = t /\ j = InputSpending(TxOf[t], o)
  BY <1>1, InputIs
<1>3. ASSUME NEW u \in TxId, Spends(u, o)
      PROVE  u = t
  BY <1>2, <1>3, SpendsIs
<1>4. QED
  BY <1>2, <1>3
-----------------------------------------------------------------------------
(* Sequences put together, and the stretches of them.                          *)

LensOf(seqs) == [i \in DOMAIN seqs |-> Len(seqs[i])]
Listed(seqs, n, S) == /\ DOMAIN seqs = 1 .. n /\ Len(seqs) = n
                      /\ \A i \in 1 .. n : seqs[i] \in Seq(S)

\* s is the first m of some sequences, one behind the other.
Flat(s, seqs, m, S) ==
  /\ s \in Seq(S)
  /\ Len(s) = SumOf(LensOf(seqs), m)
  /\ \A i \in 1 .. m : \A k \in 1 .. Len(seqs[i]) :
       s[SumOf(LensOf(seqs), i - 1) + k] = seqs[i][k]

LEMMA LensAre ==
  ASSUME NEW seqs, NEW n \in Nat, NEW S, Listed(seqs, n, S)
  PROVE  Amounts(LensOf(seqs), n) /\ \A i \in 1 .. n : LensOf(seqs)[i] = Len(seqs[i])
BY DEF Listed, LensOf, Amounts

LEMMA Within ==
  ASSUME NEW a \in Nat, NEW b \in Nat, NEW c, c = a + b, NEW d \in Nat, c <= d,
         NEW k \in 1 .. b
  PROVE  a + k \in 1 .. d
OBVIOUS

LEMMA FlatMore ==
  ASSUME NEW seqs, NEW n \in Nat, NEW S, Listed(seqs, n, S),
         NEW m \in 1 .. n, NEW s, Flat(s, seqs, m - 1, S)
  PROVE  Flat(s \o seqs[m], seqs, m, S)
<1> DEFINE lens == LensOf(seqs)
           more == seqs[m]
<1>1. /\ SumOf(lens, m - 1) \in Nat /\ lens[m] \in Nat
      /\ SumOf(lens, m) = SumOf(lens, m - 1) + lens[m]
  <2>1. m \in 0 .. n /\ m # 0
    OBVIOUS
  <2>2. QED
    BY <2>1, LensAre, SumOfRises
<1>2. more \in Seq(S) /\ lens[m] = Len(more)
  BY LensAre DEF Listed
<1>3. s \in Seq(S) /\ Len(s) = SumOf(lens, m - 1)
  BY DEF Flat
<1>4. ASSUME NEW i \in 1 .. m - 1, NEW k \in 1 .. Len(seqs[i])
      PROVE  /\ SumOf(lens, i - 1) + k \in 1 .. Len(s)
             /\ s[SumOf(lens, i - 1) + k] = seqs[i][k]
  <2>1. i \in 0 .. n /\ i # 0 /\ i \in 1 .. n /\ m - 1 \in 0 .. n /\ i \in 0 .. m - 1
    OBVIOUS
  <2>2. /\ SumOf(lens, i - 1) \in Nat /\ lens[i] \in Nat
        /\ SumOf(lens, i) = SumOf(lens, i - 1) + lens[i]
    BY <2>1, LensAre, SumOfRises
  <2>3. SumOf(lens, i) <= SumOf(lens, m - 1)
    BY <2>1, LensAre, SumOfRises
  <2>4. lens[i] = Len(seqs[i])
    BY <2>1, LensAre
  <2>5. s[SumOf(lens, i - 1) + k] = seqs[i][k]
    BY DEF Flat
  <2> HIDE DEF lens
  <2>6. k \in 1 .. lens[i]
    BY <2>4
  <2>7. SumOf(lens, i - 1) + k \in 1 .. SumOf(lens, m - 1)
    BY <1>1, <2>2, <2>3, <2>6, Within
  <2>8. QED
    BY <1>3, <2>5, <2>7
<1> HIDE DEF lens, more
<1>5. /\ s \o more \in Seq(S) /\ Len(s \o more) = SumOf(lens, m)
      /\ \A i \in 1 .. Len(s) : (s \o more)[i] = s[i]
      /\ \A i \in 1 .. Len(more) : (s \o more)[Len(s) + i] = more[i]
  <2> DEFINE both == s \o more
  <2>1. /\ both \in Seq(S) /\ Len(both) = Len(s) + Len(more)
        /\ \A i \in 1 .. Len(s) + Len(more) :
             both[i] = IF i <= Len(s) THEN s[i] ELSE more[i - Len(s)]
    BY <1>2, <1>3, ConcatProperties
  <2>2. Len(s) \in Nat /\ Len(more) \in Nat
    BY <1>2, <1>3
  <2> HIDE DEF both
  <2>3. \A i \in 1 .. Len(s) : both[i] = s[i]
    BY <2>1, <2>2
  <2>4. ASSUME NEW i \in 1 .. Len(more)
        PROVE  both[Len(s) + i] = more[i]
    <3>1. Len(s) + i \in 1 .. Len(s) + Len(more) /\ ~(Len(s) + i <= Len(s))
            /\ Len(s) + i - Len(s) = i
      BY <2>2
    <3>2. QED
      BY <2>1, <3>1
  <2>5. Len(both) = SumOf(lens, m)
    BY <1>1, <1>2, <1>3, <2>1, <2>2
  <2>6. QED
    BY <2>1, <2>3, <2>4, <2>5 DEF both
<1>6. ASSUME NEW i \in 1 .. m, NEW k \in 1 .. Len(seqs[i])
      PROVE  (s \o more)[SumOf(lens, i - 1) + k] = seqs[i][k]
  <2>1. CASE i = m
    <3>1. seqs[i] = more /\ k \in 1 .. Len(more)
      BY <2>1 DEF more
    <3>2. SumOf(lens, i - 1) = Len(s)
      BY <1>3, <2>1
    <3>3. QED
      BY <1>5, <3>1, <3>2
  <2>2. CASE i # m
    <3>1. i \in 1 .. m - 1
      BY <2>2
    <3>2. QED
      BY <1>4, <1>5, <3>1
  <2>3. QED
    BY <2>1, <2>2
<1>7. QED
  BY <1>5, <1>6 DEF Flat, lens, more

Flattens(g, seqs, n) ==
  g = [i \in 1 .. n |-> IF i = 1 THEN seqs[i] ELSE g[i - 1] \o seqs[i]]

LEMMA FlattenSolved ==
  ASSUME NEW seqs, NEW n \in Nat
  PROVE  \E g : Flattens(g, seqs, n)
<1> DEFINE Bad == {m \in Nat : ~ \E g : Flattens(g, seqs, m)}
<1>1. ASSUME Bad # {}
      PROVE  FALSE
  <2> DEFINE m == Min(Bad)
  <2>1. m \in Nat /\ m \in Bad /\ \A k \in Bad : m <= k
    BY <1>1, MinIsLeast
  <2> HIDE DEF m
  <2>2. CASE m = 0
    <3> DEFINE g == [i \in 1 .. 0 |-> 0]
    <3>1. Flattens(g, seqs, 0)
      BY DEF Flattens
    <3> HIDE DEF g
    <3>2. QED
      BY <2>1, <2>2, <3>1
  <2>3. CASE m # 0
    <3>1. m - 1 \in Nat /\ m - 1 \notin Bad
      <4> HIDE DEF Bad
      <4>1. QED
        BY <2>1, <2>3
    <3>2. PICK g : Flattens(g, seqs, m - 1)
      BY <3>1
    <3> DEFINE h == [i \in 1 .. m |-> IF i = 1 THEN seqs[i] ELSE g[i - 1] \o seqs[i]]
    <3>3. ASSUME NEW i \in 1 .. m, i # 1
          PROVE  h[i - 1] = g[i - 1]
      <4>1. i - 1 \in 1 .. m - 1 /\ i - 1 \in 1 .. m
        BY <2>1, <3>3
      <4>2. QED
        BY <3>2, <4>1 DEF Flattens
    <3>4. Flattens(h, seqs, m)
      BY <3>3 DEF Flattens
    <3> HIDE DEF h
    <3>5. QED
      BY <2>1, <3>4
  <2>4. QED
    BY <2>2, <2>3
<1>2. QED
  BY <1>1

LEMMA FlattenIs ==
  ASSUME NEW seqs, NEW n \in Nat, NEW S, Listed(seqs, n, S)
  PROVE  Flat(FlattenSeq(seqs), seqs, n, S)
<1>1. CASE n = 0
  <2>1. FlattenSeq(seqs) = seqs
    BY <1>1 DEF FlattenSeq, Listed
  <2>2. seqs \in Seq(S) /\ Len(seqs) = 0
    <3>1. << >> \in Seq(S) /\ Len(<< >>) = 0
      OBVIOUS
    <3>2. QED
      BY <1>1 DEF Listed
  <2>3. QED
    BY <1>1, <2>1, <2>2, SumOfIs DEF Flat
<1>2. CASE n # 0
  <2> DEFINE g == CHOOSE f : Flattens(f, seqs, n)
  <2>1. FlattenSeq(seqs) = g[n]
    BY <1>2 DEF FlattenSeq, Listed, Flattens
  <2>2. Flattens(g, seqs, n)
    BY FlattenSolved
  <2> HIDE DEF g
  <2> DEFINE Bad == {m \in Nat : m \in 1 .. n /\ ~Flat(g[m], seqs, m, S)}
  <2>3. ASSUME Bad # {}
        PROVE  FALSE
    <3> DEFINE m == Min(Bad)
    <3>1. m \in Nat /\ m \in Bad /\ \A k \in Bad : m <= k
      BY <2>3, MinIsLeast
    <3> HIDE DEF m
    <3>2. m \in 1 .. n /\ ~Flat(g[m], seqs, m, S)
      BY <3>1
    <3>3. CASE m = 1
      <4>1. Flat(<< >>, seqs, 0, S)
        <5>1. << >> \in Seq(S) /\ Len(<< >>) = 0
          OBVIOUS
        <5>2. QED
          BY <5>1, SumOfIs DEF Flat
      <4>2. Flat(<< >> \o seqs[1], seqs, 1, S)
        <5>1. 1 \in 1 .. n /\ 1 - 1 = 0
          BY <3>2, <3>3
        <5>2. Flat(<< >>, seqs, 1 - 1, S)
          BY <4>1, <5>1
        <5>3. QED
          BY <5>1, <5>2, FlatMore
      <4>3. g[1] = seqs[1] /\ seqs[1] \in Seq(S)
        BY <2>2, <3>2, <3>3 DEF Flattens, Listed
      <4>4. << >> \o seqs[1] = seqs[1]
        BY <4>3
      <4>5. QED
        BY <3>2, <3>3, <4>2, <4>3, <4>4
    <3>4. CASE m # 1
      <4>1. m - 1 \in Nat /\ m - 1 \in 1 .. n /\ m - 1 \notin Bad
        <5> HIDE DEF Bad
        <5>1. QED
          BY <3>1, <3>2, <3>4
      <4>2. Flat(g[m - 1], seqs, m - 1, S)
        BY <4>1
      <4>3. Flat(g[m - 1] \o seqs[m], seqs, m, S)
        BY <3>2, <4>2, FlatMore
      <4>4. g[m] = g[m - 1] \o seqs[m]
        BY <2>2, <3>2, <3>4 DEF Flattens
      <4>5. QED
        BY <3>2, <4>3, <4>4
    <3>5. QED
      BY <3>3, <3>4
  <2>4. Flat(g[n], seqs, n, S)
    BY <1>2, <2>3
  <2>5. QED
    BY <2>1, <2>4
<1>3. QED
  BY <1>1, <1>2
-----------------------------------------------------------------------------
(* The satoshis that enter a transaction.                                      *)

Sats == Nat \X Nat
Minted(t) == [k \in 1 .. PaidOut(t) |-> <<t, k>>]
Parts(g, t) == [n \in DOMAIN TxOf[t].inputs |-> Part(g[TxOf[t].inputs[n][1]], TxOf[t].inputs[n])]
Enters(g, t) == IF IsCoinbase(t) THEN Minted(t) ELSE FlattenSeq(Parts(g, t))
EntersUpTo(g, m) == g = [t \in 1 .. m |-> Enters(g, t)]

LEMMA EntersSame ==
  ASSUME NEW t \in TxId, NEW g, NEW h, \A u \in TxId : u < t => g[u] = h[u]
  PROVE  Enters(g, t) = Enters(h, t)
<1>1. CASE IsCoinbase(t)
  BY <1>1 DEF Enters
<1>2. CASE ~IsCoinbase(t)
  <2>1. ASSUME NEW n \in DOMAIN TxOf[t].inputs
        PROVE  g[TxOf[t].inputs[n][1]] = h[TxOf[t].inputs[n][1]]
    BY <1>2, InputIs
  <2>2. Parts(g, t) = Parts(h, t)
    BY <2>1 DEF Parts
  <2>3. QED
    BY <1>2, <2>2 DEF Enters
<1>3. QED
  BY <1>1, <1>2

LEMMA EnteringUnfold ==
  ASSUME NEW t \in TxId
  PROVE  Entering[t] = Enters(Entering, t)
<1> DEFINE Bad == {m \in Nat : m <= Len(TxOf) /\ ~ \E g : EntersUpTo(g, m)}
<1>1. ASSUME Bad # {}
      PROVE  FALSE
  <2> DEFINE m == Min(Bad)
  <2>1. m \in Nat /\ m \in Bad /\ \A k \in Bad : m <= k
    BY <1>1, MinIsLeast
  <2>2. m <= Len(TxOf) /\ Len(TxOf) \in Nat /\ TxId = 1 .. Len(TxOf)
    BY <2>1, ChainIs
  <2> HIDE DEF m
  <2>3. CASE m = 0
    <3> DEFINE g == [u \in 1 .. 0 |-> {}]
    <3>1. EntersUpTo(g, 0)
      BY DEF EntersUpTo
    <3> HIDE DEF g
    <3>2. QED
      BY <2>1, <2>3, <3>1
  <2>4. CASE m # 0
    <3>1. m - 1 \in Nat /\ m - 1 \notin Bad /\ m - 1 <= Len(TxOf)
      <4> HIDE DEF Bad
      <4>1. QED
        BY <2>1, <2>2, <2>4
    <3>2. PICK g : EntersUpTo(g, m - 1)
      BY <3>1
    <3> DEFINE h == [u \in 1 .. m |-> Enters(g, u)]
    <3>3. ASSUME NEW u \in 1 .. m - 1
          PROVE  h[u] = g[u]
      <4>1. u \in 1 .. m
        BY <2>1
      <4>2. QED
        BY <3>2, <4>1 DEF EntersUpTo
    <3>4. ASSUME NEW u \in 1 .. m
          PROVE  Enters(h, u) = Enters(g, u)
      <4> HIDE DEF h
      <4>1. u \in TxId
        BY <2>1, <2>2
      <4>2. ASSUME NEW w \in TxId, w < u
            PROVE  h[w] = g[w]
        <5>1. w \in 1 .. m - 1
          BY <2>1, <2>2, <4>2
        <5>2. QED
          BY <3>3, <5>1
      <4>3. QED
        BY <4>1, <4>2, EntersSame
    <3>5. EntersUpTo(h, m)
      <4>1. h = [u \in 1 .. m |-> Enters(h, u)]
        BY <3>4
      <4>2. QED
        BY <4>1 DEF EntersUpTo
    <3> HIDE DEF h
    <3>6. QED
      BY <2>1, <3>5
  <2>5. QED
    BY <2>3, <2>4
<1>2. \E g : EntersUpTo(g, Len(TxOf))
  <2>1. Len(TxOf) \in Nat /\ Len(TxOf) \notin Bad
    <3> HIDE DEF Bad
    <3>1. QED
      BY <1>1, ChainIs
  <2>2. QED
    BY <2>1
<1>3. EntersUpTo(Entering, Len(TxOf))
  <2>1. TxId = 1 .. Len(TxOf)
    BY ChainIs
  <2> DEFINE g == CHOOSE h : EntersUpTo(h, Len(TxOf))
  <2>2. EntersUpTo(g, Len(TxOf))
    BY <1>2
  <2>3. Entering = g
    BY <2>1 DEF Entering, EntersUpTo, Enters, Minted, Parts, PaidOut, IsCoinbase
  <2> HIDE DEF g
  <2>4. QED
    BY <2>2, <2>3
<1>4. TxId = 1 .. Len(TxOf)
  BY ChainIs
<1>5. QED
  BY <1>3, <1>4 DEF EntersUpTo
\* Where an output begins among the satoshis of its transaction.
Begins(o) == OutputOffset(TxOf[o[1]], o[2])

LEMMA StretchIs ==
  ASSUME NEW o \in Outpoint
  PROVE  /\ Begins(o) \in Nat /\ Amount(o) \in Nat
         /\ Begins(o) = SumOf(TxOf[o[1]].outputs, o[2] - 1)
         /\ SumOf(TxOf[o[1]].outputs, o[2]) = Begins(o) + Amount(o)
         /\ PaidOut(o[1]) \in Nat /\ Incoming(o[1]) \in Nat
         /\ Begins(o) + Amount(o) <= PaidOut(o[1]) /\ PaidOut(o[1]) <= Incoming(o[1])
<1> DEFINE outputs == TxOf[o[1]].outputs
<1>1. o[1] \in TxId /\ o[2] \in 1 .. Len(outputs) /\ Len(outputs) \in Nat
      /\ Amounts(outputs, Len(outputs))
  BY OutpointIs, ChainIs
<1>2. o[2] \in 0 .. Len(outputs) /\ o[2] # 0 /\ Len(outputs) \in 0 .. Len(outputs)
      /\ o[2] \in 0 .. Len(outputs)
  BY <1>1
<1>3. /\ SumOf(outputs, o[2] - 1) \in Nat /\ outputs[o[2]] \in Nat
      /\ SumOf(outputs, o[2]) = SumOf(outputs, o[2] - 1) + outputs[o[2]]
  BY <1>1, <1>2, SumOfRises
<1>4. SumOf(outputs, Len(outputs)) \in Nat /\ SumOf(outputs, o[2]) <= SumOf(outputs, Len(outputs))
  BY <1>1, <1>2, SumOfRises
<1>5. Begins(o) = SumOf(outputs, o[2] - 1) /\ Amount(o) = outputs[o[2]]
      /\ PaidOut(o[1]) = SumOf(outputs, Len(outputs))
  BY DEF Begins, OutputOffset, Amount, PaidOut
<1>6. Incoming(o[1]) \in Nat /\ PaidOut(o[1]) <= Incoming(o[1])
  <2>1. CASE IsCoinbase(o[1])
    BY <1>4, <1>5, <2>1 DEF Incoming
  <2>2. CASE ~IsCoinbase(o[1])
    BY <1>1, <2>2, ValuesAre DEF Incoming
  <2>3. QED
    BY <2>1, <2>2
<1> HIDE DEF outputs
<1>7. QED
  BY <1>3, <1>4, <1>5, <1>6 DEF outputs

\* s is the part of a sequence that begins behind b and is a long.
Stretch(s, whole, b, a, S) ==
  /\ s \in Seq(S) /\ Len(s) = a
  /\ \A k \in 1 .. a : b + k \in 1 .. Len(whole) /\ s[k] = whole[b + k]

LEMMA StretchOf ==
  ASSUME NEW S, NEW whole \in Seq(S), NEW a \in Nat, NEW b \in Nat, b + a <= Len(whole)
  PROVE  Stretch(SubSeq(whole, b + 1, b + a), whole, b, a, S)
<1>1. \A i \in b + 1 .. b + a : whole[i] \in S
  OBVIOUS
<1>2. b + 1 \in Int /\ b + a \in Int
  OBVIOUS
<1> DEFINE s == SubSeq(whole, b + 1, b + a)
<1>3. /\ s \in Seq(S) /\ Len(s) = IF b + 1 <= b + a THEN b + a - (b + 1) + 1 ELSE 0
      /\ \A i \in 1 .. b + a - (b + 1) + 1 : s[i] = whole[b + 1 + i - 1]
  BY <1>1, <1>2, SubSeqProperties
<1> HIDE DEF s
<1>4. Len(s) = a
  BY <1>3
<1>5. ASSUME NEW k \in 1 .. a
      PROVE  b + k \in 1 .. Len(whole) /\ s[k] = whole[b + k]
  <2>1. k \in 1 .. b + a - (b + 1) + 1 /\ b + 1 + k - 1 = b + k
    OBVIOUS
  <2>2. s[k] = whole[b + k]
    BY <1>3, <2>1
  <2>3. Len(whole) \in Nat
    OBVIOUS
  <2>4. b + k \in 1 .. Len(whole)
    BY <2>3, Within
  <2>5. QED
    BY <2>2, <2>4
<1>6. QED
  BY <1>3, <1>4, <1>5 DEF s, Stretch

LEMMA PartIs ==
  ASSUME NEW o \in Outpoint, NEW s \in Seq(Sats), Len(s) = Incoming(o[1])
  PROVE  Stretch(Part(s, o), s, Begins(o), Amount(o), Sats)
<1>1. Begins(o) \in Nat /\ Amount(o) \in Nat /\ Begins(o) + Amount(o) <= Len(s)
  BY StretchIs
<1>2. Part(s, o) = SubSeq(s, Begins(o) + 1, Begins(o) + Amount(o))
  BY DEF Part, Begins, Amount
<1>3. QED
  BY <1>1, <1>2, StretchOf

\* What enters a transaction fills it.
Filled(t) == Entering[t] \in Seq(Sats) /\ Len(Entering[t]) = Incoming(t)

\* In a transaction that is no coinbase, what enters is what its inputs spend.
LEMMA EntersIs ==
  ASSUME NEW t \in TxId, ~IsCoinbase(t), \A u \in TxId : u < t => Filled(u)
  PROVE  /\ Listed(Parts(Entering, t), Len(TxOf[t].inputs), Sats)
         /\ LensOf(Parts(Entering, t)) = InValues(t)
         /\ Flat(Entering[t], Parts(Entering, t), Len(TxOf[t].inputs), Sats)
<1> DEFINE parts == Parts(Entering, t)
           n == Len(TxOf[t].inputs)
<1>1. n \in Nat /\ DOMAIN TxOf[t].inputs = 1 .. n
  BY ChainIs
<1>2. ASSUME NEW i \in 1 .. n
      PROVE  parts[i] \in Seq(Sats) /\ Len(parts[i]) = Amount(TxOf[t].inputs[i])
  <2> DEFINE o == TxOf[t].inputs[i]
  <2>1. o \in Outpoint /\ o[1] \in TxId /\ o[1] < t
    BY <1>1, InputIs
  <2>2. Stretch(Part(Entering[o[1]], o), Entering[o[1]], Begins(o), Amount(o), Sats)
    <3> HIDE DEF o
    <3>1. QED
      BY <2>1, PartIs DEF Filled
  <2>3. parts[i] = Part(Entering[o[1]], o)
    BY <1>1 DEF Parts
  <2>4. QED
    BY <2>2, <2>3 DEF Stretch
<1>3. DOMAIN parts = 1 .. n
  BY <1>1 DEF Parts
<1>4. Len(parts) = n
  BY <1>1 DEF Parts
<1> HIDE DEF parts
<1>5. Listed(parts, n, Sats)
  BY <1>2, <1>3, <1>4 DEF Listed
<1>6. LensOf(parts) = InValues(t)
  BY <1>1, <1>2, <1>3 DEF LensOf, InValues
<1>7. Entering[t] = FlattenSeq(parts)
  BY EnteringUnfold DEF Enters, parts
<1>8. QED
  BY <1>1, <1>5, <1>6, <1>7, FlattenIs DEF parts

LEMMA AllFilled ==
  ASSUME NEW t \in TxId
  PROVE  Filled(t)
<1> DEFINE Bad == {m \in Nat : m \in TxId /\ ~Filled(m)}
<1>1. ASSUME Bad # {}
      PROVE  FALSE
  <2> DEFINE m == Min(Bad)
  <2>1. m \in Nat /\ m \in Bad /\ \A k \in Bad : m <= k
    BY <1>1, MinIsLeast
  <2> HIDE DEF m
  <2>2. m \in TxId /\ ~Filled(m)
    BY <2>1
  <2>3. ASSUME NEW u \in TxId, u < m
        PROVE  Filled(u)
    <3>1. u \in Nat /\ ~(m <= u)
      BY <2>1, <2>3, ChainIs
    <3>2. u \notin Bad
      <4> HIDE DEF Bad
      <4>1. QED
        BY <2>1, <3>1
    <3>3. QED
      BY <3>1, <3>2
  <2>4. CASE IsCoinbase(m)
    <3>1. Entering[m] = Minted(m)
      BY <2>2, <2>4, EnteringUnfold DEF Enters
    <3>2. PaidOut(m) \in Nat /\ Incoming(m) = PaidOut(m)
      BY <2>2, <2>4, ChainIs, SumOfAll DEF PaidOut, Incoming
    <3>3. Minted(m) \in Seq(Sats) /\ Len(Minted(m)) = PaidOut(m)
      BY <2>1, <3>2 DEF Minted, Sats
    <3>4. QED
      BY <2>2, <3>1, <3>2, <3>3 DEF Filled
  <2>5. CASE ~IsCoinbase(m)
    <3>1. /\ LensOf(Parts(Entering, m)) = InValues(m)
          /\ Flat(Entering[m], Parts(Entering, m), Len(TxOf[m].inputs), Sats)
      BY <2>2, <2>3, <2>5, EntersIs
    <3>2. Incoming(m) = PaidIn(m)
      BY <2>5 DEF Incoming
    <3>3. Filled(m)
      BY <3>1, <3>2 DEF Filled, Flat, PaidIn
    <3>4. QED
      BY <2>2, <3>3
  <2>6. QED
    BY <2>4, <2>5
<1>2. t \in Nat
  BY ChainIs
<1>3. QED
  BY <1>1, <1>2
-----------------------------------------------------------------------------
(* Where a satoshi is.                                                         *)

\* o has the satoshi s in place k.
HoldsAt(o, k, s) == k \in 1 .. Amount(o) /\ Satoshis[o][k] = s

LEMMA SatoshisAre ==
  ASSUME NEW o \in Outpoint
  PROVE  /\ Stretch(Satoshis[o], Entering[o[1]], Begins(o), Amount(o), Sats)
         /\ Alone(o) <=> Amount(o) = 1
         /\ \A s : Holds(o, s) <=> \E k \in 1 .. Amount(o) : HoldsAt(o, k, s)
<1>1. o[1] \in TxId
  BY OutpointIs
<1>2. Satoshis[o] = Part(Entering[o[1]], o)
  BY DEF Satoshis
<1>3. Stretch(Satoshis[o], Entering[o[1]], Begins(o), Amount(o), Sats)
  BY <1>1, <1>2, AllFilled, PartIs DEF Filled
<1>4. Satoshis[o] \in Seq(Sats) /\ Len(Satoshis[o]) = Amount(o)
  BY <1>3 DEF Stretch
<1>5. Alone(o) <=> Amount(o) = 1
  BY <1>4 DEF Alone
<1>6. DOMAIN Satoshis[o] = 1 .. Amount(o)
  BY <1>4
<1>7. ASSUME NEW s
      PROVE  Holds(o, s) <=> \E k \in 1 .. Amount(o) : HoldsAt(o, k, s)
  BY <1>6 DEF Holds, ToSet, HoldsAt
<1>8. QED
  BY <1>3, <1>5, <1>7

\* What an outpoint has in a place entered its transaction, at one place there.
LEMMA HoldsEntered ==
  ASSUME NEW o \in Outpoint, NEW k, NEW s, HoldsAt(o, k, s)
  PROVE  /\ k \in Nat /\ s \in Sats
         /\ Begins(o) + k \in 1 .. Incoming(o[1])
         /\ Entering[o[1]][Begins(o) + k] = s
<1>1. Stretch(Satoshis[o], Entering[o[1]], Begins(o), Amount(o), Sats)
  BY SatoshisAre
<1>2. k \in 1 .. Amount(o) /\ Satoshis[o][k] = s
  BY DEF HoldsAt
<1>3. o[1] \in TxId
  BY OutpointIs
<1>4. Len(Entering[o[1]]) = Incoming(o[1])
  BY <1>3, AllFilled DEF Filled
<1>5. Satoshis[o][k] \in Sats
  BY <1>1, <1>2 DEF Stretch
<1>6. QED
  BY <1>1, <1>2, <1>4, <1>5 DEF Stretch

\* What an input spends enters, at its place among the inputs.
LEMMA EntryOf ==
  ASSUME NEW t \in TxId, ~IsCoinbase(t), NEW i \in DOMAIN TxOf[t].inputs,
         NEW k, NEW s, HoldsAt(TxOf[t].inputs[i], k, s)
  PROVE  /\ SumOf(InValues(t), i - 1) \in Nat
         /\ SumOf(InValues(t), i - 1) + k \in 1 .. Incoming(t)
         /\ Entering[t][SumOf(InValues(t), i - 1) + k] = s
<1> DEFINE n == Len(TxOf[t].inputs)
           a == InValues(t)
           o == TxOf[t].inputs[i]
<1>1. /\ n \in Nat /\ DOMAIN TxOf[t].inputs = 1 .. n /\ i \in 1 .. n
      /\ Amounts(a, n) /\ a[i] = Amount(o) /\ PaidIn(t) = SumOf(a, n)
      /\ Incoming(t) = PaidIn(t)
  BY ValuesAre DEF PaidIn, Incoming
<1>2. o \in Outpoint /\ o[1] \in TxId
  BY InputIs
<1>3. i \in 0 .. n /\ i # 0 /\ n \in 0 .. n /\ i \in 0 .. n
  BY <1>1
<1>4. SumOf(a, i - 1) \in Nat /\ SumOf(a, i) = SumOf(a, i - 1) + a[i] /\ a[i] \in Nat
  BY <1>1, <1>3, SumOfRises
<1>5. SumOf(a, n) \in Nat /\ SumOf(a, i) <= SumOf(a, n)
  BY <1>1, <1>3, SumOfRises
<1>6. k \in 1 .. a[i]
  BY <1>1 DEF HoldsAt
<1>7. SumOf(a, i - 1) + k \in 1 .. SumOf(a, n)
  BY <1>4, <1>5, <1>6, Within
<1>8. LensOf(Parts(Entering, t)) = a /\ Flat(Entering[t], Parts(Entering, t), n, Sats)
      /\ Listed(Parts(Entering, t), n, Sats)
  BY AllFilled, EntersIs
<1>9. Parts(Entering, t)[i] = Satoshis[o]
  <2>1. Parts(Entering, t)[i] = Part(Entering[o[1]], o)
    BY DEF Parts
  <2>2. Satoshis[o] = Part(Entering[o[1]], o)
    BY <1>2 DEF Satoshis
  <2>3. QED
    BY <2>1, <2>2
<1>10. Len(Parts(Entering, t)[i]) = a[i]
  BY <1>1, <1>8, LensAre
<1>11. Entering[t][SumOf(a, i - 1) + k] = Parts(Entering, t)[i][k]
  BY <1>1, <1>6, <1>8, <1>10 DEF Flat
<1>12. Satoshis[o][k] = s
  BY DEF HoldsAt
<1> HIDE DEF a, o
<1>13. Entering[t][SumOf(a, i - 1) + k] = s
  BY <1>9, <1>11, <1>12
<1>14. QED
  BY <1>1, <1>4, <1>7, <1>13 DEF a

\* What enters was minted here, or is what some input spends.
LEMMA EntryIs ==
  ASSUME NEW t \in TxId, NEW x \in 1 .. Incoming(t)
  PROVE  /\ IsCoinbase(t) => Entering[t][x] = <<t, x>>
         /\ ~IsCoinbase(t) =>
              \E i \in DOMAIN TxOf[t].inputs :
                \E k \in Nat : /\ x = SumOf(InValues(t), i - 1) + k
                               /\ HoldsAt(TxOf[t].inputs[i], k, Entering[t][x])
<1>1. ASSUME IsCoinbase(t)
      PROVE  Entering[t][x] = <<t, x>>
  <2>1. Entering[t] = Minted(t) /\ Incoming(t) = PaidOut(t)
    BY <1>1, EnteringUnfold DEF Enters, Incoming
  <2>2. QED
    BY <2>1 DEF Minted
<1>2. ASSUME ~IsCoinbase(t)
      PROVE  \E i \in DOMAIN TxOf[t].inputs :
               \E k \in Nat : /\ x = SumOf(InValues(t), i - 1) + k
                              /\ HoldsAt(TxOf[t].inputs[i], k, Entering[t][x])
  <2> DEFINE n == Len(TxOf[t].inputs)
             a == InValues(t)
             h == Holder(a, x - 1)
  <2>1. /\ n \in Nat /\ DOMAIN TxOf[t].inputs = 1 .. n /\ DOMAIN a = 1 .. n
        /\ Amounts(a, n) /\ PaidIn(t) = SumOf(a, n) /\ Incoming(t) = PaidIn(t)
        /\ PaidIn(t) \in Nat
        /\ \A i \in 1 .. n : a[i] = Amount(TxOf[t].inputs[i])
    BY <1>2, ValuesAre DEF PaidIn, Incoming
  <2>2. x - 1 \in Nat /\ ~(SumOf(a, n) <= x - 1)
    BY <2>1
  <2>3. h \in 1 .. n /\ SumOf(a, h - 1) <= x - 1 /\ x - 1 < SumOf(a, h)
    BY <2>1, <2>2, HolderIs
  <2> HIDE DEF h
  <2>4. SumOf(a, h - 1) \in Nat /\ SumOf(a, h) = SumOf(a, h - 1) + a[h] /\ a[h] \in Nat
    <3>1. h \in 0 .. n /\ h # 0
      BY <2>1, <2>3
    <3>2. QED
      BY <2>1, <3>1, SumOfRises
  <2> DEFINE k == x - SumOf(a, h - 1)
  <2>5. k \in 1 .. a[h] /\ x = SumOf(a, h - 1) + k
    <3> DEFINE b == SumOf(a, h - 1)
               c == SumOf(a, h)
    <3>1. b \in Nat /\ a[h] \in Nat /\ c = b + a[h] /\ b <= x - 1 /\ x - 1 < c
      BY <2>3, <2>4
    <3>2. x \in Nat
      BY <2>2
    <3> HIDE DEF a, b, c
    <3>3. QED
      BY <3>1, <3>2 DEF b
  <2> HIDE DEF k
  <2>6. HoldsAt(TxOf[t].inputs[h], k, Satoshis[TxOf[t].inputs[h]][k])
    BY <2>1, <2>3, <2>5 DEF HoldsAt
  <2>7. Entering[t][SumOf(a, h - 1) + k] = Satoshis[TxOf[t].inputs[h]][k]
    <3> DEFINE s == Satoshis[TxOf[t].inputs[h]][k]
    <3>1. h \in DOMAIN TxOf[t].inputs /\ HoldsAt(TxOf[t].inputs[h], k, s)
      BY <2>1, <2>3, <2>6
    <3> HIDE DEF s
    <3>2. Entering[t][SumOf(InValues(t), h - 1) + k] = s
      BY <1>2, <3>1, EntryOf
    <3>3. QED
      BY <3>2 DEF s
  <2>8. HoldsAt(TxOf[t].inputs[h], k, Entering[t][x]) /\ k \in Nat
    BY <2>5, <2>6, <2>7
  <2>9. QED
    BY <2>1, <2>3, <2>5, <2>8
<1>3. QED
  BY <1>1, <1>2
-----------------------------------------------------------------------------
(* A satoshi is nowhere twice.                                                 *)

\* Created by one of the first T transactions, and spent by none of them.
Live(o, T) == o[1] <= T /\ \A u \in TxId : Spends(u, o) => T < u

\* What two of those have is not the same.
Distinct(T) ==
  \A p \in Outpoint, q \in Outpoint : \A k \in Nat, l \in Nat, s \in Sats :
    Live(p, T) /\ Live(q, T) /\ HoldsAt(p, k, s) /\ HoldsAt(q, l, s) => p = q /\ k = l
Injective(t) ==
  \A x \in 1 .. Incoming(t), y \in 1 .. Incoming(t) :
    Entering[t][x] = Entering[t][y] => x = y

LEMMA InputLive ==
  ASSUME NEW t \in TxId, ~IsCoinbase(t), NEW i \in DOMAIN TxOf[t].inputs
  PROVE  Live(TxOf[t].inputs[i], t - 1) /\ Spends(t, TxOf[t].inputs[i])
<1> DEFINE o == TxOf[t].inputs[i]
<1>1. t \in Nat /\ o \in Outpoint /\ o[1] \in Nat /\ o[1] < t
  BY InputIs, ChainIs
<1>2. Spends(t, o)
  BY SpendsIs
<1> HIDE DEF o
<1>3. ASSUME NEW u \in TxId, Spends(u, o)
      PROVE  t - 1 < u
  BY <1>1, <1>2, <1>3, SpentOnce
<1>4. QED
  BY <1>1, <1>2, <1>3 DEF Live, o

LEMMA InjectiveStep ==
  ASSUME NEW t \in TxId, Distinct(t - 1)
  PROVE  Injective(t)
<1>1. ASSUME NEW x \in 1 .. Incoming(t), NEW y \in 1 .. Incoming(t),
             Entering[t][x] = Entering[t][y], IsCoinbase(t)
      PROVE  x = y
  <2>1. Entering[t][x] = <<t, x>> /\ Entering[t][y] = <<t, y>>
    BY <1>1, EntryIs
  <2>2. <<t, x>> = <<t, y>>
    BY <1>1, <2>1
  <2>3. <<t, x>>[2] = x /\ <<t, y>>[2] = y
    OBVIOUS
  <2>4. QED
    BY <2>2, <2>3
<1>2. ASSUME NEW x \in 1 .. Incoming(t), NEW y \in 1 .. Incoming(t),
             Entering[t][x] = Entering[t][y], ~IsCoinbase(t)
      PROVE  x = y
  <2> DEFINE s == Entering[t][x]
  <2>1. PICK i \in DOMAIN TxOf[t].inputs :
          \E k \in Nat : x = SumOf(InValues(t), i - 1) + k /\ HoldsAt(TxOf[t].inputs[i], k, s)
    BY <1>2, EntryIs
  <2>2. PICK k \in Nat : x = SumOf(InValues(t), i - 1) + k /\ HoldsAt(TxOf[t].inputs[i], k, s)
    BY <2>1
  <2>3. PICK j \in DOMAIN TxOf[t].inputs :
          \E l \in Nat : y = SumOf(InValues(t), j - 1) + l /\ HoldsAt(TxOf[t].inputs[j], l, s)
    BY <1>2, EntryIs
  <2>4. PICK l \in Nat : y = SumOf(InValues(t), j - 1) + l /\ HoldsAt(TxOf[t].inputs[j], l, s)
    BY <2>3
  <2> HIDE DEF s
  <2> DEFINE p == TxOf[t].inputs[i]
             q == TxOf[t].inputs[j]
  <2>5. p \in Outpoint /\ q \in Outpoint
    BY <1>2, InputIs
  <2>6. Live(p, t - 1) /\ Live(q, t - 1)
    BY <1>2, InputLive
  <2>7. HoldsAt(p, k, s) /\ HoldsAt(q, l, s)
    BY <2>2, <2>4
  <2> HIDE DEF p, q
  <2>8. s \in Sats
    BY <2>5, <2>7, HoldsEntered
  <2>9. p = q /\ k = l
    BY <2>5, <2>6, <2>7, <2>8 DEF Distinct
  <2>10. i = j
    BY <1>2, <2>9, InputIs DEF p, q
  <2>11. QED
    BY <2>2, <2>4, <2>9, <2>10
<1>3. QED
  BY <1>1, <1>2 DEF Injective

\* A satoshi was minted no later than where it is.
NamesPast(t) == \A x \in 1 .. Incoming(t) : Entering[t][x][1] \in Nat /\ Entering[t][x][1] <= t

LEMMA AllNamesPast ==
  ASSUME NEW t \in TxId
  PROVE  NamesPast(t)
<1> DEFINE Bad == {m \in Nat : m \in TxId /\ ~NamesPast(m)}
<1>1. ASSUME Bad # {}
      PROVE  FALSE
  <2> DEFINE m == Min(Bad)
  <2>1. m \in Nat /\ m \in Bad /\ \A k \in Bad : m <= k
    BY <1>1, MinIsLeast
  <2> HIDE DEF m
  <2>2. m \in TxId /\ ~NamesPast(m)
    BY <2>1
  <2>3. ASSUME NEW u \in TxId, u < m
        PROVE  NamesPast(u)
    <3>1. u \in Nat /\ ~(m <= u)
      BY <2>1, <2>3, ChainIs
    <3>2. u \notin Bad
      <4> HIDE DEF Bad
      <4>1. QED
        BY <2>1, <3>1
    <3>3. QED
      BY <3>1, <3>2
  <2>4. ASSUME NEW x \in 1 .. Incoming(m)
        PROVE  Entering[m][x][1] \in Nat /\ Entering[m][x][1] <= m
    <3>1. CASE IsCoinbase(m)
      <4>1. Entering[m][x] = <<m, x>>
        BY <2>2, <3>1, EntryIs
      <4>2. QED
        BY <2>1, <4>1
    <3>2. CASE ~IsCoinbase(m)
      <4> DEFINE s == Entering[m][x]
      <4>1. PICK i \in DOMAIN TxOf[m].inputs : \E k \in Nat : HoldsAt(TxOf[m].inputs[i], k, s)
        BY <2>2, <3>2, EntryIs
      <4>2. PICK k \in Nat : HoldsAt(TxOf[m].inputs[i], k, s)
        BY <4>1
      <4> DEFINE o == TxOf[m].inputs[i]
      <4>3. o \in Outpoint /\ o[1] \in TxId /\ o[1] \in Nat /\ o[1] < m
        BY <2>2, <3>2, InputIs
      <4>4. HoldsAt(o, k, s)
        BY <4>2
      <4> HIDE DEF s, o
      <4>5. Begins(o) + k \in 1 .. Incoming(o[1]) /\ Entering[o[1]][Begins(o) + k] = s
        BY <4>3, <4>4, HoldsEntered
      <4>6. s[1] \in Nat /\ s[1] <= o[1]
        BY <2>3, <4>3, <4>5 DEF NamesPast
      <4>7. QED
        BY <2>1, <4>3, <4>6 DEF s
    <3>3. QED
      BY <3>1, <3>2
  <2>5. QED
    BY <2>2, <2>4 DEF NamesPast
<1>2. t \in Nat
  BY ChainIs
<1>3. QED
  BY <1>1, <1>2

LEMMA HeldSince ==
  ASSUME NEW o \in Outpoint, NEW k, NEW s, HoldsAt(o, k, s)
  PROVE  s[1] \in Nat /\ s[1] <= o[1]
<1>1. Begins(o) + k \in 1 .. Incoming(o[1]) /\ Entering[o[1]][Begins(o) + k] = s
  BY HoldsEntered
<1>2. o[1] \in TxId
  BY OutpointIs
<1>3. QED
  BY <1>1, <1>2, AllNamesPast DEF NamesPast

\* One place in one output has what enters at one place.
LEMMA OnePlace ==
  ASSUME NEW p \in Outpoint, NEW q \in Outpoint, p[1] = q[1],
         NEW k, NEW l, NEW s, HoldsAt(p, k, s), HoldsAt(q, l, s), Injective(p[1])
  PROVE  p = q /\ k = l
<1> DEFINE t == p[1]
           outputs == TxOf[t].outputs
           n == Len(outputs)
<1>1. t \in TxId /\ p[2] \in 1 .. n /\ q[2] \in 1 .. n /\ n \in Nat
      /\ Amounts(outputs, n) /\ p = <<p[1], p[2]>> /\ q = <<q[1], q[2]>>
  BY OutpointIs, ChainIs
<1>2. /\ Begins(p) + k \in 1 .. Incoming(t) /\ Begins(q) + l \in 1 .. Incoming(t)
      /\ Entering[t][Begins(p) + k] = s /\ Entering[t][Begins(q) + l] = s
      /\ k \in Nat /\ l \in Nat
  BY HoldsEntered
<1>3. Begins(p) + k = Begins(q) + l
  BY <1>2 DEF Injective
<1>4. k \in 1 .. Amount(p) /\ l \in 1 .. Amount(q)
  BY DEF HoldsAt
<1>5. /\ Begins(p) \in Nat /\ Amount(p) \in Nat /\ Begins(p) = SumOf(outputs, p[2] - 1)
      /\ SumOf(outputs, p[2]) = Begins(p) + Amount(p)
  BY StretchIs
<1>6. /\ Begins(q) \in Nat /\ Amount(q) \in Nat /\ Begins(q) = SumOf(outputs, q[2] - 1)
      /\ SumOf(outputs, q[2]) = Begins(q) + Amount(q)
  BY StretchIs
<1> DEFINE place == Begins(p) + k - 1
<1>7. place \in Nat /\ Begins(p) <= place /\ place < Begins(p) + Amount(p)
      /\ Begins(q) <= place /\ place < Begins(q) + Amount(q)
  BY <1>3, <1>4, <1>5, <1>6
<1> HIDE DEF t, outputs, place
<1>8. p[2] = q[2]
  BY <1>1, <1>5, <1>6, <1>7, OneStretch
<1>9. p = q
  BY <1>1, <1>8
<1>10. QED
  BY <1>2, <1>3, <1>6, <1>9
\* What a transaction puts out is not elsewhere once it has spent its inputs.
LEMMA NewAndOld ==
  ASSUME NEW t \in TxId, Distinct(t - 1),
         NEW p \in Outpoint, p[1] = t, NEW q \in Outpoint, Live(q, t), q[1] # t,
         NEW k, NEW l, NEW s, HoldsAt(p, k, s), HoldsAt(q, l, s)
  PROVE  FALSE
<1>1. /\ Begins(p) + k \in 1 .. Incoming(t) /\ Entering[t][Begins(p) + k] = s
      /\ s \in Sats /\ l \in Nat
  BY HoldsEntered
<1>2. t \in Nat /\ q[1] \in Nat /\ q[1] < t
  BY OutpointIs, ChainIs DEF Live
<1>3. CASE IsCoinbase(t)
  <2>1. s = <<t, Begins(p) + k>>
    BY <1>1, <1>3, EntryIs
  <2>2. s[1] = t
    BY <2>1
  <2>3. s[1] <= q[1]
    BY HeldSince
  <2>4. QED
    BY <1>2, <2>2, <2>3
<1>4. CASE ~IsCoinbase(t)
  <2>1. PICK i \in DOMAIN TxOf[t].inputs : \E j \in Nat : HoldsAt(TxOf[t].inputs[i], j, s)
    BY <1>1, <1>4, EntryIs
  <2>2. PICK j \in Nat : HoldsAt(TxOf[t].inputs[i], j, s)
    BY <2>1
  <2> DEFINE o == TxOf[t].inputs[i]
  <2>3. o \in Outpoint /\ Live(o, t - 1) /\ Spends(t, o) /\ HoldsAt(o, j, s)
    BY <1>4, <2>2, InputIs, InputLive
  <2> HIDE DEF o
  <2>4. Live(q, t - 1)
    <3>1. ASSUME NEW u \in TxId, Spends(u, q)
          PROVE  t - 1 < u
      BY <1>2, <3>1, ChainIs DEF Live
    <3>2. QED
      BY <1>2, <3>1 DEF Live
  <2>5. o = q
    BY <1>1, <2>3, <2>4 DEF Distinct
  <2>6. QED
    BY <1>2, <2>3, <2>5 DEF Live
<1>5. QED
  BY <1>3, <1>4

LEMMA DistinctStep ==
  ASSUME NEW t \in TxId, Distinct(t - 1)
  PROVE  Distinct(t)
<1>1. Injective(t)
  BY InjectiveStep
<1>2. ASSUME NEW p \in Outpoint, NEW q \in Outpoint, NEW k \in Nat, NEW l \in Nat,
             NEW s \in Sats, Live(p, t), Live(q, t), HoldsAt(p, k, s), HoldsAt(q, l, s)
      PROVE  p = q /\ k = l
  <2>1. CASE p[1] = t /\ q[1] = t
    BY <1>1, <1>2, <2>1, OnePlace
  <2>2. CASE p[1] = t /\ q[1] # t
    BY <1>2, <2>2, NewAndOld
  <2>3. CASE p[1] # t /\ q[1] = t
    BY <1>2, <2>3, NewAndOld
  <2>4. CASE p[1] # t /\ q[1] # t
    <3>1. t \in Nat /\ p[1] \in Nat /\ q[1] \in Nat
      BY OutpointIs, ChainIs
    <3>2. ASSUME NEW o \in Outpoint, Live(o, t), o[1] # t, o[1] \in Nat
          PROVE  Live(o, t - 1)
      <4>1. ASSUME NEW u \in TxId, Spends(u, o)
            PROVE  t - 1 < u
        BY <3>1, <3>2, <4>1, ChainIs DEF Live
      <4>2. QED
        BY <3>1, <3>2, <4>1 DEF Live
    <3>3. Live(p, t - 1) /\ Live(q, t - 1)
      BY <1>2, <2>4, <3>1, <3>2
    <3>4. QED
      BY <1>2, <3>3 DEF Distinct
  <2>5. QED
    BY <2>1, <2>2, <2>3, <2>4
<1>3. QED
  BY <1>2 DEF Distinct

LEMMA AllDistinct ==
  ASSUME NEW t \in TxId
  PROVE  Distinct(t) /\ Injective(t)
<1> DEFINE Bad == {m \in Nat : m <= Len(TxOf) /\ ~Distinct(m)}
<1>1. ASSUME Bad # {}
      PROVE  FALSE
  <2> DEFINE m == Min(Bad)
  <2>1. m \in Nat /\ m \in Bad /\ \A k \in Bad : m <= k
    BY <1>1, MinIsLeast
  <2> HIDE DEF m
  <2>2. m <= Len(TxOf) /\ ~Distinct(m) /\ Len(TxOf) \in Nat /\ TxId = 1 .. Len(TxOf)
    BY <2>1, ChainIs
  <2>3. m # 0
    <3>1. ASSUME NEW o \in Outpoint, Live(o, 0)
          PROVE  FALSE
      <4>1. o[1] \in TxId
        BY OutpointIs
      <4>2. QED
        BY <2>2, <3>1, <4>1 DEF Live
    <3>2. Distinct(0)
      BY <3>1 DEF Distinct
    <3>3. QED
      BY <2>2, <3>2
  <2>4. m - 1 \in Nat /\ m - 1 \notin Bad /\ m - 1 <= Len(TxOf) /\ m \in TxId
    <3> HIDE DEF Bad
    <3>1. QED
      BY <2>1, <2>2, <2>3
  <2>5. Distinct(m - 1)
    BY <2>4
  <2>6. QED
    BY <2>2, <2>4, <2>5, DistinctStep
<1>2. t \in Nat /\ t <= Len(TxOf) /\ t - 1 \in Nat /\ t - 1 <= Len(TxOf)
  BY ChainIs
<1>3. Distinct(t) /\ Distinct(t - 1)
  BY <1>1, <1>2
<1>4. QED
  BY <1>3, InjectiveStep

-----------------------------------------------------------------------------
(* The way of a satoshi from output to output.                                 *)

Keeps(o, s) == o \in Outpoint /\ \E k \in Nat : HoldsAt(o, k, s)

\* An output lives when it is made.
LEMMA LivesWhenMade ==
  ASSUME NEW o \in Outpoint
  PROVE  Live(o, o[1])
<1>1. o[1] \in Nat
  BY OutpointIs
<1>2. QED
  BY <1>1, SpentOnce DEF Live

\* Only one output of a transaction has a satoshi, in one place.
LEMMA OneOfTx ==
  ASSUME NEW p, NEW q, NEW s, Keeps(p, s), Keeps(q, s), p[1] = q[1]
  PROVE  p = q
<1>1. p \in Outpoint /\ q \in Outpoint /\ p[1] \in TxId
  BY OutpointIs DEF Keeps
<1>2. PICK k \in Nat : HoldsAt(p, k, s)
  BY DEF Keeps
<1>3. PICK l \in Nat : HoldsAt(q, l, s)
  BY DEF Keeps
<1>4. QED
  BY <1>1, <1>2, <1>3, AllDistinct, OnePlace

\* Before an output that has a satoshi it spends, a transaction's input is where
\* the satoshi last was.
LEMMA CameFrom ==
  ASSUME NEW t \in TxId, NEW p \in Outpoint, NEW s, Spends(t, p), Keeps(p, s),
         NEW q, Keeps(q, s), q[1] < t
  PROVE  q = p \/ q[1] < p[1]
<1>1. SUFFICES ASSUME ~(q[1] < p[1])
               PROVE  q = p
  OBVIOUS
<1>2. PICK k \in Nat : HoldsAt(p, k, s)
  BY DEF Keeps
<1>3. PICK l \in Nat : HoldsAt(q, l, s)
  BY DEF Keeps
<1>4. q \in Outpoint /\ q[1] \in TxId /\ q[1] \in Nat /\ p[1] \in Nat /\ t \in Nat
  BY OutpointIs, ChainIs DEF Keeps
<1>5. Live(q, q[1])
  BY <1>4, LivesWhenMade
<1>6. Live(p, q[1])
  <2>1. ASSUME NEW u \in TxId, Spends(u, p)
        PROVE  q[1] < u
    BY <2>1, SpentOnce
  <2>2. QED
    BY <1>1, <1>4, <2>1 DEF Live
<1>7. s \in Sats
  BY <1>2, HoldsEntered
<1>8. QED
  BY <1>2, <1>3, <1>4, <1>5, <1>6, <1>7, AllDistinct DEF Distinct

\* An output's satoshi was minted there, or is spent there from an earlier one.
LEMMA CameIn ==
  ASSUME NEW q, NEW s, Keeps(q, s)
  PROVE  \/ s[1] = q[1]
         \/ \E p \in Outpoint : Spends(q[1], p) /\ Keeps(p, s) /\ p[1] < q[1]
<1>1. q \in Outpoint /\ q[1] \in TxId
  BY OutpointIs DEF Keeps
<1>2. PICK k \in Nat : HoldsAt(q, k, s)
  BY DEF Keeps
<1> DEFINE t == q[1]
           x == Begins(q) + k
<1>3. x \in 1 .. Incoming(t) /\ Entering[t][x] = s
  BY <1>1, <1>2, HoldsEntered
<1> HIDE DEF x
<1>4. CASE IsCoinbase(t)
  BY <1>1, <1>3, <1>4, EntryIs
<1>5. CASE ~IsCoinbase(t)
  <2>1. PICK i \in DOMAIN TxOf[t].inputs : \E j \in Nat : HoldsAt(TxOf[t].inputs[i], j, s)
    BY <1>1, <1>3, <1>5, EntryIs
  <2> DEFINE p == TxOf[t].inputs[i]
  <2>2. p \in Outpoint /\ p[1] < t /\ Spends(t, p)
    BY <1>1, <1>5, InputIs, InputLive
  <2>3. Keeps(p, s)
    BY <2>1, <2>2 DEF Keeps
  <2> HIDE DEF p
  <2>4. QED
    BY <2>2, <2>3
<1>6. QED
  BY <1>4, <1>5

\* An output whose satoshi is in a later one was spent on the way.
LEMMA WentOn ==
  ASSUME NEW p, NEW r, NEW s, Keeps(p, s), Keeps(r, s), p[1] < r[1]
  PROVE  \E q \in Outpoint : Keeps(q, s) /\ Spends(q[1], p) /\ q[1] <= r[1]
<1> DEFINE Late == {m \in Nat : \E q \in Outpoint : /\ q[1] = m /\ Keeps(q, s)
                                                   /\ p[1] < m /\ m <= r[1]}
           m == Min(Late)
<1>1. p \in Outpoint /\ p[1] \in Nat /\ r \in Outpoint /\ r[1] \in Nat
  BY OutpointIs DEF Keeps
<1>2. r[1] \in Late
  BY <1>1
<1>3. m \in Late /\ \A k \in Late : m <= k
  <2> HIDE DEF Late
  <2>1. Late \in SUBSET Nat
    BY DEF Late
  <2>2. QED
    BY <1>2, <2>1, MinIsLeast
<1> HIDE DEF m
<1>4. PICK q \in Outpoint : q[1] = m /\ Keeps(q, s) /\ p[1] < m /\ m <= r[1]
  BY <1>3
<1>5. q[1] \in TxId /\ q[1] \in Nat
  BY OutpointIs
<1>6. s[1] # q[1]
  <2>1. PICK k \in Nat : HoldsAt(p, k, s)
    BY DEF Keeps
  <2>2. s[1] \in Nat /\ s[1] <= p[1]
    BY <1>1, <2>1, HeldSince
  <2>3. QED
    BY <1>1, <1>4, <1>5, <2>2
<1>7. PICK o \in Outpoint : Spends(q[1], o) /\ Keeps(o, s) /\ o[1] < q[1]
  BY <1>4, <1>6, CameIn
<1>8. p = o \/ p[1] < o[1]
  BY <1>4, <1>5, <1>7, CameFrom
<1>9. ASSUME p[1] < o[1]
      PROVE  FALSE
  <2>1. o[1] \in Nat
    BY OutpointIs
  <2>2. o[1] <= r[1]
    BY <1>1, <1>4, <1>5, <1>7, <2>1
  <2>3. o[1] \in Late
    BY <1>7, <1>9, <2>1, <2>2
  <2>4. m <= o[1]
    <3> HIDE DEF Late
    <3>1. QED
      BY <1>3, <2>3
  <2>5. QED
    BY <1>4, <1>5, <1>7, <2>1, <2>4
<1>10. QED
  BY <1>4, <1>7, <1>8, <1>9
-----------------------------------------------------------------------------
(* The walk back, step by step.                                                *)

First(from) == Satoshis[from][1]

\* o had the satoshi alone at `from', which has stood alone ever since.
Traced(o, from) ==
  /\ from \in Outpoint /\ Amount(from) = 1
  /\ o \in Outpoint /\ Amount(o) = 1 /\ HoldsAt(o, 1, First(from))
  /\ o[1] <= from[1]
  /\ \A q \in Outpoint : Keeps(q, First(from)) /\ o[1] <= q[1] /\ q[1] <= from[1] => Amount(q) = 1

LEMMA TracedFirst ==
  ASSUME NEW o \in Outpoint, Amount(o) = 1
  PROVE  Traced(o, o)
<1>1. HoldsAt(o, 1, First(o)) /\ o[1] \in Nat
  BY OutpointIs DEF HoldsAt, First
<1>2. Keeps(o, First(o))
  BY <1>1 DEF Keeps
<1>3. ASSUME NEW q \in Outpoint, Keeps(q, First(o)), o[1] <= q[1], q[1] <= o[1]
      PROVE  Amount(q) = 1
  <2>1. q[1] \in Nat
    BY OutpointIs
  <2>2. q[1] = o[1]
    BY <1>1, <1>3, <2>1
  <2>3. q = o
    BY <1>2, <1>3, <2>2, OneOfTx
  <2>4. QED
    BY <2>3
<1>4. QED
  BY <1>1, <1>3 DEF Traced

LEMMA KeepsIs ==
  ASSUME NEW o \in Outpoint, NEW s
  PROVE  Holds(o, s) <=> Keeps(o, s)
<1>1. Holds(o, s) <=> \E k \in 1 .. Amount(o) : HoldsAt(o, k, s)
  BY SatoshisAre
<1>2. QED
  BY <1>1 DEF Keeps, HoldsAt

\* The satoshi stood alone first where there is none of it before, or it was
\* packaged with others.
LEMMA FirstIs ==
  ASSUME NEW o, NEW from, Traced(o, from),
         \A r \in Outpoint : Keeps(r, First(from)) /\ r[1] < o[1] =>
           \E p \in Outpoint : /\ Keeps(p, First(from)) /\ Amount(p) # 1
                               /\ r[1] <= p[1] /\ p[1] < o[1]
  PROVE  Alone(from) /\ o = FirstAlone[from]
<1> DEFINE s == First(from)
           past == {p \in Outpoint : p[1] <= from[1] /\ Holds(p, s)}
           since == {p \in past : \A q \in past : q[1] >= p[1] => Alone(q)}
<1>1. /\ from \in Outpoint /\ o \in Outpoint /\ HoldsAt(o, 1, s) /\ o[1] <= from[1]
      /\ Alone(from) /\ from[1] \in Nat /\ o[1] \in Nat
  BY SatoshisAre, OutpointIs DEF Traced
<1>2. FirstAlone[from] = CHOOSE p \in since : \A q \in since : p[1] <= q[1]
  BY <1>1 DEF FirstAlone, First
<1>3. Keeps(o, s)
  BY <1>1 DEF Keeps
<1> HIDE DEF s
<1>4. \A p \in Outpoint : p \in past <=> p[1] <= from[1] /\ Keeps(p, s)
  BY KeepsIs
<1>5. o \in since
  <2>1. o \in past
    BY <1>1, <1>3, <1>4
  <2>2. ASSUME NEW q \in past, q[1] >= o[1]
        PROVE  Alone(q)
    <3>1. q \in Outpoint /\ Keeps(q, s) /\ q[1] <= from[1]
      BY <1>4
    <3>2. q[1] \in Nat
      BY <3>1, OutpointIs
    <3>3. Amount(q) = 1
      BY <1>1, <2>2, <3>1, <3>2 DEF Traced, s
    <3>4. QED
      BY <3>1, <3>3, SatoshisAre
  <2>3. QED
    BY <2>1, <2>2
<1>6. ASSUME NEW r \in since
      PROVE  o[1] <= r[1]
  <2>1. r \in Outpoint /\ Keeps(r, s) /\ r[1] \in Nat
    BY <1>4, OutpointIs
  <2>2. CASE r[1] < o[1]
    <3>1. PICK p \in Outpoint : Keeps(p, s) /\ Amount(p) # 1 /\ r[1] <= p[1] /\ p[1] < o[1]
      BY <2>1, <2>2 DEF s
    <3>2. p[1] \in Nat /\ p[1] <= from[1] /\ p[1] >= r[1]
      BY <1>1, <2>1, <3>1, OutpointIs
    <3>3. p \in past
      BY <1>4, <3>1, <3>2
    <3>4. Alone(p)
      BY <3>2, <3>3
    <3>5. QED
      BY <3>1, <3>4, SatoshisAre
  <2>3. CASE ~(r[1] < o[1])
    BY <1>1, <2>1, <2>3
  <2>4. QED
    BY <2>2, <2>3
<1>7. ASSUME NEW p \in since, \A q \in since : p[1] <= q[1]
      PROVE  p = o
  <2>1. p \in Outpoint /\ Keeps(p, s) /\ p[1] \in Nat
    BY <1>4, OutpointIs
  <2>2. p[1] = o[1]
    <3>1. p[1] <= o[1] /\ o[1] <= p[1]
      <4> HIDE DEF since
      <4>1. QED
        BY <1>5, <1>6, <1>7
    <3>2. QED
      BY <1>1, <2>1, <3>1
  <2>3. QED
    BY <1>3, <2>1, <2>2, OneOfTx
<1> HIDE DEF since, past
<1>8. QED
  BY <1>1, <1>2, <1>5, <1>6, <1>7

\* A satoshi alone in an output of a coinbase was minted there.
LEMMA TracedMinted ==
  ASSUME NEW o, NEW from, Traced(o, from), IsCoinbase(o[1])
  PROVE  Alone(from) /\ o = FirstAlone[from]
<1> DEFINE s == First(from)
<1>1. o \in Outpoint /\ o[1] \in TxId /\ HoldsAt(o, 1, s) /\ o[1] \in Nat
  BY OutpointIs DEF Traced
<1> HIDE DEF s
<1>2. Begins(o) + 1 \in 1 .. Incoming(o[1]) /\ Entering[o[1]][Begins(o) + 1] = s
  BY <1>1, HoldsEntered
<1>3. s[1] = o[1]
  <2>1. s = <<o[1], Begins(o) + 1>>
    BY <1>1, <1>2, EntryIs
  <2>2. QED
    BY <2>1
<1>4. ASSUME NEW r \in Outpoint, Keeps(r, s), r[1] < o[1]
      PROVE  FALSE
  <2>1. r[1] \in Nat /\ s[1] <= r[1]
    BY <1>4, OutpointIs, HeldSince DEF Keeps
  <2>2. QED
    BY <1>1, <1>3, <1>4, <2>1
<1>5. QED
  BY <1>4, FirstIs DEF s

\* The input whose stretch the satoshi's place is in: it was there, and either it
\* stood alone there too, or it did so only now.
LEMMA TracedBack ==
  ASSUME NEW o, NEW from, Traced(o, from), ~IsCoinbase(o[1]),
         NEW i \in DOMAIN TxOf[o[1]].inputs,
         SumOf(InValues(o[1]), i - 1) <= Begins(o), Begins(o) < SumOf(InValues(o[1]), i)
  PROVE  /\ TxOf[o[1]].inputs[i] \in Outpoint
         /\ Amount(TxOf[o[1]].inputs[i]) # 1 => Alone(from) /\ o = FirstAlone[from]
         /\ Amount(TxOf[o[1]].inputs[i]) = 1 => /\ Traced(TxOf[o[1]].inputs[i], from)
                                                /\ SumOf(InValues(o[1]), i - 1) = Begins(o)
<1> DEFINE s == First(from)
           t == o[1]
           p == TxOf[t].inputs[i]
           a == InValues(t)
           b == SumOf(a, i - 1)
           k == Begins(o) + 1 - b
<1>1. /\ o \in Outpoint /\ t \in TxId /\ HoldsAt(o, 1, s) /\ t \in Nat /\ Amount(o) = 1
      /\ from \in Outpoint /\ from[1] \in Nat /\ t <= from[1]
  BY OutpointIs DEF Traced
<1>2. p \in Outpoint /\ p[1] \in Nat /\ p[1] < t /\ Amount(p) \in Nat /\ Spends(t, p)
  BY <1>1, InputIs, InputLive
<1>3. Begins(o) + 1 \in 1 .. Incoming(t) /\ Entering[t][Begins(o) + 1] = s /\ Begins(o) \in Nat
  BY <1>1, HoldsEntered, StretchIs
<1>4. /\ b \in Nat /\ SumOf(a, i) = b + Amount(p) /\ b <= Begins(o) /\ Begins(o) < b + Amount(p)
  <2> DEFINE n == Len(TxOf[t].inputs)
  <2>1. n \in Nat /\ DOMAIN TxOf[t].inputs = 1 .. n /\ Amounts(a, n) /\ a[i] = Amount(p)
    BY <1>1, ValuesAre
  <2>2. i \in 0 .. n /\ i # 0
    BY <2>1
  <2>3. b \in Nat /\ SumOf(a, i) = b + a[i]
    BY <2>1, <2>2, SumOfRises
  <2>4. QED
    BY <2>1, <2>3
<1>5. k \in 1 .. Amount(p) /\ Begins(o) + 1 = b + k
  <2> HIDE DEF a, b, p, t
  <2>1. QED
    BY <1>2, <1>3, <1>4
<1> HIDE DEF k
<1>6. HoldsAt(p, k, Satoshis[p][k])
  BY <1>5 DEF HoldsAt
<1>7. Entering[t][b + k] = Satoshis[p][k]
  <2> DEFINE z == Satoshis[p][k]
  <2>1. HoldsAt(TxOf[t].inputs[i], k, z)
    BY <1>6
  <2> HIDE DEF z
  <2>2. QED
    BY <1>1, <2>1, EntryOf DEF z
<1>8. HoldsAt(p, k, s) /\ k \in Nat
  <2> HIDE DEF s, p, b, t
  <2>1. QED
    BY <1>3, <1>5, <1>6, <1>7
<1>9. Keeps(p, s)
  BY <1>2, <1>8 DEF Keeps
<1>10. ASSUME Amount(p) # 1
       PROVE  Alone(from) /\ o = FirstAlone[from]
  <2> HIDE DEF p
  <2>1. ASSUME NEW r \in Outpoint, Keeps(r, s), r[1] < t
        PROVE  r[1] <= p[1]
    <3>1. r = p \/ r[1] < p[1]
      <4> HIDE DEF s, t
      <4>1. QED
        BY <1>1, <1>2, <1>9, <2>1, CameFrom
    <3>2. r[1] \in Nat
      BY OutpointIs
    <3>3. QED
      BY <1>2, <3>1, <3>2
  <2>2. QED
    BY <1>2, <1>9, <1>10, <2>1, FirstIs
<1>11. ASSUME Amount(p) = 1
       PROVE  Traced(p, from) /\ b = Begins(o)
  <2>1. b = Begins(o) /\ k = 1
    <3> HIDE DEF a, b, p, t
    <3>1. QED
      BY <1>3, <1>4, <1>5, <1>11
  <2>2. HoldsAt(p, 1, s)
    BY <1>8, <2>1
  <2> HIDE DEF p
  <2>3. ASSUME NEW q \in Outpoint, Keeps(q, s), p[1] <= q[1], q[1] <= from[1]
        PROVE  Amount(q) = 1
    <3>1. q[1] \in Nat
      BY OutpointIs
    <3>2. CASE q[1] < t
      <4>1. q = p \/ q[1] < p[1]
        <5> HIDE DEF s, t
        <5>1. QED
          BY <1>1, <1>2, <1>9, <2>3, <3>2, CameFrom
      <4>2. q = p
        BY <1>2, <2>3, <3>1, <4>1
      <4>3. QED
        BY <1>11, <4>2
    <3>3. CASE t <= q[1]
      BY <2>3, <3>3 DEF Traced
    <3>4. QED
      BY <1>1, <3>1, <3>2, <3>3
  <2>4. p[1] <= from[1]
    BY <1>1, <1>2
  <2>5. QED
    BY <1>1, <1>2, <1>11, <2>1, <2>2, <2>3, <2>4 DEF Traced
<1>12. QED
  BY <1>2, <1>10, <1>11
-----------------------------------------------------------------------------
(* The walk forward, step by step.                                             *)

\* Where a satoshi at the first place of o is, among those that enter t.
Entry(t, o) == SumOf(InValues(t), InputSpending(TxOf[t], o) - 1)
\* The output it lands in, 0 for the fee.
Landing(t, o) == Holder(TxOf[t].outputs, Entry(t, o))

LEMMA LandingIs ==
  ASSUME NEW t \in TxId, NEW o \in Outpoint, Spends(t, o)
  PROVE  /\ Entry(t, o) \in Nat
         /\ Landing(t, o) = 0 => PaidOut(t) <= Entry(t, o)
         /\ Landing(t, o) # 0 =>
              /\ <<t, Landing(t, o)>> \in Outpoint
              /\ Begins(<<t, Landing(t, o)>>) \in Nat /\ Amount(<<t, Landing(t, o)>>) \in Nat
              /\ Begins(<<t, Landing(t, o)>>) <= Entry(t, o)
              /\ Entry(t, o) < Begins(<<t, Landing(t, o)>>) + Amount(<<t, Landing(t, o)>>)
<1> DEFINE n == Len(TxOf[t].outputs)
           m == Len(TxOf[t].inputs)
           i == InputSpending(TxOf[t], o)
           v == Landing(t, o)
<1>1. ~IsCoinbase(t) /\ i \in DOMAIN TxOf[t].inputs
  BY SpendsIs
<1>2. m \in Nat /\ i \in 1 .. m /\ Amounts(InValues(t), m)
  BY <1>1, ValuesAre
<1>3. Entry(t, o) \in Nat
  <2>1. i \in 0 .. m /\ i # 0
    BY <1>2
  <2>2. SumOf(InValues(t), i - 1) \in Nat
    BY <1>2, <2>1, SumOfRises
  <2>3. QED
    BY <2>2 DEF Entry
<1>4. n \in Nat /\ DOMAIN TxOf[t].outputs = 1 .. n /\ Amounts(TxOf[t].outputs, n)
  BY ChainIs
<1>5. /\ v = 0 => SumOf(TxOf[t].outputs, n) <= Entry(t, o)
      /\ v # 0 => /\ v \in 1 .. n
                  /\ SumOf(TxOf[t].outputs, v - 1) <= Entry(t, o)
                  /\ Entry(t, o) < SumOf(TxOf[t].outputs, v)
  BY <1>3, <1>4, HolderIs DEF Landing
<1> HIDE DEF v, i, m
<1>6. ASSUME v # 0
      PROVE  /\ <<t, v>> \in Outpoint
             /\ Begins(<<t, v>>) \in Nat /\ Amount(<<t, v>>) \in Nat
             /\ Begins(<<t, v>>) <= Entry(t, o)
             /\ Entry(t, o) < Begins(<<t, v>>) + Amount(<<t, v>>)
  <2> DEFINE q == <<t, v>>
  <2>1. q \in Outpoint /\ q[1] = t /\ q[2] = v
    BY <1>4, <1>5, <1>6, OutpointIs
  <2> HIDE DEF q
  <2>2. /\ Begins(q) \in Nat /\ Amount(q) \in Nat
        /\ Begins(q) = SumOf(TxOf[t].outputs, v - 1)
        /\ SumOf(TxOf[t].outputs, v) = Begins(q) + Amount(q)
    BY <2>1, StretchIs
  <2>3. QED
    BY <1>5, <1>6, <2>1, <2>2 DEF q
<1>7. QED
  BY <1>3, <1>5, <1>6 DEF v, PaidOut

\* The satoshi lands there, or is in no later output.
LEMMA Lands ==
  ASSUME NEW t \in TxId, NEW o \in Outpoint, Spends(t, o), NEW s, HoldsAt(o, 1, s)
  PROVE  /\ o[1] < t
         /\ Landing(t, o) = 0 => \A q \in Outpoint : Keeps(q, s) => q[1] <= o[1]
         /\ Landing(t, o) # 0 =>
              HoldsAt(<<t, Landing(t, o)>>, Entry(t, o) + 1 - Begins(<<t, Landing(t, o)>>), s)
<1> DEFINE i == InputSpending(TxOf[t], o)
           x == Entry(t, o)
           v == Landing(t, o)
<1>1. ~IsCoinbase(t) /\ i \in DOMAIN TxOf[t].inputs /\ TxOf[t].inputs[i] = o
  BY SpendsIs
<1>2. x + 1 \in 1 .. Incoming(t) /\ Entering[t][x + 1] = s
  BY <1>1, EntryOf DEF Entry
<1>3. o[1] < t /\ t \in Nat /\ o[1] \in Nat
  BY SpentOnce, ChainIs, OutpointIs
<1>4. x \in Nat /\ (v = 0 => PaidOut(t) <= x)
  BY LandingIs
<1>5. ASSUME v # 0
      PROVE  /\ <<t, v>> \in Outpoint /\ Begins(<<t, v>>) \in Nat /\ Amount(<<t, v>>) \in Nat
             /\ Begins(<<t, v>>) <= x /\ x < Begins(<<t, v>>) + Amount(<<t, v>>)
  BY <1>5, LandingIs
<1> HIDE DEF i, x, v
<1>6. ASSUME v = 0, NEW q \in Outpoint, Keeps(q, s)
      PROVE  q[1] <= o[1]
  <2>1. SUFFICES ASSUME ~(q[1] <= o[1])
                 PROVE  FALSE
    OBVIOUS
  <2>2. q[1] \in Nat
    BY OutpointIs
  <2>3. Keeps(o, s)
    BY DEF Keeps
  <2>4. PICK r \in Outpoint : Keeps(r, s) /\ Spends(r[1], o)
    <3>1. o[1] < q[1]
      BY <1>3, <2>1, <2>2
    <3>2. QED
      BY <1>6, <2>3, <3>1, WentOn
  <2>5. r[1] = t
    BY <2>4, SpentOnce, OutpointIs
  <2>6. PICK k \in Nat : HoldsAt(r, k, s)
    BY <2>4 DEF Keeps
  <2>7. Begins(r) + k \in 1 .. Incoming(t) /\ Entering[t][Begins(r) + k] = s
    BY <2>5, <2>6, HoldsEntered
  <2>8. Begins(r) + k = x + 1
    BY <1>2, <2>7, AllDistinct DEF Injective
  <2>9. /\ Begins(r) \in Nat /\ Amount(r) \in Nat /\ PaidOut(t) \in Nat
        /\ Begins(r) + Amount(r) <= PaidOut(t)
    BY <2>5, StretchIs
  <2>10. k \in 1 .. Amount(r)
    BY <2>6 DEF HoldsAt
  <2>11. QED
    BY <1>4, <1>6, <2>8, <2>9, <2>10
<1>7. ASSUME v # 0
      PROVE  HoldsAt(<<t, v>>, x + 1 - Begins(<<t, v>>), s)
  <2> DEFINE q == <<t, v>>
             k == x + 1 - Begins(q)
  <2>1. /\ q \in Outpoint /\ q[1] = t /\ Begins(q) \in Nat /\ Amount(q) \in Nat
        /\ Begins(q) <= x /\ x < Begins(q) + Amount(q)
    BY <1>5, <1>7
  <2> HIDE DEF q
  <2>2. k \in 1 .. Amount(q) /\ Begins(q) + k = x + 1
    BY <1>4, <2>1
  <2> HIDE DEF k
  <2>3. Stretch(Satoshis[q], Entering[t], Begins(q), Amount(q), Sats)
    BY <2>1, SatoshisAre
  <2>4. Satoshis[q][k] = Entering[t][Begins(q) + k]
    BY <2>2, <2>3 DEF Stretch
  <2>5. HoldsAt(q, k, s)
    BY <1>2, <2>2, <2>4 DEF HoldsAt
  <2>6. QED
    BY <2>5 DEF q, k
<1>8. QED
  BY <1>3, <1>6, <1>7 DEF x, v

\* Who has a satoshi and is not spent has it last.
LEMMA OneHolder ==
  ASSUME NEW p, NEW q, NEW s, Keeps(p, s), Keeps(q, s), Unspent(p), Unspent(q)
  PROVE  p = q
<1>1. p[1] \in Nat /\ q[1] \in Nat
  BY OutpointIs DEF Keeps
<1>2. ASSUME NEW r, NEW o, Keeps(r, s), Keeps(o, s), Unspent(r), r[1] < o[1]
      PROVE  FALSE
  <2>1. PICK z \in Outpoint : Spends(z[1], r)
    BY <1>2, WentOn
  <2>2. z[1] \in TxId
    BY OutpointIs
  <2>3. QED
    BY <1>2, <2>1, <2>2 DEF Unspent
<1>3. p[1] = q[1]
  <2>1. ~(p[1] < q[1]) /\ ~(q[1] < p[1])
    BY <1>2
  <2>2. QED
    BY <1>1, <2>1
<1>4. QED
  BY <1>3, OneOfTx
-----------------------------------------------------------------------------
(* The inductive invariant of the walks.                                       *)

\* v is the amounts of the first inputs of t.
PrefixOf(v, t) ==
  /\ v \in Seq(Nat) /\ Len(v) <= Len(TxOf[t].inputs)
  /\ IsCoinbase(t) => v = << >>
  /\ \A i \in 1 .. Len(v) : v[i] = InValues(t)[i]

\* o has the first satoshi of `from', which got there later.
Followed(o, from) ==
  from \in Outpoint =>
    /\ o \in Outpoint /\ from[1] <= o[1]
    /\ Amount(from) # 0 => HoldsAt(o, 1, First(from))

OriginGood(result, from) ==
  from \in Outpoint =>
    /\ result.outcome # "error"
    /\ result.outcome = "notAnOrdinal" => ~Alone(from)
    /\ result.origin # None => Alone(from) /\ result.origin = FirstAlone[from]

TipGood(result, from, wrong) ==
  /\ result.current \in Outpoint \cup {None, from}
  /\ result.outcome = "unrefuted" => result.current # None
  /\ from \in Outpoint /\ Amount(from) # 0 =>
       LET sat == First(from)
       IN  /\ result.current \notin {None, from} => Satoshis[result.current] = <<sat>>
           /\ result.outcome = "fee" => \E p \in Future(from) \cup {from} :
                                          Holds(p, sat) /\ ~Unspent(p)
                                            /\ \A q \in Future(from) : q[1] <= p[1]
           /\ result.outcome = "merged" => Holds(result.lastSeen, sat) /\ ~Alone(result.lastSeen)
  /\ ~wrong =>
       /\ result.outcome # "contradicted"
       /\ result.outcome \in {"unrefuted", "fee", "merged"} /\ result.current # None =>
            Unspent(result.current)

Typed == TypeOK /\ values \in Seq(Nat) /\ hops \in Seq(Outpoint \cup {None})

WalkBack ==
  pc \in {"origin", "inputs"} =>
    /\ origin = None /\ hops = << >> /\ named = None /\ offset = 0
    /\ hop = 0 => at = start
    /\ hop # 0 \/ pc = "inputs" => Traced(at, start)
    /\ pc = "origin" => values = << >>
    /\ pc = "inputs" => /\ hop < MaxHops /\ PrefixOf(values, at[1])
                        /\ SumOf(values, Len(values)) <= Begins(at)

WalkForward ==
  pc \in {"tip", "spender", "before"} =>
    /\ offset = 0
    /\ hop = 0 => at = start
    /\ hop # 0 => at \in Outpoint /\ Amount(at) = 1
    /\ Followed(at, start)
    /\ pc = "tip" => named = None /\ values = << >>
    /\ pc # "tip" => named \in TxId /\ hop < MaxHops
    /\ pc = "spender" => values = << >> /\ (~misled => Spends(named, at))
    /\ pc = "before" => /\ Spends(named, at) /\ PrefixOf(values, named)
                        /\ Len(values) < InputSpending(TxOf[named], at)

Results ==
  /\ pc \notin {"origin", "inputs"} => OriginGood(origin, start)
  /\ pc # "done" => tip = None
  /\ pc = "done" => TipGood(tip, start, misled)

IInv == Typed /\ WalkBack /\ WalkForward /\ Results

BudgetTyped == read \subseteq TxId /\ fetches \in 0 .. MaxFetches

LEMMA BudgetKept ==
  ASSUME BudgetTyped
  PROVE  /\ \A t \in TxId : Obtain(t) => BudgetTyped'
         /\ \A t : Refuse(t) => BudgetTyped'
         /\ UNCHANGED budget => BudgetTyped'
<1>1. ASSUME NEW t \in TxId, Obtain(t)
      PROVE  BudgetTyped'
  BY <1>1, FetchAssumption DEF BudgetTyped, Obtain
<1>2. ASSUME NEW t, Refuse(t)
      PROVE  BudgetTyped'
  BY <1>2, FetchAssumption DEF BudgetTyped, Refuse
<1>3. ASSUME UNCHANGED budget
      PROVE  BudgetTyped'
  BY <1>3 DEF BudgetTyped, budget
<1>4. QED
  BY <1>1, <1>2, <1>3

\* What the types say, one variable at a time.
LEMMA TypedIs ==
  ASSUME Typed
  PROVE  /\ start \in TxId \X Nat /\ start[1] \in TxId /\ start \in Nat \X Nat
         /\ at \in TxId \X Nat /\ at[1] \in TxId /\ at[2] \in Nat /\ at \in Nat \X Nat
         /\ at = <<at[1], at[2]>>
         /\ offset \in Nat /\ hop \in 0 .. MaxHops /\ hop \in Nat
         /\ values \in Seq(Nat) /\ hops \in Seq(Outpoint \cup {None})
         /\ named \in TxId \cup {None} /\ BudgetTyped
         /\ faulted \in BOOLEAN /\ misled \in BOOLEAN
BY ChainIs DEF Typed, TypeOK, BudgetTyped

LEMMA OutpointsTyped ==
  Outpoint \subseteq TxId \X Nat
<1>1. ASSUME NEW o \in Outpoint
      PROVE  o \in TxId \X Nat
  <2>1. o = <<o[1], o[2]>> /\ o[1] \in TxId /\ o[2] \in Nat
    BY OutpointIs
  <2>2. QED
    BY <2>1
<1>2. QED
  BY <1>1

LEMMA InvariantAtFirst == Init => IInv
<1>1. SUFFICES ASSUME Init
               PROVE  IInv
  OBVIOUS
<1>2. start \in TxId \X Nat
  <2>1. \A t \in TxId : <<t, 1 + Len(TxOf[t].outputs)>> \in TxId \X Nat
    BY ChainIs
  <2>2. QED
    BY <1>1, <2>1, OutpointsTyped DEF Init
<1>3. << >> \in Seq(Nat) /\ << >> \in Seq(Outpoint \cup {None})
  OBVIOUS
<1>4. Typed
  <2>1. /\ pc = "origin" /\ at = start /\ offset = 0 /\ hop = 0 /\ named = None
        /\ values = << >> /\ hops = << >> /\ read = {} /\ fetches = 0
        /\ origin = None /\ tip = None /\ faulted = FALSE /\ misled = FALSE
    BY <1>1 DEF Init
  <2>2. 0 \in 0 .. MaxHops /\ 0 \in 0 .. MaxFetches
    BY HopAssumption, FetchAssumption
  <2>3. /\ \A i \in DOMAIN values : values[i] \in Nat
        /\ \A i \in DOMAIN hops : hops[i] \in Outpoint \cup {None}
    BY <2>1
  <2>4. QED
    BY <1>2, <1>3, <2>1, <2>2, <2>3 DEF Typed, TypeOK
<1>5. WalkBack
  BY <1>1 DEF WalkBack, Init
<1>6. WalkForward
  BY <1>1 DEF WalkForward, Init
<1>7. Results
  BY <1>1 DEF Results, Init
<1>8. QED
  BY <1>4, <1>5, <1>6, <1>7 DEF IInv

\* The two ends of the walks.
LEMMA EndOriginKeeps ==
  ASSUME IInv, pc \in {"origin", "inputs"},
         NEW outcome \in OriginOutcome, NEW outpoint \in Outpoint \cup {None},
         EndOrigin(outcome, outpoint),
         OriginGood([outcome |-> outcome, origin |-> outpoint], start),
         BudgetTyped', faulted' \in BOOLEAN
  PROVE  IInv'
<1>1. /\ origin' = [outcome |-> outcome, origin |-> outpoint] /\ pc' = "tip"
      /\ at' = start /\ offset' = 0 /\ hop' = 0 /\ values' = << >>
      /\ start' = start /\ hops' = hops /\ named' = named /\ tip' = tip /\ misled' = misled
  BY DEF EndOrigin
<1>2. named = None /\ tip = None
  BY DEF IInv, WalkBack, Results
<1>3. Typed
  BY DEF IInv
<1>4. Typed'
  <2>1. origin' \in [outcome : OriginOutcome, origin : Outpoint \cup {None}]
    BY <1>1
  <2>2. << >> \in Seq(Nat) /\ hop' \in 0 .. MaxHops
    BY <1>1, HopAssumption
  <2>3. QED
    BY <1>1, <1>3, <2>1, <2>2 DEF Typed, TypeOK, BudgetTyped
<1>5. WalkBack'
  BY <1>1 DEF WalkBack
<1>6. WalkForward'
  <2>1. Followed(start, start)
    <3>1. ASSUME start \in Outpoint
          PROVE  /\ start[1] <= start[1]
                 /\ Amount(start) # 0 => HoldsAt(start, 1, First(start))
      BY <3>1, OutpointIs DEF HoldsAt, First
    <3>2. QED
      BY <3>1 DEF Followed
  <2>2. QED
    BY <1>1, <1>2, <2>1 DEF WalkForward
<1>7. Results'
  BY <1>1, <1>2 DEF Results
<1>8. QED
  BY <1>4, <1>5, <1>6, <1>7 DEF IInv

LEMMA EndTipKeeps ==
  ASSUME IInv, pc \in {"tip", "spender", "before"},
         NEW outcome \in TipOutcome, NEW current \in (TxId \X Nat) \cup {None},
         NEW lastSeen \in Outpoint \cup {None}, NEW taken \in Seq(Outpoint \cup {None}),
         EndTip(outcome, current, lastSeen, taken),
         BudgetTyped', faulted' \in BOOLEAN, misled' \in BOOLEAN,
         TipGood([outcome |-> outcome, current |-> current, lastSeen |-> lastSeen], start, misled')
  PROVE  IInv'
<1>1. /\ tip' = [outcome |-> outcome, current |-> current, lastSeen |-> lastSeen]
      /\ hops' = taken /\ pc' = "done" /\ named' = None /\ values' = << >>
      /\ start' = start /\ at' = at /\ offset' = offset /\ hop' = hop /\ origin' = origin
  BY DEF EndTip
<1>2. Typed
  BY DEF IInv
<1>3. Typed'
  <2>1. tip' \in [outcome : TipOutcome, current : (TxId \X Nat) \cup {None},
                  lastSeen : Outpoint \cup {None}]
    BY <1>1
  <2>2. << >> \in Seq(Nat) /\ \A i \in DOMAIN taken : taken[i] \in Outpoint \cup {None}
    OBVIOUS
  <2>3. QED
    BY <1>1, <1>2, <2>1, <2>2 DEF Typed, TypeOK, BudgetTyped
<1>4. WalkBack' /\ WalkForward'
  BY <1>1 DEF WalkBack, WalkForward
<1>5. Results'
  <2>1. OriginGood(origin, start)
    BY DEF IInv, Results
  <2>2. QED
    BY <1>1, <2>1 DEF Results
<1>6. QED
  BY <1>3, <1>4, <1>5 DEF IInv

\* The amounts of one more input.
LEMMA PrefixGrows ==
  ASSUME NEW t \in TxId, ~IsCoinbase(t), NEW v, PrefixOf(v, t),
         Len(v) + 1 <= Len(TxOf[t].inputs),
         NEW a, a = Amount(TxOf[t].inputs[Len(v) + 1])
  PROVE  PrefixOf(Append(v, a), t) /\ Len(Append(v, a)) = Len(v) + 1
<1>1. v \in Seq(Nat) /\ Len(v) \in Nat
  BY DEF PrefixOf
<1>2. Len(v) + 1 \in DOMAIN TxOf[t].inputs
  BY <1>1, ChainIs
<1>3. a \in Nat /\ InValues(t)[Len(v) + 1] = a
  BY <1>2, InputIs, ValuesAre
<1>4. /\ Append(v, a) \in Seq(Nat) /\ Len(Append(v, a)) = Len(v) + 1
      /\ \A i \in 1 .. Len(v) : Append(v, a)[i] = v[i]
      /\ Append(v, a)[Len(v) + 1] = a
  BY <1>1, <1>3
<1>5. ASSUME NEW i \in 1 .. Len(v) + 1
      PROVE  Append(v, a)[i] = InValues(t)[i]
  <2>1. CASE i = Len(v) + 1
    BY <1>3, <1>4, <2>1
  <2>2. CASE i # Len(v) + 1
    <3>1. i \in 1 .. Len(v)
      BY <1>1, <2>2
    <3>2. QED
      BY <1>4, <3>1 DEF PrefixOf
  <2>3. QED
    BY <2>1, <2>2
<1>6. QED
  BY <1>4, <1>5 DEF PrefixOf

\* Their sums are those of all the inputs' amounts.
LEMMA PrefixSums ==
  ASSUME NEW t \in TxId, ~IsCoinbase(t), NEW v, PrefixOf(v, t)
  PROVE  /\ Len(v) \in Nat /\ DOMAIN v = 1 .. Len(v) /\ Amounts(v, Len(v))
         /\ \A n \in 0 .. Len(v) : SumOf(v, n) = SumOf(InValues(t), n) /\ SumOf(v, n) \in Nat
<1>1. v \in Seq(Nat) /\ Len(v) \in Nat /\ DOMAIN v = 1 .. Len(v)
  BY DEF PrefixOf
<1>2. Amounts(v, Len(v))
  BY <1>1 DEF Amounts
<1>3. ASSUME NEW n \in 0 .. Len(v)
      PROVE  SumOf(v, n) = SumOf(InValues(t), n) /\ SumOf(v, n) \in Nat
  <2>1. n \in Nat /\ \A i \in 1 .. n : v[i] = InValues(t)[i]
    BY <1>1 DEF PrefixOf
  <2>2. SumOf(v, n) = SumOf(InValues(t), n)
    BY <2>1, SumOfSame
  <2>3. QED
    BY <1>1, <1>2, <2>2, SumOfRises
<1>4. QED
  BY <1>1, <1>2, <1>3

LEMMA PrefixEmpty ==
  ASSUME NEW t \in TxId
  PROVE  PrefixOf(<< >>, t) /\ SumOf(<< >>, Len(<< >>)) = 0 /\ Len(<< >>) = 0
<1>1. << >> \in Seq(Nat) /\ Len(<< >>) = 0
  OBVIOUS
<1>2. Len(TxOf[t].inputs) \in Nat
  BY ChainIs
<1>3. PrefixOf(<< >>, t)
  BY <1>1, <1>2 DEF PrefixOf
<1>4. QED
  BY <1>1, <1>3, SumOfIs

\* A step that ends no walk.
LEMMA TypedStep ==
  ASSUME Typed, start' = start, origin' = origin, tip' = tip,
         pc' \in {"origin", "inputs", "tip", "spender", "before", "done"},
         at' \in TxId \X Nat, offset' \in Nat, hop' \in 0 .. MaxHops,
         values' \in Seq(Nat), hops' \in Seq(Outpoint \cup {None}),
         named' \in TxId \cup {None}, BudgetTyped', faulted' \in BOOLEAN, misled' \in BOOLEAN
  PROVE  Typed'
<1>1. \A i \in DOMAIN values' : values'[i] \in Nat
  <2>1. values' \in Seq(Nat)
    OBVIOUS
  <2>2. QED
    BY <2>1
<1>2. \A i \in DOMAIN hops' : hops'[i] \in Outpoint \cup {None}
  OBVIOUS
<1>3. TypeOK'
  BY <1>1, <1>2 DEF Typed, TypeOK, BudgetTyped
<1>4. QED
  BY <1>3 DEF Typed

-----------------------------------------------------------------------------
(* Every step of the walk back keeps the invariant.                            *)

\* There is an input left while the place is not covered.
LEMMA NotAllValued ==
  ASSUME NEW o, NEW from, Traced(o, from), NEW v, PrefixOf(v, o[1]),
         SumOf(v, Len(v)) <= Begins(o)
  PROVE  /\ Len(v) \in Nat /\ Len(v) + 1 \in DOMAIN TxOf[o[1]].inputs
         /\ Len(v) + 1 <= Len(TxOf[o[1]].inputs)
<1> DEFINE t == o[1]
           n == Len(TxOf[t].inputs)
<1>1. o \in Outpoint /\ t \in TxId /\ Amount(o) = 1
  BY OutpointIs DEF Traced
<1>2. n \in Nat /\ DOMAIN TxOf[t].inputs = 1 .. n
  BY <1>1, ChainIs
<1>3. Len(v) \in Nat /\ Len(v) <= n
  BY DEF PrefixOf
<1>4. ASSUME IsCoinbase(t)
      PROVE  Len(v) # n
  <2>1. n = 1 /\ v = << >>
    BY <1>4 DEF IsCoinbase, PrefixOf
  <2>2. QED
    BY <2>1
<1>5. ASSUME ~IsCoinbase(t), Len(v) = n
      PROVE  FALSE
  <2>1. n \in 0 .. Len(v)
    BY <1>3, <1>5
  <2>2. SumOf(v, n) = PaidIn(t)
    BY <1>1, <1>5, <2>1, PrefixSums DEF PaidIn
  <2>3. PaidIn(t) \in Nat /\ PaidOut(t) \in Nat /\ PaidOut(t) <= PaidIn(t)
    BY <1>1, <1>5, ValuesAre
  <2>4. Begins(o) \in Nat /\ Begins(o) + 1 <= PaidOut(t)
    BY <1>1, StretchIs
  <2>5. PaidIn(t) <= Begins(o)
    BY <1>5, <2>2
  <2>6. QED
    BY <2>3, <2>4, <2>5
<1> HIDE DEF t, n
<1>6. QED
  BY <1>2, <1>3, <1>4, <1>5 DEF t, n

\* In the middle of a hop.
LEMMA ValuingIs ==
  ASSUME IInv, pc = "inputs"
  PROVE  /\ Traced(at, start) /\ at \in Outpoint /\ at[1] \in TxId
         /\ PrefixOf(values, at[1]) /\ SumOf(values, Len(values)) <= Begins(at)
         /\ offset = 0 /\ hop < MaxHops
         /\ Len(values) \in Nat /\ Valued = Len(values) + 1
         /\ Valued \in DOMAIN Tx.inputs /\ Valued <= Len(Tx.inputs)
<1>1. /\ Traced(at, start) /\ PrefixOf(values, at[1])
      /\ SumOf(values, Len(values)) <= Begins(at) /\ offset = 0 /\ hop < MaxHops
  BY DEF IInv, WalkBack
<1>2. at \in Outpoint /\ at[1] \in TxId
  BY <1>1, OutpointIs DEF Traced
<1>3. QED
  BY <1>1, <1>2, NotAllValued DEF Valued, Tx

LEMMA OriginHopLimitKeeps == ASSUME IInv, OriginHopLimit PROVE IInv'
<1>1. /\ pc = "origin" /\ EndOrigin("truncated", None)
      /\ UNCHANGED budget /\ faulted' = faulted
  BY DEF OriginHopLimit
<1>2. BudgetTyped' /\ faulted' \in BOOLEAN
  BY <1>1, TypedIs, BudgetKept DEF IInv
<1>3. OriginGood([outcome |-> "truncated", origin |-> None], start)
  BY DEF OriginGood
<1>4. "truncated" \in OriginOutcome /\ pc \in {"origin", "inputs"}
  BY <1>1 DEF OriginOutcome
<1>5. QED
  BY <1>1, <1>2, <1>3, <1>4, EndOriginKeeps

LEMMA OriginThrowsKeeps == ASSUME IInv, OriginThrows PROVE IInv'
<1>1. pc \in {"origin", "inputs"} /\ EndOrigin("threw", None) /\ faulted' \in BOOLEAN
      /\ \E t : Refuse(t)
  BY DEF OriginThrows
<1>2. BudgetTyped'
  BY <1>1, TypedIs, BudgetKept DEF IInv
<1>3. OriginGood([outcome |-> "threw", origin |-> None], start)
  BY DEF OriginGood
<1>4. "threw" \in OriginOutcome
  BY DEF OriginOutcome
<1>5. QED
  BY <1>1, <1>2, <1>3, <1>4, EndOriginKeeps

LEMMA ReadOutputKeeps == ASSUME IInv, ReadOutput PROVE IInv'
<1>1. pc = "origin" /\ hop < MaxHops /\ Obtain(at[1]) /\ faulted' = faulted
  BY DEF ReadOutput
<1>2. /\ Typed /\ offset = 0 /\ hops = << >> /\ named = None /\ origin = None /\ tip = None
      /\ (hop = 0 => at = start) /\ (hop # 0 => Traced(at, start)) /\ values = << >>
  BY <1>1 DEF IInv, WalkBack, Results
<1>3. /\ at \in TxId \X Nat /\ at = <<at[1], at[2]>> /\ at[1] \in TxId
      /\ hop \in 0 .. MaxHops /\ misled \in BOOLEAN
      /\ BudgetTyped' /\ faulted' \in BOOLEAN
  BY <1>1, <1>2, TypedIs, BudgetKept
<1>4. CASE at[2] \notin DOMAIN Tx.outputs
  <2>1. EndOrigin("error", None)
    BY <1>4 DEF ReadOutput
  <2>2. at \notin Outpoint
    BY <1>4, OutpointIs DEF Tx
  <2>3. start \notin Outpoint
    BY <1>2, <2>2 DEF Traced
  <2>4. OriginGood([outcome |-> "error", origin |-> None], start)
    BY <2>3 DEF OriginGood
  <2>5. "error" \in OriginOutcome
    BY DEF OriginOutcome
  <2>6. QED
    BY <1>1, <1>3, <2>1, <2>4, <2>5, EndOriginKeeps
<1>5. CASE at[2] \in DOMAIN Tx.outputs /\ hop = 0 /\ Tx.outputs[at[2]] # 1
  <2>1. EndOrigin("notAnOrdinal", None)
    BY <1>5 DEF ReadOutput
  <2>2. at = start /\ Amount(start) # 1
    BY <1>2, <1>5 DEF Amount, Tx
  <2>3. OriginGood([outcome |-> "notAnOrdinal", origin |-> None], start)
    BY <2>2, SatoshisAre DEF OriginGood
  <2>4. "notAnOrdinal" \in OriginOutcome
    BY DEF OriginOutcome
  <2>5. QED
    BY <1>1, <1>3, <2>1, <2>3, <2>4, EndOriginKeeps
<1>6. CASE at[2] \in DOMAIN Tx.outputs /\ ~(hop = 0 /\ Tx.outputs[at[2]] # 1)
  <2>1. pc' = "inputs" /\ UNCHANGED <<start, walk, origin, tip, misled>>
    BY <1>6 DEF ReadOutput
  <2>2. /\ start' = start /\ at' = at /\ offset' = offset /\ hop' = hop /\ values' = values
        /\ hops' = hops /\ named' = named /\ origin' = origin /\ tip' = tip /\ misled' = misled
    BY <2>1 DEF walk
  <2>3. at \in Outpoint
    BY <1>3, <1>6, OutpointIs DEF Tx
  <2>4. Traced(at, start)
    <3>1. CASE hop = 0
      <4>1. at = start /\ Amount(at) = 1
        BY <1>2, <1>6, <3>1 DEF Amount, Tx
      <4>2. QED
        BY <2>3, <4>1, TracedFirst
    <3>2. QED
      BY <1>2, <3>1
  <2>5. PrefixOf(values, at[1]) /\ SumOf(values, Len(values)) <= Begins(at)
    BY <1>2, <1>3, <2>3, PrefixEmpty, StretchIs
  <2>6. Typed'
    BY <1>2, <1>3, <2>1, <2>2, TypedStep, TypedIs
  <2>7. WalkBack'
    BY <1>1, <1>2, <2>1, <2>2, <2>4, <2>5 DEF WalkBack
  <2>8. WalkForward' /\ Results'
    BY <1>2, <2>1, <2>2 DEF WalkForward, Results
  <2>9. QED
    BY <2>6, <2>7, <2>8 DEF IInv
<1>7. QED
  BY <1>4, <1>5, <1>6

LEMMA ReachCoinbaseKeeps == ASSUME IInv, ReachCoinbase PROVE IInv'
<1>1. /\ pc = "inputs" /\ Tx.inputs[Valued] = Coinbase /\ EndOrigin("origin", at)
      /\ UNCHANGED budget /\ faulted' = faulted
  BY DEF ReachCoinbase
<1>2. Traced(at, start) /\ at \in Outpoint /\ at[1] \in TxId /\ Valued \in DOMAIN Tx.inputs
  BY <1>1, ValuingIs
<1>3. IsCoinbase(at[1])
  <2>1. SUFFICES ASSUME ~IsCoinbase(at[1])
                 PROVE  FALSE
    OBVIOUS
  <2>2. Coinbase \in Outpoint
    BY <1>1, <1>2, <2>1, InputIs DEF Tx
  <2>3. QED
    BY <2>2, OutpointIs
<1>4. OriginGood([outcome |-> "origin", origin |-> at], start)
  BY <1>2, <1>3, TracedMinted DEF OriginGood
<1>5. BudgetTyped' /\ faulted' \in BOOLEAN
  BY <1>1, TypedIs, BudgetKept DEF IInv
<1>6. "origin" \in OriginOutcome /\ pc \in {"origin", "inputs"}
  BY <1>1 DEF OriginOutcome
<1>7. QED
  BY <1>1, <1>2, <1>4, <1>5, <1>6, EndOriginKeeps

\* Once the place is covered, it is by the last amount.
LEMMA Covered ==
  ASSUME NEW t \in TxId, ~IsCoinbase(t), NEW v, PrefixOf(v, t), Len(v) # 0,
         NEW place \in Nat, SumOf(v, Len(v) - 1) <= place, place < SumOf(v, Len(v))
  PROVE  Holder(v, place) = Len(v)
<1> DEFINE n == Len(v)
           h == Holder(v, place)
<1>1. n \in Nat /\ DOMAIN v = 1 .. n /\ Amounts(v, n) /\ n \in 1 .. n
  BY PrefixSums
<1>2. SumOf(v, n) \in Nat
  BY <1>1, SumOfAll
<1>3. ~(SumOf(v, n) <= place)
  BY <1>2
<1>4. h \in 1 .. n /\ SumOf(v, h - 1) <= place /\ place < SumOf(v, h)
  BY <1>1, <1>3, HolderIs
<1>5. SumOf(v, n - 1) <= place /\ place < SumOf(v, n)
  OBVIOUS
<1> HIDE DEF h, n
<1>6. h = n
  BY <1>1, <1>4, <1>5, OneStretch
<1>7. QED
  BY <1>6 DEF h, n

LEMMA ValueInputKeeps == ASSUME IInv, ValueInput PROVE IInv'
<1> DEFINE t == at[1]
           i == Len(values) + 1
           p == TxOf[t].inputs[i]
           v == Append(values, Amount(p))
           place == Begins(at)
<1>1. pc = "inputs" /\ Tx = TxOf[t] /\ Valued = i /\ p # Coinbase /\ faulted' = faulted
      /\ Obtain(p[1])
  <2>1. Tx = TxOf[t] /\ Valued = i
    BY DEF Tx, Valued
  <2>2. pc = "inputs" /\ Tx.inputs[Valued] # Coinbase /\ faulted' = faulted
        /\ Obtain(Tx.inputs[Valued][1])
    BY DEF ValueInput
  <2> HIDE DEF t, i
  <2>3. QED
    BY <2>1, <2>2
<1>2. IF OutputOffset(TxOf[t], at[2]) + offset < SumOf(v, i)
      THEN Arrive(FollowBackward(TxOf[t], at[2], offset, v))
      ELSE /\ values' = v
           /\ UNCHANGED <<start, pc, at, offset, hop, hops, named, origin, tip, misled>>
  <2>1. /\ Tx = TxOf[t] /\ Valued = i /\ p = Tx.inputs[Valued]
        /\ TxOf[Tx.inputs[Valued][1]].outputs[Tx.inputs[Valued][2]] = Amount(p)
    BY DEF Tx, Valued, Amount
  <2> DEFINE a == TxOf[Tx.inputs[Valued][1]].outputs[Tx.inputs[Valued][2]]
             w == Append(values, a)
  <2>2. IF OutputOffset(Tx, at[2]) + offset < SumOf(w, Valued)
        THEN Arrive(FollowBackward(Tx, at[2], offset, w))
        ELSE /\ values' = w
             /\ UNCHANGED <<start, pc, at, offset, hop, hops, named, origin, tip, misled>>
    BY DEF ValueInput
  <2>3. w = v
    BY <2>1
  <2> HIDE DEF v, w, i, t
  <2>4. QED
    BY <2>1, <2>2, <2>3
<1>3. /\ Traced(at, start) /\ at \in Outpoint /\ t \in TxId /\ PrefixOf(values, t)
      /\ SumOf(values, Len(values)) <= place /\ offset = 0 /\ hop < MaxHops
      /\ Len(values) \in Nat /\ i \in DOMAIN TxOf[t].inputs /\ i <= Len(TxOf[t].inputs)
  BY <1>1, ValuingIs DEF Tx, Valued
<1>4. place \in Nat /\ OutputOffset(TxOf[t], at[2]) + offset = place
  <2>1. Begins(at) \in Nat /\ Begins(at) = OutputOffset(TxOf[t], at[2])
    BY <1>3, StretchIs DEF Begins
  <2>2. QED
    BY <1>3, <2>1
<1>5. ~IsCoinbase(t)
  <2>1. SUFFICES ASSUME IsCoinbase(t)
                 PROVE  FALSE
    OBVIOUS
  <2>2. values = << >> /\ i = 1
    BY <1>3, <2>1 DEF PrefixOf
  <2>3. QED
    BY <1>1, <2>1, <2>2 DEF IsCoinbase
<1>6. p \in Outpoint /\ p[1] \in TxId /\ Amount(p) \in Nat
  BY <1>3, <1>5, InputIs
<1>7. /\ Typed /\ hops = << >> /\ named = None /\ origin = None /\ tip = None
      /\ hop \in 0 .. MaxHops /\ misled \in BOOLEAN /\ (hop = 0 => at = start)
      /\ at \in TxId \X Nat /\ hops \in Seq(Outpoint \cup {None}) /\ values \in Seq(Nat)
  BY <1>1, TypedIs DEF IInv, WalkBack, Results
<1>8. BudgetTyped' /\ faulted' \in BOOLEAN
  BY <1>1, <1>6, <1>7, TypedIs, BudgetKept
<1>9. PrefixOf(v, t) /\ Len(v) = i /\ v \in Seq(Nat)
  <2> DEFINE a == Amount(p)
  <2>1. PrefixOf(values, t) /\ t \in TxId /\ Len(values) + 1 <= Len(TxOf[t].inputs)
        /\ a = Amount(TxOf[t].inputs[Len(values) + 1])
    BY <1>3
  <2>2. v = Append(values, a) /\ i = Len(values) + 1
    OBVIOUS
  <2> HIDE DEF v, t, i, p, a
  <2>3. PrefixOf(v, t) /\ Len(v) = i
    BY <1>5, <2>1, <2>2, PrefixGrows
  <2>4. QED
    BY <2>3 DEF PrefixOf
<1>10. v[i] = Amount(p) /\ SumOf(v, i - 1) <= place
  <2>1. v[i] = Amount(p)
    BY <1>3, <1>5, <1>6, <1>9, ValuesAre DEF PrefixOf
  <2>2. Len(values) \in 0 .. Len(values) /\ Len(values) \in 0 .. i /\ i - 1 = Len(values)
    BY <1>3
  <2> HIDE DEF v
  <2>3. SumOf(values, Len(values)) = SumOf(InValues(t), Len(values))
    BY <1>3, <1>5, <2>2, PrefixSums
  <2>4. SumOf(v, Len(values)) = SumOf(InValues(t), Len(values))
    BY <1>3, <1>5, <1>9, <2>2, PrefixSums
  <2>5. QED
    BY <1>3, <2>1, <2>2, <2>3, <2>4
<1> HIDE DEF t, v, place, p, i
<1>11. CASE place < SumOf(v, i)
  <2> DEFINE step == FollowBackward(TxOf[t], at[2], offset, v)
  <2>1. Arrive(step)
    BY <1>2, <1>4, <1>11
  <2>2. Holder(v, place) = i
    <3>1. Len(v) # 0
      BY <1>3, <1>9 DEF i
    <3>2. QED
      BY <1>3, <1>4, <1>5, <1>9, <1>10, <1>11, <3>1, Covered
  <2>3. /\ step.outpoint = p /\ step.parentSatoshis = Amount(p)
        /\ step.offsetInParentOutput = place - SumOf(v, i - 1)
    <3>1. step = [outpoint |-> TxOf[t].inputs[i],
                  offsetInParentOutput |-> place - SumOf(v, i - 1),
                  parentSatoshis |-> v[i]]
      BY <1>4, <2>2 DEF FollowBackward
    <3> HIDE DEF step
    <3>2. QED
      BY <1>10, <3>1 DEF p
  <2> HIDE DEF step
  <2>4. SumOf(InValues(t), i - 1) <= place /\ place < SumOf(InValues(t), i)
        /\ SumOf(v, i - 1) = SumOf(InValues(t), i - 1)
    <3>1. i - 1 \in 0 .. Len(v) /\ i \in 0 .. Len(v)
      BY <1>3, <1>9 DEF i
    <3>2. SumOf(v, i - 1) = SumOf(InValues(t), i - 1) /\ SumOf(v, i) = SumOf(InValues(t), i)
      BY <1>3, <1>5, <1>9, <3>1, PrefixSums
    <3>3. QED
      BY <1>10, <1>11, <3>2
  <2>5. /\ Amount(p) # 1 => Alone(start) /\ at = FirstAlone[start]
        /\ Amount(p) = 1 => Traced(p, start) /\ SumOf(InValues(t), i - 1) = place
    BY <1>3, <1>5, <2>4, TracedBack DEF p, t, place
  <2>6. CASE Amount(p) # 1
    <3>1. EndOrigin("origin", at)
      BY <2>1, <2>3, <2>6 DEF Arrive
    <3>2. OriginGood([outcome |-> "origin", origin |-> at], start)
      BY <2>5, <2>6 DEF OriginGood
    <3>3. "origin" \in OriginOutcome /\ pc \in {"origin", "inputs"}
      BY <1>1 DEF OriginOutcome
    <3>4. QED
      BY <1>3, <1>8, <3>1, <3>2, <3>3, EndOriginKeeps
  <2>7. CASE Amount(p) = 1
    <3>1. /\ at' = p /\ offset' = place - SumOf(v, i - 1) /\ hop' = hop + 1 /\ values' = << >>
          /\ pc' = "origin" /\ start' = start /\ hops' = hops /\ named' = named
          /\ origin' = origin /\ tip' = tip /\ misled' = misled
      BY <2>1, <2>3, <2>7 DEF Arrive
    <3>2. offset' = 0 /\ Traced(p, start)
      BY <1>4, <2>4, <2>5, <2>7, <3>1
    <3>3. hop' \in 0 .. MaxHops /\ hop' # 0
      BY <1>3, <1>7, <3>1, HopAssumption
    <3>4. p \in TxId \X Nat /\ << >> \in Seq(Nat)
      BY <1>6, OutpointsTyped
    <3>5. Typed'
      BY <1>7, <1>8, <3>1, <3>2, <3>3, <3>4, TypedStep
    <3>6. WalkBack'
      BY <1>7, <3>1, <3>2, <3>3 DEF WalkBack
    <3>7. WalkForward' /\ Results'
      BY <1>7, <3>1 DEF WalkForward, Results
    <3>8. QED
      BY <3>5, <3>6, <3>7 DEF IInv
  <2>8. QED
    BY <2>6, <2>7
<1>12. CASE ~(place < SumOf(v, i))
  <2>1. /\ values' = v /\ start' = start /\ pc' = pc /\ at' = at /\ offset' = offset
        /\ hop' = hop /\ hops' = hops /\ named' = named /\ origin' = origin /\ tip' = tip
        /\ misled' = misled
    BY <1>2, <1>4, <1>12
  <2>2. SumOf(v, Len(v)) <= place
    <3>1. i \in 0 .. Len(v)
      BY <1>3, <1>9 DEF i
    <3>2. SumOf(v, i) \in Nat
      BY <1>3, <1>5, <1>9, <3>1, PrefixSums
    <3>3. QED
      BY <1>4, <1>9, <1>12, <3>2
  <2>3. Typed'
    BY <1>1, <1>3, <1>7, <1>8, <1>9, <2>1, TypedStep
  <2>4. WalkBack'
    BY <1>1, <1>3, <1>7, <1>9, <2>1, <2>2 DEF WalkBack, t, place
  <2>5. WalkForward' /\ Results'
    BY <1>1, <1>7, <2>1 DEF WalkForward, Results
  <2>6. QED
    BY <2>3, <2>4, <2>5 DEF IInv
<1>13. QED
  BY <1>11, <1>12

-----------------------------------------------------------------------------
(* Every step of the walk forward keeps the invariant.                         *)

LEMMA OneSatoshi ==
  ASSUME NEW o \in Outpoint, Amount(o) = 1, NEW s, HoldsAt(o, 1, s)
  PROVE  Satoshis[o] = <<s>>
<1>1. Satoshis[o] \in Seq(Sats) /\ Len(Satoshis[o]) = 1
  BY SatoshisAre DEF Stretch
<1>2. Satoshis[o][1] = s
  BY DEF HoldsAt
<1>3. QED
  BY <1>1, <1>2

\* Where the walk forward is.
LEMMA ForwardIs ==
  ASSUME IInv, pc \in {"tip", "spender", "before"}
  PROVE  /\ Typed /\ at \in TxId \X Nat /\ at[1] \in TxId /\ at # None /\ offset = 0
         /\ misled \in BOOLEAN /\ hop \in 0 .. MaxHops
         /\ at \in Outpoint \cup {start} /\ Followed(at, start) /\ tip = None
         /\ start \in Outpoint /\ Amount(start) # 0 /\ at # start =>
              Satoshis[at] = <<First(start)>>
<1>1. /\ Typed /\ offset = 0 /\ (hop = 0 => at = start) /\ tip = None
      /\ (hop # 0 => at \in Outpoint /\ Amount(at) = 1) /\ Followed(at, start)
  BY DEF IInv, WalkForward, Results
<1>2. at \in TxId \X Nat /\ at[1] \in TxId /\ at \in Nat \X Nat /\ misled \in BOOLEAN
      /\ hop \in 0 .. MaxHops
  BY <1>1, TypedIs
<1>3. at # None
  BY <1>2, ShapeAssumption
<1>4. at \in Outpoint \cup {start}
  BY <1>1
<1>5. ASSUME start \in Outpoint, Amount(start) # 0, at # start
      PROVE  Satoshis[at] = <<First(start)>>
  BY <1>1, <1>5, OneSatoshi DEF Followed
<1>6. QED
  BY <1>1, <1>2, <1>3, <1>4, <1>5

\* Only an output is spent, and not by a coinbase.
LEMMA SpentIs ==
  ASSUME NEW t \in TxId, NEW o \in Nat \X Nat, Spends(t, o)
  PROVE  /\ o \in Outpoint /\ ~IsCoinbase(t)
         /\ InputSpending(TxOf[t], o) \in DOMAIN TxOf[t].inputs
         /\ TxOf[t].inputs[InputSpending(TxOf[t], o)] = o
<1> DEFINE i == InputSpending(TxOf[t], o)
<1>1. i \in DOMAIN TxOf[t].inputs /\ TxOf[t].inputs[i] = o
  BY SpendsIs
<1> HIDE DEF i
<1>2. ~IsCoinbase(t)
  <2>1. SUFFICES ASSUME IsCoinbase(t)
                 PROVE  FALSE
    OBVIOUS
  <2>2. o = Coinbase
    BY <1>1, <2>1 DEF IsCoinbase
  <2>3. QED
    BY <2>2, ShapeAssumption
<1>3. o \in Outpoint
  BY <1>1, <1>2, InputIs
<1>4. QED
  BY <1>1, <1>2, <1>3 DEF i

LEMMA TipHopLimitKeeps == ASSUME IInv, TipHopLimit PROVE IInv'
<1>1. /\ pc = "tip" /\ EndTip("truncated", at, None, hops)
      /\ UNCHANGED budget /\ faulted' = faulted /\ misled' = misled
  BY DEF TipHopLimit
<1>2. /\ at \in TxId \X Nat /\ at \in Outpoint \cup {start} /\ at # None
      /\ misled \in BOOLEAN
      /\ start \in Outpoint /\ Amount(start) # 0 /\ at # start =>
           Satoshis[at] = <<First(start)>>
  BY <1>1, ForwardIs
<1>3. /\ BudgetTyped' /\ faulted' \in BOOLEAN /\ hops \in Seq(Outpoint \cup {None})
  BY <1>1, TypedIs, BudgetKept DEF IInv
<1>4. TipGood([outcome |-> "truncated", current |-> at, lastSeen |-> None], start, misled')
  BY <1>2 DEF TipGood
<1>5. "truncated" \in TipOutcome
  BY DEF TipOutcome
<1>6. QED
  BY <1>1, <1>2, <1>3, <1>4, <1>5, EndTipKeeps

LEMMA LookUpKeeps == ASSUME IInv, NEW answer \in Answer, LookUp(answer) PROVE IInv'
<1>1. /\ pc = "tip" /\ hop < MaxHops /\ UNCHANGED budget /\ faulted' = faulted
      /\ misled' = (misled \/ IF answer.says = "spent" THEN ~Spends(answer.by, at)
                              ELSE \E t \in TxId : Spends(t, at))
  BY DEF LookUp
<1>2. /\ Typed /\ at \in TxId \X Nat /\ at \in Outpoint \cup {start} /\ at # None
      /\ misled \in BOOLEAN /\ hop \in 0 .. MaxHops /\ offset = 0 /\ tip = None
      /\ Followed(at, start)
      /\ start \in Outpoint /\ Amount(start) # 0 /\ at # start =>
           Satoshis[at] = <<First(start)>>
  BY <1>1, ForwardIs
<1>3. /\ BudgetTyped' /\ faulted' \in BOOLEAN /\ hops \in Seq(Outpoint \cup {None})
  BY <1>1, TypedIs, BudgetKept DEF IInv
<1>4. misled' \in BOOLEAN
  BY <1>1, <1>2
<1>5. CASE answer.says = "unknown"
  <2>1. EndTip("unresolved", at, None, hops)
    BY <1>5 DEF LookUp
  <2>2. TipGood([outcome |-> "unresolved", current |-> at, lastSeen |-> None], start, misled')
    BY <1>2 DEF TipGood
  <2>3. "unresolved" \in TipOutcome
    BY DEF TipOutcome
  <2>4. QED
    BY <1>1, <1>2, <1>3, <1>4, <2>1, <2>2, <2>3, EndTipKeeps
<1>6. CASE answer.says = "unspent"
  <2>1. EndTip("unrefuted", at, None, hops)
    BY <1>6 DEF LookUp
  <2>2. ~misled' => Unspent(at)
    BY <1>1, <1>6 DEF Unspent
  <2>3. TipGood([outcome |-> "unrefuted", current |-> at, lastSeen |-> None], start, misled')
    BY <1>2, <2>2 DEF TipGood
  <2>4. "unrefuted" \in TipOutcome
    BY DEF TipOutcome
  <2>5. QED
    BY <1>1, <1>2, <1>3, <1>4, <2>1, <2>3, <2>4, EndTipKeeps
<1>7. CASE answer.says = "spent"
  <2>1. answer.by \in TxId
    BY <1>7 DEF Answer
  <2>2. /\ named' = answer.by /\ pc' = "spender"
        /\ start' = start /\ at' = at /\ offset' = offset /\ hop' = hop /\ values' = values
        /\ hops' = hops /\ origin' = origin /\ tip' = tip
    BY <1>7 DEF LookUp
  <2>3. ~misled' => Spends(answer.by, at)
    BY <1>1, <1>7
  <2>4. /\ values = << >> /\ (hop = 0 => at = start)
        /\ (hop # 0 => at \in Outpoint /\ Amount(at) = 1)
        /\ OriginGood(origin, start)
    BY <1>1 DEF IInv, WalkForward, Results
  <2>5. Typed'
    <3>1. values \in Seq(Nat) /\ hops \in Seq(Outpoint \cup {None}) /\ offset \in Nat
      BY <1>2, TypedIs
    <3>2. QED
      BY <1>2, <1>3, <1>4, <2>1, <2>2, <3>1, TypedStep
  <2>6. WalkBack'
    BY <2>2 DEF WalkBack
  <2>7. WalkForward'
    BY <1>1, <1>2, <2>1, <2>2, <2>3, <2>4 DEF WalkForward
  <2>8. Results'
    BY <1>2, <2>2, <2>4 DEF Results
  <2>9. QED
    BY <2>5, <2>6, <2>7, <2>8 DEF IInv
<1>8. answer.says \in {"unknown", "unspent", "spent"}
  BY DEF Answer
<1>9. QED
  BY <1>5, <1>6, <1>7, <1>8

LEMMA ReadSpenderKeeps == ASSUME IInv, ReadSpender PROVE IInv'
<1>1. /\ pc = "spender" /\ Obtain(named) /\ faulted' = faulted /\ misled' = misled
      /\ IF Spends(named, at)
         THEN pc' = "before" /\ UNCHANGED <<start, walk, origin, tip>>
         ELSE EndTip("contradicted", None, None, hops)
  BY DEF ReadSpender
<1>2. /\ Typed /\ at \in TxId \X Nat /\ misled \in BOOLEAN /\ hop \in 0 .. MaxHops
      /\ offset = 0 /\ tip = None /\ Followed(at, start) /\ at \in Outpoint \cup {start}
  BY <1>1, ForwardIs
<1>3. /\ named \in TxId /\ hop < MaxHops /\ values = << >>
      /\ (~misled => Spends(named, at)) /\ (hop = 0 => at = start)
      /\ (hop # 0 => at \in Outpoint /\ Amount(at) = 1) /\ OriginGood(origin, start)
  BY <1>1 DEF IInv, WalkForward, Results
<1>4. /\ BudgetTyped' /\ faulted' \in BOOLEAN /\ hops \in Seq(Outpoint \cup {None})
      /\ values \in Seq(Nat) /\ at \in Nat \X Nat
  BY <1>1, <1>2, <1>3, TypedIs, BudgetKept
<1>5. CASE ~Spends(named, at)
  <2>1. TipGood([outcome |-> "contradicted", current |-> None, lastSeen |-> None], start, misled')
    BY <1>1, <1>3, <1>5 DEF TipGood
  <2>2. "contradicted" \in TipOutcome
    BY DEF TipOutcome
  <2>3. QED
    BY <1>1, <1>2, <1>4, <1>5, <2>1, <2>2, EndTipKeeps
<1>6. CASE Spends(named, at)
  <2>1. /\ pc' = "before" /\ start' = start /\ at' = at /\ offset' = offset /\ hop' = hop
        /\ values' = values /\ hops' = hops /\ named' = named
        /\ origin' = origin /\ tip' = tip
    BY <1>1, <1>6 DEF walk
  <2>2. PrefixOf(values, named) /\ Len(values) = 0
    BY <1>3, PrefixEmpty
  <2>3. InputSpending(TxOf[named], at) \in Nat \ {0}
    BY <1>3, <1>4, <1>6, SpentIs, ChainIs
  <2>4. Typed'
    BY <1>1, <1>2, <1>3, <1>4, <2>1, TypedStep
  <2>5. WalkBack'
    BY <2>1 DEF WalkBack
  <2>6. WalkForward'
    BY <1>2, <1>3, <1>6, <2>1, <2>2, <2>3 DEF WalkForward
  <2>7. Results'
    BY <1>2, <1>3, <2>1 DEF Results
  <2>8. QED
    BY <2>4, <2>5, <2>6, <2>7 DEF IInv
<1>7. QED
  BY <1>5, <1>6

LEMMA TipThrowsKeeps == ASSUME IInv, TipThrows PROVE IInv'
<1>1. /\ pc \in {"tip", "spender", "before"} /\ EndTip("threw", None, None, << >>)
      /\ faulted' \in BOOLEAN /\ misled' = misled /\ \E t : Refuse(t)
  BY DEF TipThrows
<1>2. BudgetTyped' /\ misled \in BOOLEAN
  BY <1>1, TypedIs, BudgetKept DEF IInv
<1>3. TipGood([outcome |-> "threw", current |-> None, lastSeen |-> None], start, misled')
  BY DEF TipGood
<1>4. "threw" \in TipOutcome /\ << >> \in Seq(Outpoint \cup {None})
  BY DEF TipOutcome
<1>5. QED
  BY <1>1, <1>2, <1>3, <1>4, EndTipKeeps

\* On the way to the input that spends the output.
LEMMA BeforeIs ==
  ASSUME IInv, pc = "before"
  PROVE  /\ named \in TxId /\ hop < MaxHops /\ (hop = 0 => at = start)
         /\ (hop # 0 => at \in Outpoint /\ Amount(at) = 1) /\ OriginGood(origin, start)
         /\ Spends(named, at) /\ PrefixOf(values, named)
         /\ Len(values) \in Nat /\ Valued = Len(values) + 1
         /\ Len(values) < InputSpending(TxOf[named], at)
         /\ at \in Outpoint /\ ~IsCoinbase(named) /\ InputSpending(TxOf[named], at) \in Nat
         /\ InputSpending(TxOf[named], at) \in DOMAIN TxOf[named].inputs
         /\ InputSpending(TxOf[named], at) <= Len(TxOf[named].inputs)
<1>1. /\ named \in TxId /\ hop < MaxHops /\ (hop = 0 => at = start)
      /\ (hop # 0 => at \in Outpoint /\ Amount(at) = 1) /\ OriginGood(origin, start)
      /\ Spends(named, at) /\ PrefixOf(values, named)
      /\ Len(values) < InputSpending(TxOf[named], at)
  BY DEF IInv, WalkForward, Results
<1>2. at \in Nat \X Nat
  BY TypedIs DEF IInv
<1>3. /\ at \in Outpoint /\ ~IsCoinbase(named)
      /\ InputSpending(TxOf[named], at) \in DOMAIN TxOf[named].inputs
  BY <1>1, <1>2, SpentIs
<1>4. Len(values) \in Nat
  BY <1>1 DEF PrefixOf
<1>5. InputSpending(TxOf[named], at) \in Nat
      /\ InputSpending(TxOf[named], at) <= Len(TxOf[named].inputs)
  BY <1>1, <1>3, ChainIs
<1>6. Valued = Len(values) + 1
  BY DEF Valued
<1>7. QED
  BY <1>1, <1>3, <1>4, <1>5, <1>6

LEMMA ValueBeforeKeeps == ASSUME IInv, ValueBefore PROVE IInv'
<1> DEFINE i == Len(values) + 1
           p == TxOf[named].inputs[i]
           v == Append(values, Amount(p))
<1>1. /\ pc = "before" /\ Valued < InputSpending(TxOf[named], at)
      /\ start' = start /\ pc' = pc /\ at' = at /\ offset' = offset /\ hop' = hop
      /\ hops' = hops /\ named' = named /\ origin' = origin /\ tip' = tip
      /\ faulted' = faulted /\ misled' = misled
  BY DEF ValueBefore
<1>2. Obtain(p[1]) /\ values' = v
  <2>1. /\ Obtain(TxOf[named].inputs[Valued][1])
        /\ values' = Append(values, Amount(TxOf[named].inputs[Valued]))
    BY DEF ValueBefore, Amount
  <2>2. Valued = i
    BY DEF Valued
  <2>3. QED
    BY <2>1, <2>2
<1>3. /\ Typed /\ at \in TxId \X Nat /\ misled \in BOOLEAN /\ hop \in 0 .. MaxHops
      /\ offset = 0 /\ tip = None /\ Followed(at, start)
  BY <1>1, ForwardIs
<1>4. /\ named \in TxId /\ hop < MaxHops /\ (hop = 0 => at = start)
      /\ (hop # 0 => at \in Outpoint /\ Amount(at) = 1) /\ OriginGood(origin, start)
      /\ Spends(named, at) /\ PrefixOf(values, named) /\ ~IsCoinbase(named)
      /\ Len(values) \in Nat /\ Valued = Len(values) + 1
      /\ InputSpending(TxOf[named], at) \in Nat
      /\ InputSpending(TxOf[named], at) <= Len(TxOf[named].inputs)
  BY <1>1, BeforeIs
<1>5. i <= Len(TxOf[named].inputs) /\ i < InputSpending(TxOf[named], at)
      /\ i \in DOMAIN TxOf[named].inputs
  <2>1. Len(TxOf[named].inputs) \in Nat /\ DOMAIN TxOf[named].inputs = 1 .. Len(TxOf[named].inputs)
    BY <1>4, ChainIs
  <2>2. QED
    BY <1>1, <1>4, <2>1
<1>6. p[1] \in TxId
  BY <1>4, <1>5, InputIs
<1>7. PrefixOf(v, named) /\ Len(v) = i
  BY <1>4, <1>5, PrefixGrows
<1> HIDE DEF p, v
<1>8. /\ BudgetTyped' /\ faulted' \in BOOLEAN /\ hops \in Seq(Outpoint \cup {None})
      /\ v \in Seq(Nat)
  BY <1>1, <1>2, <1>3, <1>6, <1>7, TypedIs, BudgetKept DEF PrefixOf
<1>9. Typed'
  BY <1>1, <1>2, <1>3, <1>4, <1>8, TypedStep
<1>10. WalkBack'
  BY <1>1 DEF WalkBack
<1>11. WalkForward'
  BY <1>1, <1>2, <1>3, <1>4, <1>5, <1>7 DEF WalkForward
<1>12. Results'
  BY <1>1, <1>3, <1>4 DEF Results
<1>13. QED
  BY <1>9, <1>10, <1>11, <1>12 DEF IInv

\* What the code computes of a hop is where the satoshi lands.
LEMMA ForwardStepIs ==
  ASSUME NEW t \in TxId, NEW o \in Outpoint, Spends(t, o), NEW v, PrefixOf(v, t),
         Len(v) = InputSpending(TxOf[t], o) - 1
  PROVE  FollowForward(TxOf[t], o, 0, v) =
           IF Landing(t, o) = 0 THEN [vout |-> 0, offsetInOutput |-> 0, satoshis |-> 0]
           ELSE [vout |-> Landing(t, o),
                 offsetInOutput |-> Entry(t, o) - Begins(<<t, Landing(t, o)>>),
                 satoshis |-> Amount(<<t, Landing(t, o)>>)]
<1> DEFINE i == InputSpending(TxOf[t], o)
<1>1. ~IsCoinbase(t)
  BY SpendsIs
<1>2. Len(v) \in Nat /\ Len(v) \in 0 .. Len(v)
  BY <1>1, PrefixSums
<1>3. SumOf(v, i - 1) = Entry(t, o)
  BY <1>1, <1>2, PrefixSums DEF Entry
<1>4. SumOf(v, i - 1) + 0 = Entry(t, o)
  <2>1. Entry(t, o) \in Nat
    BY LandingIs
  <2>2. QED
    BY <1>3, <2>1
<1> HIDE DEF i
<1>5. FollowForward(TxOf[t], o, 0, v) = OutputAtOffset(TxOf[t], Entry(t, o))
  BY <1>4 DEF FollowForward, i
<1>6. /\ OutputOffset(TxOf[t], Landing(t, o)) = Begins(<<t, Landing(t, o)>>)
      /\ TxOf[t].outputs[Landing(t, o)] = Amount(<<t, Landing(t, o)>>)
  BY DEF Begins, Amount
<1>7. Holder(TxOf[t].outputs, Entry(t, o)) = Landing(t, o)
  BY DEF Landing
<1>8. QED
  BY <1>5, <1>6, <1>7 DEF OutputAtOffset

LEMMA LandKeeps == ASSUME IInv, Land PROVE IInv'
<1> DEFINE v == Landing(named, at)
           x == Entry(named, at)
           landed == <<named, v>>
           s == First(start)
<1>1. /\ pc = "before" /\ Valued >= InputSpending(TxOf[named], at)
      /\ UNCHANGED budget /\ faulted' = faulted /\ misled' = misled
  BY DEF Land
<1>2. /\ Typed /\ at \in TxId \X Nat /\ misled \in BOOLEAN /\ hop \in 0 .. MaxHops
      /\ offset = 0 /\ tip = None /\ Followed(at, start)
  BY <1>1, ForwardIs
<1>3. /\ named \in TxId /\ hop < MaxHops /\ OriginGood(origin, start)
      /\ Spends(named, at) /\ PrefixOf(values, named) /\ at \in Outpoint
      /\ Len(values) \in Nat /\ Valued = Len(values) + 1
      /\ Len(values) < InputSpending(TxOf[named], at)
      /\ InputSpending(TxOf[named], at) \in Nat
  BY <1>1, BeforeIs
<1>4. Len(values) = InputSpending(TxOf[named], at) - 1
  BY <1>1, <1>3
<1>5. FollowForward(TxOf[named], at, offset, values) =
        IF v = 0 THEN [vout |-> 0, offsetInOutput |-> 0, satoshis |-> 0]
        ELSE [vout |-> v, offsetInOutput |-> x - Begins(landed), satoshis |-> Amount(landed)]
  BY <1>2, <1>3, <1>4, ForwardStepIs
<1>6. /\ BudgetTyped' /\ faulted' \in BOOLEAN /\ hops \in Seq(Outpoint \cup {None})
  BY <1>1, <1>2, TypedIs, BudgetKept
<1>7. x \in Nat
  BY <1>3, LandingIs
<1>8. ASSUME v # 0
      PROVE  /\ landed \in Outpoint /\ Begins(landed) \in Nat /\ Amount(landed) \in Nat
             /\ Begins(landed) <= x /\ x < Begins(landed) + Amount(landed)
  BY <1>3, <1>8, LandingIs
<1>9. at[1] < named /\ at[1] \in Nat /\ named \in Nat
  BY <1>3, SpentOnce, OutpointIs, ChainIs
<1>10. ASSUME start \in Outpoint, Amount(start) # 0
       PROVE  /\ HoldsAt(at, 1, s) /\ start[1] <= at[1] /\ start[1] \in Nat
              /\ v = 0 => \A q \in Outpoint : Keeps(q, s) => q[1] <= at[1]
              /\ v # 0 => HoldsAt(landed, x + 1 - Begins(landed), s)
  <2>1. HoldsAt(at, 1, s) /\ start[1] <= at[1]
    BY <1>2, <1>10 DEF Followed
  <2> HIDE DEF s
  <2>2. QED
    BY <1>3, <1>10, <2>1, Lands, OutpointIs
<1> DEFINE step == FollowForward(TxOf[named], at, offset, values)
<1>11. IF step.vout = 0 THEN EndTip("fee", None, None, Append(hops, None))
       ELSE IF step.satoshis # 1
            THEN EndTip("merged", None, <<named, step.vout>>, Append(hops, <<named, step.vout>>))
       ELSE /\ at' = <<named, step.vout>> /\ offset' = step.offsetInOutput /\ hop' = hop + 1
            /\ hops' = Append(hops, <<named, step.vout>>) /\ values' = << >> /\ named' = None
            /\ pc' = "tip" /\ start' = start /\ origin' = origin /\ tip' = tip
  BY DEF Land
<1> HIDE DEF step, v, x, s
<1>12. CASE v = 0
  <2>1. step.vout = 0
    BY <1>5, <1>12 DEF step
  <2>2. EndTip("fee", None, None, Append(hops, None))
    BY <1>11, <2>1
  <2>3. ASSUME start \in Outpoint, Amount(start) # 0
        PROVE  \E p \in Future(start) \cup {start} :
                 Holds(p, s) /\ ~Unspent(p) /\ \A q \in Future(start) : q[1] <= p[1]
    <3>1. Keeps(at, s) /\ Holds(at, s)
      BY <1>3, <1>10, <2>3, KeepsIs DEF Keeps
    <3>2. at \in Future(start) \cup {start}
      <4>1. CASE at[1] = start[1]
        <5>1. Keeps(start, s)
          <6>1. Amount(start) \in Nat
            BY <2>3, OutpointIs
          <6>2. HoldsAt(start, 1, s)
            BY <2>3, <6>1 DEF HoldsAt, s, First
          <6>3. QED
            BY <2>3, <6>2 DEF Keeps
        <5>2. at = start
          BY <3>1, <4>1, <5>1, OneOfTx
        <5>3. QED
          BY <5>2
      <4>2. CASE at[1] # start[1]
        <5>1. at[1] > start[1]
          BY <1>9, <1>10, <2>3, <4>2
        <5>2. QED
          BY <1>3, <3>1, <5>1 DEF Future, s, First
      <4>3. QED
        BY <4>1, <4>2
    <3>3. ~Unspent(at)
      BY <1>3 DEF Unspent
    <3>4. ASSUME NEW q \in Future(start)
          PROVE  q[1] <= at[1]
      <4>1. q \in Outpoint /\ Holds(q, s)
        BY DEF Future, s, First
      <4>2. Keeps(q, s)
        BY <4>1, KeepsIs
      <4>3. QED
        BY <1>10, <1>12, <2>3, <4>1, <4>2
    <3>5. QED
      BY <3>1, <3>2, <3>3, <3>4
  <2>4. TipGood([outcome |-> "fee", current |-> None, lastSeen |-> None], start, misled')
    BY <2>3 DEF TipGood, s
  <2>5. "fee" \in TipOutcome /\ Append(hops, None) \in Seq(Outpoint \cup {None})
    BY <1>6 DEF TipOutcome
  <2>6. QED
    BY <1>1, <1>2, <1>6, <2>2, <2>4, <2>5, EndTipKeeps
<1>13. CASE v # 0 /\ Amount(landed) # 1
  <2>1. step.vout = v /\ step.satoshis = Amount(landed)
    BY <1>5, <1>13 DEF step
  <2>2. EndTip("merged", None, landed, Append(hops, landed))
    BY <1>11, <1>13, <2>1
  <2>3. landed \in Outpoint /\ ~Alone(landed)
    BY <1>8, <1>13, SatoshisAre
  <2>4. ASSUME start \in Outpoint, Amount(start) # 0
        PROVE  Holds(landed, s)
    <3>1. HoldsAt(landed, x + 1 - Begins(landed), s)
      BY <1>10, <1>13, <2>4
    <3>2. Keeps(landed, s)
      BY <2>3, <3>1, HoldsEntered DEF Keeps
    <3>3. QED
      BY <2>3, <3>2, KeepsIs
  <2> HIDE DEF landed
  <2>5. TipGood([outcome |-> "merged", current |-> None, lastSeen |-> landed], start, misled')
    BY <2>3, <2>4 DEF TipGood, s
  <2>6. "merged" \in TipOutcome /\ Append(hops, landed) \in Seq(Outpoint \cup {None})
    BY <1>6, <2>3 DEF TipOutcome
  <2>7. QED
    BY <1>1, <1>2, <1>6, <2>2, <2>3, <2>5, <2>6, EndTipKeeps
<1>14. CASE v # 0 /\ Amount(landed) = 1
  <2>1. step.vout = v /\ step.satoshis = 1 /\ step.offsetInOutput = x - Begins(landed)
    BY <1>5, <1>14 DEF step
  <2>2. /\ at' = landed /\ offset' = x - Begins(landed) /\ hop' = hop + 1
        /\ hops' = Append(hops, landed) /\ values' = << >> /\ named' = None
        /\ pc' = "tip" /\ start' = start /\ origin' = origin /\ tip' = tip
    BY <1>11, <1>14, <2>1
  <2>3. landed \in Outpoint /\ x - Begins(landed) = 0 /\ x + 1 - Begins(landed) = 1
    BY <1>7, <1>8, <1>14
  <2>4. Followed(landed, start)
    <3>1. ASSUME start \in Outpoint
          PROVE  start[1] <= landed[1]
      <4>1. start[1] <= at[1] /\ start[1] \in Nat
        BY <1>2, <3>1, OutpointIs DEF Followed
      <4>2. QED
        BY <1>9, <4>1
    <3>2. ASSUME start \in Outpoint, Amount(start) # 0
          PROVE  HoldsAt(landed, 1, First(start))
      BY <1>10, <1>14, <2>3, <3>2 DEF s
    <3>3. QED
      BY <2>3, <3>1, <3>2 DEF Followed
  <2>5. hop' \in 0 .. MaxHops /\ hop' # 0
    BY <1>2, <1>3, <2>2, HopAssumption
  <2> HIDE DEF landed
  <2>6. landed \in TxId \X Nat /\ << >> \in Seq(Nat)
        /\ Append(hops, landed) \in Seq(Outpoint \cup {None})
    BY <1>6, <2>3, OutpointsTyped
  <2>7. Typed'
    BY <1>1, <1>2, <1>6, <2>2, <2>3, <2>5, <2>6, TypedStep
  <2>8. WalkBack'
    BY <2>2 DEF WalkBack
  <2>9. WalkForward'
    BY <1>14, <2>2, <2>3, <2>4, <2>5 DEF WalkForward
  <2>10. Results'
    BY <1>2, <1>3, <2>2 DEF Results
  <2>11. QED
    BY <2>7, <2>8, <2>9, <2>10 DEF IInv
<1>15. QED
  BY <1>12, <1>13, <1>14

-----------------------------------------------------------------------------
(* The properties of the walks. *)

LEMMA InvariantKept == IInv /\ [Next]_vars => IInv'
<1> SUFFICES ASSUME IInv, [Next]_vars
             PROVE  IInv'
  OBVIOUS
<1>1. CASE UNCHANGED vars
  <2>1. /\ start' = start /\ pc' = pc /\ at' = at /\ offset' = offset /\ hop' = hop
        /\ values' = values /\ hops' = hops /\ named' = named /\ read' = read
        /\ fetches' = fetches /\ origin' = origin /\ tip' = tip
        /\ faulted' = faulted /\ misled' = misled
    BY <1>1 DEF vars, walk, budget
  <2>2. Typed'
    BY <2>1 DEF IInv, Typed, TypeOK
  <2>3. WalkBack'
    BY <2>1 DEF IInv, WalkBack
  <2>4. WalkForward'
    BY <2>1 DEF IInv, WalkForward
  <2>5. Results'
    BY <2>1 DEF IInv, Results
  <2>6. QED
    BY <2>2, <2>3, <2>4, <2>5 DEF IInv
<1>2. CASE OriginHopLimit
  BY <1>2, OriginHopLimitKeeps
<1>3. CASE ReadOutput
  BY <1>3, ReadOutputKeeps
<1>4. CASE ReachCoinbase
  BY <1>4, ReachCoinbaseKeeps
<1>5. CASE ValueInput
  BY <1>5, ValueInputKeeps
<1>6. CASE OriginThrows
  BY <1>6, OriginThrowsKeeps
<1>7. CASE TipHopLimit
  BY <1>7, TipHopLimitKeeps
<1>8. CASE \E answer \in Answer : LookUp(answer)
  BY <1>8, LookUpKeeps
<1>9. CASE ReadSpender
  BY <1>9, ReadSpenderKeeps
<1>10. CASE ValueBefore
  BY <1>10, ValueBeforeKeeps
<1>11. CASE Land
  BY <1>11, LandKeeps
<1>12. CASE TipThrows
  BY <1>12, TipThrowsKeeps
<1>13. QED
  BY <1>1, <1>2, <1>3, <1>4, <1>5, <1>6, <1>7, <1>8, <1>9, <1>10, <1>11, <1>12
     DEF Next, Step, Done

LEMMA InvariantHolds == Spec => []IInv
<1>1. Init => IInv
  BY InvariantAtFirst
<1>2. IInv /\ [Next]_vars => IInv'
  BY InvariantKept
<1>3. QED
  BY <1>1, <1>2, PTL DEF Spec

LEMMA InvariantSays ==
  ASSUME IInv
  PROVE  TypeOK /\ OriginTrue /\ TipTrue /\ HolderFound
<1>1. TypeOK
  BY DEF IInv, Typed
<1>2. OriginTrue
  <2>1. ASSUME origin # None, start \in Outpoint
        PROVE  OriginGood(origin, start)
    BY <2>1 DEF IInv, Results, WalkBack
  <2>2. QED
    BY <2>1 DEF OriginTrue, OriginGood, ProvenOrigin
<1>3. ASSUME tip # None
      PROVE  TipGood(tip, start, misled)
  BY <1>3 DEF IInv, Results
<1>4. ASSUME start \in Outpoint, Satoshis[start] # << >>
      PROVE  Amount(start) # 0
  <2>1. Satoshis[start] \in Seq(Sats) /\ Len(Satoshis[start]) = Amount(start)
    BY <1>4, SatoshisAre DEF Stretch
  <2>2. QED
    BY <1>4, <2>1
<1>5. TipTrue
  BY <1>3, <1>4 DEF TipTrue, TipGood, First
<1>6. HolderFound
  BY <1>3 DEF HolderFound, TipGood, ProvenTransfers
<1>7. QED
  BY <1>1, <1>2, <1>5, <1>6

\* The walks only ever have hops, budgets and results that are such.
THEOREM TypeCorrect == Spec => []TypeOK
<1>1. IInv => TypeOK
  BY InvariantSays
<1>2. QED
  BY <1>1, InvariantHolds, PTL

\* On every chain, the origin reported is where the satoshi began to stand
\* alone, and only the limits, or a transaction that cannot be had, keep the walk
\* from finding it. (walkToOrigin, src/services/verify.js)
THEOREM OriginIsTrue == Spec => []OriginTrue
<1>1. IInv => OriginTrue
  BY InvariantSays
<1>2. QED
  BY <1>1, InvariantHolds, PTL

\* Whatever the indexes answer, the satoshi is where the walk forward says it
\* went. (walkToTip, src/services/verify.js)
THEOREM TipIsTrue == Spec => []TipTrue
<1>1. IInv => TipTrue
  BY InvariantSays
<1>2. QED
  BY <1>1, InvariantHolds, PTL

\* With indexes that tell the truth, the holder reported is the last one.
\* (walkToTip, src/services/verify.js)
THEOREM HolderIsFound == Spec => []HolderFound
<1>1. IInv => HolderFound
  BY InvariantSays
<1>2. QED
  BY <1>1, InvariantHolds, PTL

-----------------------------------------------------------------------------
(* The request that compares a claim with the walks.                           *)

\* A request walks as Verify does, or not at all: what the walks guarantee holds
\* of every request. (routes/ordinals.js, the call of verifyOrdinal)
THEOREM PositionWalks == PositionSpec => Spec
<1>1. PositionInit => Init
  BY DEF PositionInit
<1>2. [PositionNext]_positionVars => [Next]_vars
  <2>1. ASSUME PositionStep
        PROVE  Step \/ UNCHANGED vars
    BY <2>1 DEF PositionStep, Trace, TraceUnavailable, Walks, Compares, Inspects,
                InspectsNothing, Shows
  <2>2. ASSUME Replied \/ UNCHANGED positionVars
        PROVE  UNCHANGED vars
    BY <2>2 DEF Replied, positionVars
  <2>3. QED
    BY <2>1, <2>2 DEF PositionNext, Next
<1>3. QED
  BY <1>1, <1>2, PTL DEF PositionSpec, Spec

\* The verdict comes after the walks, and neither they nor the claim change then.
VerdictAfter ==
  /\ phase \in {"trace", "walk"} => verdict = None
  /\ VerdictIsTrue

\* Where the walk forward left the satoshi it has it.
LEMMA TipKeeps ==
  ASSUME IInv, pc = "done", start \in Outpoint, Alone(start), tip.outcome = "unrefuted"
  PROVE  tip.current # None /\ Keeps(tip.current, First(start))
<1>1. TipGood(tip, start, misled)
  BY DEF IInv, Results
<1>2. Amount(start) = 1
  BY SatoshisAre
<1>3. tip.current # None /\ tip.current \in Outpoint \cup {start}
  BY <1>1 DEF TipGood
<1>4. CASE tip.current = start
  <2>1. HoldsAt(start, 1, First(start))
    BY <1>2 DEF HoldsAt, First
  <2>2. QED
    BY <1>3, <1>4, <2>1 DEF Keeps
<1>5. CASE tip.current # start
  <2> DEFINE o == tip.current
  <2>1. o \in Outpoint /\ Satoshis[o] = <<First(start)>>
    BY <1>1, <1>2, <1>3, <1>5 DEF TipGood
  <2> HIDE DEF o
  <2>2. Len(Satoshis[o]) = Amount(o) /\ Satoshis[o][1] = First(start) /\ Len(Satoshis[o]) = 1
    BY <2>1, SatoshisAre DEF Stretch
  <2>3. Keeps(o, First(start))
    BY <2>1, <2>2 DEF Keeps, HoldsAt
  <2>4. QED
    BY <1>3, <2>3 DEF o
<1>6. QED
  BY <1>4, <1>5

LEMMA VerdictGood ==
  ASSUME IInv, pc = "done", start \in Outpoint
  PROVE  /\ Verdict.verified => Alone(start) /\ claim.genesis \in {None, FirstAlone[start]}
         /\ Verdict.origin = "mismatch" => claim.genesis # FirstAlone[start]
         /\ Verdict.origin = "match" => claim.genesis = FirstAlone[start]
         /\ ~misled /\ tip.outcome = "unrefuted" /\ Alone(start) =>
              /\ Verdict.current = "mismatch" =>
                   claim.current \notin Journey[start] \/ ~Unspent(claim.current)
              /\ Verdict.current = "match" => Unspent(claim.current)
<1>1. /\ Verdict.verified = (origin.origin # None /\ Compare(origin.origin, claim.genesis) # "mismatch")
      /\ Verdict.origin = Compare(origin.origin, claim.genesis)
      /\ Verdict.current = Compare(tip.current, claim.current)
  BY DEF Verdict, ProvenOrigin
<1>2. origin.origin # None => Alone(start) /\ origin.origin = FirstAlone[start]
  BY DEF IInv, Results, OriginGood
<1>3. ASSUME NEW x, NEW y
      PROVE  /\ Compare(x, y) = "match" => x = y /\ x # None /\ y # None
             /\ Compare(x, y) = "mismatch" => x # y /\ x # None /\ y # None
             /\ x # None /\ Compare(x, y) # "mismatch" => y \in {None, x}
  BY DEF Compare
<1>4. Verdict.verified => Alone(start) /\ claim.genesis \in {None, FirstAlone[start]}
  BY <1>1, <1>2, <1>3
<1>5. /\ Verdict.origin = "mismatch" => claim.genesis # FirstAlone[start]
      /\ Verdict.origin = "match" => claim.genesis = FirstAlone[start]
  BY <1>1, <1>2, <1>3
<1>6. ASSUME ~misled, tip.outcome = "unrefuted", Alone(start)
      PROVE  /\ Verdict.current = "mismatch" =>
                  claim.current \notin Journey[start] \/ ~Unspent(claim.current)
             /\ Verdict.current = "match" => Unspent(claim.current)
  <2>1. tip.current # None /\ Keeps(tip.current, First(start))
    BY <1>6, TipKeeps
  <2>2. Unspent(tip.current)
    BY <1>6, <2>1 DEF IInv, Results, TipGood
  <2>3. ASSUME claim.current \in Journey[start], Unspent(claim.current)
        PROVE  claim.current = tip.current
    <3>1. claim.current \in Outpoint /\ Holds(claim.current, First(start))
      BY <2>3 DEF Journey, First
    <3>2. Keeps(claim.current, First(start))
      BY <3>1, KeepsIs
    <3>3. QED
      BY <2>1, <2>2, <2>3, <3>2, OneHolder
  <2>4. QED
    BY <1>1, <1>3, <2>2, <2>3
<1>7. QED
  BY <1>4, <1>5, <1>6

\* What a reply calls verified has the true origin or names none, a true claim is
\* never called mismatched nor a false one matched, and of the holder the same as
\* long as the indexes tell the truth. (routes/ordinals.js, the comparison)
THEOREM VerdictsAreTrue == PositionSpec => []VerdictIsTrue
<1>1. PositionInit => VerdictAfter
  BY DEF PositionInit, VerdictAfter, VerdictIsTrue
<1>2. IInv /\ VerdictAfter /\ [PositionNext]_positionVars => VerdictAfter'
  <2> SUFFICES ASSUME IInv, VerdictAfter, [PositionNext]_positionVars
               PROVE  VerdictAfter'
    OBVIOUS
  <2>1. ASSUME verdict = None, verdict' = None
        PROVE  VerdictAfter'
    BY <2>1 DEF VerdictAfter, VerdictIsTrue
  <2>2. CASE \E indexer \in DOMAIN KnowsLatest : Trace(indexer)
    BY <2>1, <2>2 DEF Trace, VerdictAfter
  <2>3. CASE TraceUnavailable
    BY <2>1, <2>3 DEF TraceUnavailable, VerdictAfter
  <2>4. CASE Walks
    BY <2>1, <2>4 DEF Walks, VerdictAfter, position
  <2>5. CASE Compares
    <3>1. /\ pc = "done" /\ verdict' = Verdict /\ phase' = "inspect"
          /\ claim' = claim /\ start' = start /\ tip' = tip /\ misled' = misled
      BY <2>5 DEF Compares, vars
    <3> DEFINE given == Verdict
    <3>2. VerdictIsTrue'
      <4>1. verdict' = given
        BY <3>1
      <4>2. ASSUME start \in Outpoint
            PROVE  /\ given.verified => Alone(start) /\ claim.genesis \in {None, FirstAlone[start]}
                   /\ given.origin = "mismatch" => claim.genesis # FirstAlone[start]
                   /\ given.origin = "match" => claim.genesis = FirstAlone[start]
                   /\ ~misled /\ tip.outcome = "unrefuted" /\ Alone(start) =>
                        /\ given.current = "mismatch" =>
                             claim.current \notin Journey[start] \/ ~Unspent(claim.current)
                        /\ given.current = "match" => Unspent(claim.current)
        BY <3>1, <4>2, VerdictGood
      <4> HIDE DEF given
      <4>3. QED
        BY <3>1, <4>1, <4>2 DEF VerdictIsTrue
    <3>3. QED
      BY <3>1, <3>2 DEF VerdictAfter
  <2>6. ASSUME Inspects \/ InspectsNothing \/ Shows \/ Replied \/ UNCHANGED positionVars
        PROVE  VerdictAfter'
    <3>1. /\ verdict' = verdict /\ claim' = claim /\ start' = start /\ tip' = tip
          /\ misled' = misled /\ (phase' \in {"trace", "walk"} => phase \in {"trace", "walk"})
      BY <2>6 DEF Inspects, InspectsNothing, Shows, Replied, positionVars, position, vars
    <3>2. VerdictIsTrue'
      BY <3>1 DEF VerdictAfter, VerdictIsTrue
    <3>3. QED
      BY <3>1, <3>2 DEF VerdictAfter
  <2>7. QED
    BY <2>2, <2>3, <2>4, <2>5, <2>6 DEF PositionNext, PositionStep
<1>3. VerdictAfter => VerdictIsTrue
  BY DEF VerdictAfter
<1>4. QED
  BY <1>1, <1>2, <1>3, PositionWalks, InvariantHolds, PTL DEF PositionSpec

-----------------------------------------------------------------------------
(* The trail a walk forward leaves: where the satoshi was, all of it, in order. *)

\* h has everywhere the satoshi alone at `from' went on its way to `to'.
Trail(h, from, to) ==
  /\ h \in Seq(Outpoint) /\ to \in Outpoint
  /\ \A i \in 1 .. Len(h) : from[1] < h[i][1]
  /\ \A i, j \in 1 .. Len(h) : i < j => h[i][1] < h[j][1]
  /\ Keeps(to, First(from)) /\ from[1] <= to[1]
  /\ \A p \in Outpoint :
       Keeps(p, First(from)) /\ from[1] <= p[1] /\ p[1] <= to[1] <=>
         p = from \/ \E i \in 1 .. Len(h) : p = h[i]
  /\ \A i \in 1 .. Len(h) : h[i][1] < to[1] => Amount(h[i]) = 1

LEMMA TrailFirst ==
  ASSUME NEW from \in Outpoint, Amount(from) = 1
  PROVE  Trail(<< >>, from, from)
<1>1. Keeps(from, First(from)) /\ from[1] \in Nat
  BY OutpointIs DEF HoldsAt, First, Keeps
<1>2. ASSUME NEW p \in Outpoint, Keeps(p, First(from)), from[1] <= p[1], p[1] <= from[1]
      PROVE  p = from
  <2>1. p[1] = from[1]
    BY <1>1, <1>2, OutpointIs
  <2>2. QED
    BY <1>1, <1>2, <2>1, OneOfTx
<1>3. QED
  BY <1>1, <1>2 DEF Trail

LEMMA TrailGrows ==
  ASSUME NEW h, NEW from \in Outpoint, NEW to, Trail(h, from, to), Amount(to) = 1,
         NEW t \in TxId, Spends(t, to),
         NEW landed \in Outpoint, landed[1] = t, Keeps(landed, First(from))
  PROVE  Trail(Append(h, landed), from, landed)
<1> DEFINE s == First(from)
           g == Append(h, landed)
           n == Len(h)
<1>1. /\ h \in Seq(Outpoint) /\ to \in Outpoint
      /\ \A i \in 1 .. n : from[1] < h[i][1]
      /\ \A i, j \in 1 .. n : i < j => h[i][1] < h[j][1]
      /\ Keeps(to, s) /\ from[1] <= to[1]
      /\ \A p \in Outpoint :
           Keeps(p, s) /\ from[1] <= p[1] /\ p[1] <= to[1] <=>
             p = from \/ \E i \in 1 .. n : p = h[i]
      /\ \A i \in 1 .. n : h[i][1] < to[1] => Amount(h[i]) = 1
  BY DEF Trail
<1>2. Keeps(landed, s)
  OBVIOUS
<1> HIDE DEF s
<1>3. /\ to[1] < t /\ t \in Nat /\ to[1] \in Nat /\ from[1] \in Nat /\ from[1] < t
  BY <1>1, SpentOnce, OutpointIs
<1>4. /\ n \in Nat /\ g \in Seq(Outpoint) /\ Len(g) = n + 1 /\ g[n + 1] = landed
      /\ \A i \in 1 .. n : g[i] = h[i] /\ h[i] \in Outpoint
  BY <1>1
<1> HIDE DEF g, n
<1>5. ASSUME NEW i \in 1 .. n
      PROVE  /\ g[i] = h[i] /\ h[i] \in Outpoint /\ h[i][1] \in Nat /\ Keeps(h[i], s)
             /\ h[i][1] <= to[1] /\ h[i][1] < t /\ Amount(h[i]) = 1
  <2>1. g[i] = h[i] /\ h[i] \in Outpoint
    BY <1>4
  <2>2. Keeps(h[i], s) /\ h[i][1] <= to[1]
    BY <1>1, <2>1
  <2>3. h[i][1] \in Nat
    BY <2>1, OutpointIs
  <2>4. h[i][1] < t
    BY <1>3, <2>2, <2>3
  <2>5. CASE h[i][1] < to[1]
    BY <1>1, <2>1, <2>2, <2>3, <2>4, <2>5
  <2>6. CASE ~ (h[i][1] < to[1])
    <3>1. h[i][1] = to[1]
      BY <1>3, <2>2, <2>3, <2>6
    <3>2. h[i] = to
      BY <1>1, <2>2, <3>1, OneOfTx
    <3>3. QED
      BY <2>1, <2>2, <2>3, <2>4, <3>2
  <2>7. QED
    BY <2>5, <2>6
<1>6. ASSUME NEW i \in 1 .. n + 1
      PROVE  i \in 1 .. n \/ (i = n + 1 /\ g[i] = landed)
  BY <1>4
<1>7. ASSUME NEW i \in 1 .. n + 1
      PROVE  from[1] < g[i][1] /\ (g[i][1] < landed[1] => Amount(g[i]) = 1)
  <2>1. CASE i \in 1 .. n
    BY <1>1, <1>5, <2>1
  <2>2. CASE i = n + 1 /\ g[i] = landed
    BY <1>3, <2>2
  <2>3. QED
    BY <1>6, <2>1, <2>2
<1>8. ASSUME NEW i \in 1 .. n + 1, NEW j \in 1 .. n + 1, i < j
      PROVE  g[i][1] < g[j][1]
  <2>1. i \in 1 .. n
    BY <1>4, <1>8
  <2>2. CASE j \in 1 .. n
    BY <1>1, <1>5, <1>8, <2>1, <2>2
  <2>3. CASE j = n + 1 /\ g[j] = landed
    BY <1>5, <2>1, <2>3
  <2>4. QED
    BY <1>6, <2>2, <2>3
<1>9. ASSUME NEW p \in Outpoint, Keeps(p, s), from[1] <= p[1], p[1] <= landed[1]
      PROVE  p = from \/ \E i \in 1 .. n + 1 : p = g[i]
  <2>1. p[1] \in Nat
    BY OutpointIs
  <2>2. CASE p[1] = t
    <3>1. p = landed
      BY <1>2, <1>9, <2>2, OneOfTx
    <3>2. n + 1 \in 1 .. n + 1
      BY <1>4
    <3>3. QED
      BY <1>4, <3>1, <3>2
  <2>3. CASE p[1] < t
    <3>1. p = to \/ p[1] < to[1]
      BY <1>1, <1>9, <2>3, CameFrom
    <3>2. p[1] <= to[1]
      BY <1>3, <2>1, <3>1
    <3>3. p = from \/ \E i \in 1 .. n : p = h[i]
      BY <1>1, <1>9, <3>2
    <3>4. \A i \in 1 .. n : i \in 1 .. n + 1
      BY <1>4
    <3>5. QED
      BY <1>5, <3>3, <3>4
  <2>4. QED
    BY <1>3, <1>9, <2>1, <2>2, <2>3
<1>10. ASSUME NEW p \in Outpoint, p = from \/ \E i \in 1 .. n + 1 : p = g[i]
       PROVE  Keeps(p, s) /\ from[1] <= p[1] /\ p[1] <= landed[1]
  <2>1. CASE p = from
    <3>1. Keeps(p, s)
      BY <1>1, <2>1
    <3>2. QED
      BY <1>3, <2>1, <3>1
  <2>2. ASSUME NEW i \in 1 .. n + 1, p = g[i]
        PROVE  Keeps(p, s) /\ from[1] <= p[1] /\ p[1] <= landed[1]
    <3>1. from[1] < g[i][1]
      BY <1>7
    <3>2. p[1] \in Nat
      BY OutpointIs
    <3>3. CASE i \in 1 .. n
      BY <1>3, <1>5, <2>2, <3>1, <3>2, <3>3
    <3>4. CASE i = n + 1 /\ g[i] = landed
      BY <1>2, <1>3, <2>2, <3>4
    <3>5. QED
      BY <1>6, <3>3, <3>4
  <2>3. QED
    BY <1>10, <2>1, <2>2
<1>11. QED
  <2>1. Len(g) = n + 1 /\ g \in Seq(Outpoint) /\ from[1] <= landed[1]
    BY <1>3, <1>4
  <2>2. Trail(g, from, landed)
    BY <1>2, <1>7, <1>8, <1>9, <1>10, <2>1 DEF Trail, s
  <2>3. QED
    BY <2>2 DEF g

\* A walk that ended where the satoshi is or left has its whole trail.
Told(taken, from, result) ==
  \E h, to :
    /\ Trail(h, from, to)
    /\ taken \in {h, Append(h, None)} /\ result.current \in {None, to}
    /\ Amount(to) # 1 \/ \A q \in Outpoint : Keeps(q, First(from)) => q[1] <= to[1]

OnTrail ==
  start \in Outpoint /\ Alone(start) =>
    /\ pc \in {"tip", "spender", "before"} => Trail(hops, start, at)
    /\ pc = "done" /\ ~misled /\ tip.outcome \in {"unrefuted", "merged", "fee"} =>
         Told(hops, start, tip)

\* The walk forward begins where it was asked to.
LEMMA SetsOut ==
  ASSUME IInv, pc \in {"origin", "inputs"}, start' = start, hops' = hops,
         pc' \in {"origin", "inputs"} \/ (pc' = "tip" /\ at' = start)
  PROVE  OnTrail'
<1>1. hops = << >>
  BY DEF IInv, WalkBack
<1>2. ASSUME start \in Outpoint, Alone(start), pc' = "tip"
      PROVE  Trail(hops', start', at')
  <2>1. Amount(start) = 1
    BY <1>2, SatoshisAre
  <2>2. Trail(<< >>, start, start)
    BY <1>2, <2>1, TrailFirst
  <2>3. QED
    BY <1>1, <1>2, <2>2
<1>3. QED
  BY <1>2 DEF OnTrail

\* It goes nowhere while it reads.
LEMMA StaysOnTrail ==
  ASSUME OnTrail, pc \in {"tip", "spender", "before"}, pc' \in {"tip", "spender", "before"},
         start' = start, hops' = hops, at' = at
  PROVE  OnTrail'
BY DEF OnTrail

\* A walk that is cut short tells nothing.
LEMMA CutShort ==
  ASSUME NEW outcome, NEW current, NEW taken, EndTip(outcome, current, None, taken),
         outcome \notin {"unrefuted", "merged", "fee"}
  PROVE  OnTrail'
<1>1. pc' = "done" /\ tip' = [outcome |-> outcome, current |-> current, lastSeen |-> None]
  BY DEF EndTip
<1>2. tip'.outcome = outcome
  BY <1>1
<1>3. QED
  BY <1>1, <1>2 DEF OnTrail

\* An output that nobody spends has its satoshi last.
LEMMA UnspentIsLast ==
  ASSUME NEW p, NEW s, Keeps(p, s), Unspent(p), NEW q, Keeps(q, s)
  PROVE  q[1] <= p[1]
<1>1. p[1] \in Nat /\ q[1] \in Nat
  BY OutpointIs DEF Keeps
<1>2. ASSUME p[1] < q[1]
      PROVE  FALSE
  <2>1. PICK z \in Outpoint : Spends(z[1], p)
    BY <1>2, WentOn
  <2>2. z[1] \in TxId
    BY OutpointIs
  <2>3. QED
    BY <2>1, <2>2 DEF Unspent
<1>3. QED
  BY <1>1, <1>2

LEMMA LookUpOnTrail ==
  ASSUME IInv, OnTrail, NEW answer \in Answer, LookUp(answer)
  PROVE  OnTrail'
<1>1. /\ pc = "tip"
      /\ misled' = (misled \/ IF answer.says = "spent" THEN ~Spends(answer.by, at)
                              ELSE \E t \in TxId : Spends(t, at))
  BY DEF LookUp
<1>2. CASE answer.says = "unknown"
  <2>1. EndTip("unresolved", at, None, hops)
    BY <1>2 DEF LookUp
  <2>2. QED
    BY <2>1, CutShort
<1>3. CASE answer.says = "unspent"
  <2>1. EndTip("unrefuted", at, None, hops)
    BY <1>3 DEF LookUp
  <2>2. /\ start' = start /\ hops' = hops /\ pc' = "done"
        /\ tip' = [outcome |-> "unrefuted", current |-> at, lastSeen |-> None]
    BY <2>1 DEF EndTip
  <2>3. ASSUME start \in Outpoint, Alone(start), ~misled'
        PROVE  Told(hops, start, tip')
    <3>1. Trail(hops, start, at)
      BY <1>1, <2>3 DEF OnTrail
    <3>2. Unspent(at) /\ Keeps(at, First(start))
      BY <1>1, <1>3, <2>3, <3>1 DEF Unspent, Trail
    <3>3. \A q \in Outpoint : Keeps(q, First(start)) => q[1] <= at[1]
      BY <3>2, UnspentIsLast
    <3>4. tip'.current = at
      BY <2>2
    <3>5. QED
      BY <3>1, <3>3, <3>4 DEF Told
  <2>4. QED
    BY <2>2, <2>3 DEF OnTrail
<1>4. CASE answer.says = "spent"
  <2>1. pc' = "spender" /\ start' = start /\ at' = at /\ hops' = hops
    BY <1>4 DEF LookUp
  <2>2. QED
    BY <1>1, <2>1, StaysOnTrail
<1>5. answer.says \in {"unknown", "unspent", "spent"}
  BY DEF Answer
<1>6. QED
  BY <1>2, <1>3, <1>4, <1>5

LEMMA LandOnTrail ==
  ASSUME IInv, OnTrail, Land
  PROVE  OnTrail'
<1> DEFINE v == Landing(named, at)
           x == Entry(named, at)
           landed == <<named, v>>
           s == First(start)
<1>1. pc = "before" /\ Valued >= InputSpending(TxOf[named], at)
  BY DEF Land
<1>2. /\ Typed /\ offset = 0 /\ Followed(at, start) /\ hops \in Seq(Outpoint \cup {None})
  BY <1>1, ForwardIs DEF Typed
<1>3. /\ named \in TxId /\ Spends(named, at) /\ PrefixOf(values, named) /\ at \in Outpoint
      /\ Len(values) \in Nat /\ Valued = Len(values) + 1
      /\ Len(values) < InputSpending(TxOf[named], at)
      /\ InputSpending(TxOf[named], at) \in Nat
      /\ (hop = 0 => at = start) /\ (hop # 0 => Amount(at) = 1)
  BY <1>1, BeforeIs
<1>4. Len(values) = InputSpending(TxOf[named], at) - 1
  BY <1>1, <1>3
<1>5. FollowForward(TxOf[named], at, offset, values) =
        IF v = 0 THEN [vout |-> 0, offsetInOutput |-> 0, satoshis |-> 0]
        ELSE [vout |-> v, offsetInOutput |-> x - Begins(landed), satoshis |-> Amount(landed)]
  BY <1>2, <1>3, <1>4, ForwardStepIs
<1>6. v # 0 => landed \in Outpoint /\ landed[1] = named
  BY <1>3, LandingIs
<1>7. ASSUME start \in Outpoint, Alone(start)
      PROVE  /\ Trail(hops, start, at) /\ Amount(at) = 1
             /\ v = 0 => \A q \in Outpoint : Keeps(q, s) => q[1] <= at[1]
             /\ v # 0 => Trail(Append(hops, landed), start, landed)
  <2>1. Amount(start) = 1
    BY <1>7, SatoshisAre
  <2>2. Trail(hops, start, at) /\ Amount(at) = 1
    BY <1>1, <1>3, <1>7, <2>1 DEF OnTrail
  <2>3. HoldsAt(at, 1, s)
    BY <1>2, <1>7, <2>1 DEF Followed
  <2> HIDE DEF s
  <2>4. /\ v = 0 => \A q \in Outpoint : Keeps(q, s) => q[1] <= at[1]
        /\ v # 0 => HoldsAt(landed, x + 1 - Begins(landed), s)
    BY <1>3, <2>3, Lands
  <2> HIDE DEF v, x
  <2>5. ASSUME v # 0
        PROVE  Trail(Append(hops, landed), start, landed)
    <3>1. landed \in Outpoint /\ landed[1] = named /\ HoldsAt(landed, x + 1 - Begins(landed), s)
      BY <1>6, <2>4, <2>5
    <3> HIDE DEF landed
    <3>2. Keeps(landed, s)
      BY <3>1, HoldsEntered DEF Keeps
    <3>3. QED
      BY <1>3, <1>7, <2>2, <3>1, <3>2, TrailGrows DEF s
  <2>6. QED
    BY <2>2, <2>4, <2>5
<1> DEFINE step == FollowForward(TxOf[named], at, offset, values)
<1>8. IF step.vout = 0 THEN EndTip("fee", None, None, Append(hops, None))
      ELSE IF step.satoshis # 1
           THEN EndTip("merged", None, <<named, step.vout>>, Append(hops, <<named, step.vout>>))
      ELSE /\ at' = <<named, step.vout>> /\ hops' = Append(hops, <<named, step.vout>>)
           /\ pc' = "tip" /\ start' = start
  BY DEF Land
<1> HIDE DEF step, v, x, s
<1>9. CASE v = 0
  <2>1. step.vout = 0
    BY <1>5, <1>9 DEF step
  <2>2. /\ start' = start /\ hops' = Append(hops, None) /\ pc' = "done"
        /\ tip' = [outcome |-> "fee", current |-> None, lastSeen |-> None]
    BY <1>8, <2>1 DEF EndTip
  <2>3. ASSUME start \in Outpoint, Alone(start)
        PROVE  Told(hops', start, tip')
    <3>1. /\ Trail(hops, start, at) /\ \A q \in Outpoint : Keeps(q, First(start)) => q[1] <= at[1]
      BY <1>7, <1>9, <2>3 DEF s
    <3>2. tip'.current = None
      BY <2>2
    <3>3. QED
      BY <2>2, <3>1, <3>2 DEF Told
  <2>4. QED
    BY <2>2, <2>3 DEF OnTrail
<1>10. CASE v # 0
  <2>1. step.vout = v /\ step.satoshis = Amount(landed)
    BY <1>5, <1>10 DEF step
  <2>2. CASE Amount(landed) # 1
    <3>1. /\ start' = start /\ hops' = Append(hops, landed) /\ pc' = "done"
          /\ tip' = [outcome |-> "merged", current |-> None, lastSeen |-> landed]
      BY <1>8, <1>10, <2>1, <2>2 DEF EndTip
    <3> HIDE DEF landed
    <3>2. ASSUME start \in Outpoint, Alone(start)
          PROVE  Told(hops', start, tip')
      <4>1. Trail(Append(hops, landed), start, landed)
        BY <1>7, <1>10, <3>2
      <4>2. tip'.current = None
        BY <3>1
      <4>3. QED
        BY <2>2, <3>1, <4>1, <4>2 DEF Told
    <3>3. QED
      BY <3>1, <3>2 DEF OnTrail
  <2>3. CASE Amount(landed) = 1
    <3>1. /\ start' = start /\ hops' = Append(hops, landed) /\ pc' = "tip" /\ at' = landed
      BY <1>8, <1>10, <2>1, <2>3
    <3> HIDE DEF landed
    <3>2. ASSUME start \in Outpoint, Alone(start)
          PROVE  Trail(hops', start, at')
      BY <1>7, <1>10, <3>1, <3>2
    <3>3. QED
      BY <3>1, <3>2 DEF OnTrail
  <2>4. QED
    BY <2>2, <2>3
<1>11. QED
  BY <1>9, <1>10

\* Every step of the walks keeps to the trail.
LEMMA TrailKept == IInv /\ OnTrail /\ [Next]_vars => OnTrail'
<1> SUFFICES ASSUME IInv, OnTrail, [Next]_vars
             PROVE  OnTrail'
  OBVIOUS
<1>1. CASE UNCHANGED vars
  <2>1. /\ start' = start /\ pc' = pc /\ at' = at /\ hops' = hops /\ tip' = tip
        /\ misled' = misled
    BY <1>1 DEF vars, walk
  <2>2. QED
    BY <2>1 DEF OnTrail
<1>2. CASE OriginHopLimit \/ ReadOutput \/ ReachCoinbase \/ ValueInput \/ OriginThrows
  <2>1. /\ pc \in {"origin", "inputs"} /\ start' = start /\ hops' = hops
        /\ pc' \in {"origin", "inputs"} \/ (pc' = "tip" /\ at' = start)
    BY <1>2 DEF OriginHopLimit, ReadOutput, ReachCoinbase, ValueInput, OriginThrows, EndOrigin,
                Arrive, walk
  <2>2. QED
    BY <2>1, SetsOut
<1>3. CASE TipHopLimit
  <2>1. EndTip("truncated", at, None, hops)
    BY <1>3 DEF TipHopLimit
  <2>2. QED
    BY <2>1, CutShort
<1>4. CASE \E answer \in Answer : LookUp(answer)
  BY <1>4, LookUpOnTrail
<1>5. CASE ReadSpender
  <2>1. /\ pc = "spender"
        /\ \/ pc' = "before" /\ start' = start /\ hops' = hops /\ at' = at
           \/ EndTip("contradicted", None, None, hops)
    BY <1>5 DEF ReadSpender, walk
  <2>2. CASE EndTip("contradicted", None, None, hops)
    BY <2>2, CutShort
  <2>3. CASE pc' = "before" /\ start' = start /\ hops' = hops /\ at' = at
    BY <2>1, <2>3, StaysOnTrail
  <2>4. QED
    BY <2>1, <2>2, <2>3
<1>6. CASE ValueBefore
  <2>1. pc = "before" /\ pc' = pc /\ start' = start /\ hops' = hops /\ at' = at
    BY <1>6 DEF ValueBefore
  <2>2. QED
    BY <2>1, StaysOnTrail
<1>7. CASE Land
  BY <1>7, LandOnTrail
<1>8. CASE TipThrows
  <2>1. EndTip("threw", None, None, << >>)
    BY <1>8 DEF TipThrows
  <2>2. QED
    BY <2>1, CutShort
<1>9. QED
  BY <1>1, <1>2, <1>3, <1>4, <1>5, <1>6, <1>7, <1>8 DEF Next, Step, Done

LEMMA TrailHolds == Spec => []OnTrail
<1>1. Init => OnTrail
  BY DEF Init, OnTrail
<1>2. IInv /\ OnTrail /\ [Next]_vars => OnTrail'
  BY TrailKept
<1>3. QED
  BY <1>1, <1>2, InvariantHolds, PTL DEF Spec

-----------------------------------------------------------------------------
(* What an inspection looks way, and what it finds.                             *)

\* J is those of I where s has a member of S.
Among(J, I, s, S) == J = {m \in I : s[m] \in S}

\* What is kept of the chosen ones.
LEMMA KeptOfChosen ==
  ASSUME NEW X, NEW s \in Seq(X), NEW I \in SUBSET (1 .. Len(s)), NEW S,
         NEW J, Among(J, I, s, S)
  PROVE  /\ Kept(Chosen(s, I), S) \in Seq(X)
         /\ \E way : /\ Through(way, Len(Kept(Chosen(s, I), S)), J)
                    /\ \A n \in 1 .. Len(Kept(Chosen(s, I), S)) :
                         Kept(Chosen(s, I), S)[n] = s[way[n]]
<1> DEFINE chosen == Chosen(s, I)
           kept == Kept(chosen, S)
<1>1. chosen \in Seq(X)
  BY ChosenIs
<1>2. PICK way : /\ Through(way, Len(chosen), I)
                /\ \A n \in 1 .. Len(chosen) : chosen[n] = s[way[n]]
  BY ChosenIs
<1> HIDE DEF chosen
<1>3. kept \in Seq(X)
  BY <1>1, KeptIs
<1>4. PICK of : KeptFrom(chosen, S, Len(chosen), kept, of)
  BY <1>1, KeptIs
<1> HIDE DEF kept
<1>5. Len(chosen) \in Nat /\ Len(kept) \in Nat /\ Len(s) \in Nat
  BY <1>1, <1>3
<1>6. /\ way \in [1 .. Len(chosen) -> I]
      /\ \A i, j \in 1 .. Len(chosen) : i < j => way[i] < way[j]
      /\ \A m \in I : \E i \in 1 .. Len(chosen) : way[i] = m
  BY <1>2 DEF Through
<1>7. /\ of \in [1 .. Len(kept) -> 1 .. Len(chosen)]
      /\ \A i \in 1 .. Len(kept) : kept[i] = chosen[of[i]] /\ kept[i] \in S
      /\ \A i, j \in 1 .. Len(kept) : i < j => of[i] < of[j]
      /\ \A m \in 1 .. Len(chosen) : chosen[m] \in S => \E i \in 1 .. Len(kept) : of[i] = m
  BY <1>4 DEF KeptFrom
<1> DEFINE w == [i \in 1 .. Len(kept) |-> way[of[i]]]
<1>8. ASSUME NEW i \in 1 .. Len(kept)
      PROVE  w[i] = way[of[i]] /\ of[i] \in 1 .. Len(chosen) /\ w[i] \in J /\ kept[i] = s[w[i]]
  <2>1. of[i] \in 1 .. Len(chosen) /\ way[of[i]] \in I
    BY <1>6, <1>7
  <2>2. kept[i] = s[way[of[i]]] /\ kept[i] \in S
    BY <1>2, <1>7, <2>1
  <2>3. QED
    BY <2>1, <2>2 DEF Among
<1>9. w \in [1 .. Len(kept) -> J]
  BY <1>8
<1>10. ASSUME NEW m \in J
       PROVE  \E i \in 1 .. Len(kept) : w[i] = m
  <2>1. PICK k \in 1 .. Len(chosen) : way[k] = m
    BY <1>6 DEF Among
  <2>2. chosen[k] \in S
    BY <1>2, <2>1 DEF Among
  <2>3. PICK i \in 1 .. Len(kept) : of[i] = k
    BY <1>7, <2>2
  <2>4. QED
    BY <1>8, <2>1, <2>3
<1>11. ASSUME NEW i \in 1 .. Len(kept), NEW j \in 1 .. Len(kept), i < j
       PROVE  w[i] < w[j]
  BY <1>6, <1>7, <1>8, <1>11
<1> HIDE DEF w
<1>12. Through(w, Len(kept), J)
  BY <1>9, <1>10, <1>11 DEF Through
<1>13. QED
  BY <1>3, <1>8, <1>12 DEF kept, chosen

\* A candidate is one of the ends, or an output the walk landed in.
Candidate == [outpoint : Outpoint \cup {claim.genesis, claim.current},
              role : {"genesis", "transfer", "current"}]

LEMMA CandidatesAre ==
  ASSUME Forward \in Seq(Outpoint)
  PROVE  /\ Candidates \in Seq(Candidate) /\ Len(Candidates) = Len(Forward) + 2
         /\ Len(Forward) \in Nat
         /\ Candidates[1] = [outpoint |-> claim.genesis, role |-> "genesis"]
         /\ Candidates[Len(Forward) + 2] = [outpoint |-> claim.current, role |-> "current"]
         /\ \A i \in 1 .. Len(Forward) :
              Candidates[i + 1] = [outpoint |-> Forward[i], role |-> "transfer"]
<1> DEFINE f == Forward
           a == PointAt("genesis")
           b == PointAt("current")
           m == [i \in DOMAIN f |-> [outpoint |-> f[i], role |-> "transfer"]]
<1>1. f \in Seq(Outpoint)
  OBVIOUS
<1>2. Candidates = (<<a>> \o m) \o <<b>>
  BY DEF Candidates
<1>3. /\ a = [outpoint |-> claim.genesis, role |-> "genesis"]
      /\ b = [outpoint |-> claim.current, role |-> "current"]
  BY DEF PointAt
<1>4. a \in Candidate /\ b \in Candidate
  BY <1>3 DEF Candidate
<1> HIDE DEF f, a, b
<1>5. Len(f) \in Nat /\ DOMAIN f = 1 .. Len(f) /\ \A i \in 1 .. Len(f) : f[i] \in Outpoint
  BY <1>1
<1>6. \A i \in 1 .. Len(f) : [outpoint |-> f[i], role |-> "transfer"] \in Candidate
  BY <1>5 DEF Candidate
<1>7. /\ m \in Seq(Candidate) /\ Len(m) = Len(f)
      /\ \A i \in 1 .. Len(f) : m[i] = [outpoint |-> f[i], role |-> "transfer"]
  BY <1>5, <1>6
<1> HIDE DEF m
<1> DEFINE n == <<a>> \o m
<1>8. n \in Seq(Candidate) /\ Len(n) = Len(f) + 1 /\ n[1] = a
      /\ \A i \in 1 .. Len(f) : n[i + 1] = m[i]
  BY <1>4, <1>5, <1>7
<1> HIDE DEF n
<1>9. /\ n \o <<b>> \in Seq(Candidate) /\ Len(n \o <<b>>) = Len(f) + 2
      /\ (n \o <<b>>)[1] = a /\ (n \o <<b>>)[Len(f) + 2] = b
      /\ \A i \in 1 .. Len(f) : (n \o <<b>>)[i + 1] = n[i + 1]
  BY <1>4, <1>5, <1>8
<1>10. QED
  BY <1>2, <1>3, <1>5, <1>7, <1>8, <1>9 DEF f, n

\* Where the candidates are that have something inscribed, looked at once.
Wanted ==
  {m \in 1 .. Len(Candidates) :
     /\ Content(Candidates[m].outpoint) # None
     /\ \A j \in 1 .. m - 1 : Candidates[j].outpoint # Candidates[m].outpoint}

\* An inspection that can read everything finds those, in order.
LEMMA Finds ==
  ASSUME Forward \in Seq(Outpoint), NEW found, found = Inspection(Points, {}).inscriptions
  PROVE  /\ found \in Seq(Candidate)
         /\ \E way : /\ Through(way, Len(found), Wanted)
                     /\ \A n \in 1 .. Len(found) : found[n] = Candidates[way[n]]
<1> DEFINE c == Candidates
           I == {i \in DOMAIN c : /\ c[i].outpoint # None
                                  /\ \A j \in 1 .. i - 1 : c[j].outpoint # c[i].outpoint}
           S == {p \in ToSet(Points) : p.outpoint \notin {} /\ Content(p.outpoint) # None}
<1>1. Points = Chosen(c, I)
  BY DEF Points
<1>2. found = Kept(Chosen(c, I), S)
  BY <1>1 DEF Inspection
<1>3. c \in Seq(Candidate)
  BY CandidatesAre
<1>4. S = {p \in ToSet(Chosen(c, I)) : Content(p.outpoint) # None}
  BY <1>1
<1>5. Wanted = {m \in 1 .. Len(c) : /\ Content(c[m].outpoint) # None
                                    /\ \A j \in 1 .. m - 1 : c[j].outpoint # c[m].outpoint}
  BY DEF Wanted
<1> HIDE DEF S
<1> HIDE DEF c
<1>6. DOMAIN c = 1 .. Len(c) /\ I \in SUBSET (1 .. Len(c))
  BY <1>3
<1>7. \A o : Content(o) # None => o # None
  BY OutpointIs DEF Content
<1>8. \A m \in 1 .. Len(c) :
        m \in I <=> c[m].outpoint # None /\ \A j \in 1 .. m - 1 : c[j].outpoint # c[m].outpoint
  BY <1>6
<1> HIDE DEF I
<1>9. \A m \in I : c[m] \in ToSet(Chosen(c, I))
  <2>1. Chosen(c, I) \in Seq(Candidate)
    BY <1>3, <1>6, ChosenIs
  <2>2. PICK way : /\ Through(way, Len(Chosen(c, I)), I)
                   /\ \A n \in 1 .. Len(Chosen(c, I)) : Chosen(c, I)[n] = c[way[n]]
    BY <1>3, <1>6, ChosenIs
  <2>3. \A m \in I : \E n \in 1 .. Len(Chosen(c, I)) : way[n] = m
    BY <2>2 DEF Through
  <2>4. DOMAIN Chosen(c, I) = 1 .. Len(Chosen(c, I))
    BY <2>1
  <2>5. QED
    BY <2>2, <2>3, <2>4 DEF ToSet
<1>10. Wanted = {m \in I : c[m] \in S}
  <2>1. \A m \in I : m \in 1 .. Len(c)
    BY <1>6
  <2>2. \A m \in I : c[m] \in S <=> Content(c[m].outpoint) # None
    BY <1>4, <1>9
  <2>3. QED
    BY <1>5, <1>7, <1>8, <2>1, <2>2
<1>11. Among(Wanted, I, c, S)
  BY <1>10 DEF Among
<1> HIDE DEF Wanted
<1>12. QED
  <2> DEFINE kept == Kept(Chosen(c, I), S)
             J == Wanted
  <2>1. Among(J, I, c, S)
    BY <1>11
  <2> HIDE DEF J
  <2>2. kept \in Seq(Candidate)
    BY <1>3, <1>6, <2>1, KeptOfChosen
  <2>3. \E way : /\ Through(way, Len(kept), J)
                 /\ \A n \in 1 .. Len(kept) : kept[n] = c[way[n]]
    BY <1>3, <1>6, <2>1, KeptOfChosen
  <2>4. found = kept
    BY <1>2
  <2> HIDE DEF kept
  <2>5. QED
    BY <2>2, <2>3, <2>4 DEF J, c

\* The content in a role is that of a point that has it, if there is one.
LEMMA ContentOfIs ==
  ASSUME NEW X, NEW found \in Seq(X), NEW role
  PROVE  \/ /\ \A i \in 1 .. Len(found) : found[i].role # role
            /\ ContentOf(found, role) = None
         \/ \E i \in 1 .. Len(found) : /\ found[i].role = role
                                       /\ ContentOf(found, role) = Content(found[i].outpoint)
<1> DEFINE of == {i \in DOMAIN found : found[i].role = role}
<1>1. ContentOf(found, role) = IF of = {} THEN None ELSE Content(found[Min(of)].outpoint)
  BY DEF ContentOf
<1>2. DOMAIN found = 1 .. Len(found) /\ of \in SUBSET Nat
  OBVIOUS
<1>3. CASE of = {}
  BY <1>1, <1>2, <1>3
<1>4. CASE of # {}
  <2>1. Min(of) \in of
    <3> HIDE DEF of
    <3>1. QED
      BY <1>2, <1>4, MinIsLeast
  <2>2. QED
    BY <1>1, <1>2, <1>4, <2>1
<1>5. QED
  BY <1>3, <1>4

LEMMA InspectionIs ==
  ASSUME NEW points, NEW failed
  PROVE  LET told == Inspection(points, failed)
             found == told.inscriptions
             first == IF ContentOf(found, "genesis") # None THEN ContentOf(found, "genesis")
                      ELSE IF found = << >> THEN None ELSE Content(found[1].outpoint)
             last == ContentOf(found, "current")
         IN  /\ told.reinscribed <=> \E i \in DOMAIN found : found[i].role # "genesis"
             /\ told.contentDiffers <=> None \notin {first, last} /\ first # last
             /\ told.errors = failed
BY DEF Inspection

\* Without a walk only the two ends are looked at, and compared.
LEMMA EndsAlone ==
  ASSUME verdict = None, NEW told, told = Inspection(Points, {})
  PROVE  told.contentDiffers <=> Differ
<1> DEFINE c == Candidates
           found == told.inscriptions
           g == claim.genesis
           u == claim.current
           first == IF ContentOf(found, "genesis") # None THEN ContentOf(found, "genesis")
                    ELSE IF found = << >> THEN None ELSE Content(found[1].outpoint)
           last == ContentOf(found, "current")
<1>1. Forward = << >> /\ Forward \in Seq(Outpoint) /\ Len(Forward) = 0
  BY DEF Forward
<1>2. /\ Len(c) = 2 /\ c[1] = [outpoint |-> g, role |-> "genesis"]
      /\ c[2] = [outpoint |-> u, role |-> "current"]
  BY <1>1, CandidatesAre
<1>3. told.contentDiffers <=> None \notin {first, last} /\ first # last
  BY InspectionIs
<1>4. found \in Seq(Candidate)
  BY <1>1, Finds
<1>5. PICK way : /\ Through(way, Len(found), Wanted)
                 /\ \A n \in 1 .. Len(found) : found[n] = c[way[n]]
  BY <1>1, Finds
<1>6. Wanted = {m \in 1 .. Len(c) : /\ Content(c[m].outpoint) # None
                                    /\ \A j \in 1 .. m - 1 : c[j].outpoint # c[m].outpoint}
  BY DEF Wanted
<1> HIDE DEF c, found
<1>7. /\ c[1].outpoint = g /\ c[1].role = "genesis"
      /\ c[2].outpoint = u /\ c[2].role = "current"
  BY <1>2
<1> HIDE DEF g, u
<1>8. /\ 1 \in Wanted <=> Content(g) # None
      /\ 2 \in Wanted <=> Content(u) # None /\ g # u
      /\ \A m \in Wanted : m \in {1, 2}
  <2>1. 1 .. 2 = {1, 2} /\ 1 .. (1 - 1) = {} /\ 1 .. (2 - 1) = {1}
    OBVIOUS
  <2>2. QED
    BY <1>2, <1>6, <1>7, <2>1
<1>9. /\ way \in [1 .. Len(found) -> Wanted]
      /\ \A m \in Wanted : \E i \in 1 .. Len(found) : way[i] = m
  BY <1>5 DEF Through
<1>10. \A i \in 1 .. Len(found) :
         /\ way[i] \in Wanted
         /\ \/ way[i] = 1 /\ found[i].role = "genesis" /\ found[i].outpoint = g
            \/ way[i] = 2 /\ found[i].role = "current" /\ found[i].outpoint = u
  <2>1. ASSUME NEW i \in 1 .. Len(found)
        PROVE  way[i] \in Wanted /\ way[i] \in {1, 2} /\ found[i] = c[way[i]]
    BY <1>5, <1>8, <1>9
  <2>2. QED
    BY <1>7, <2>1
<1>11. ContentOf(found, "genesis") = Content(g)
  <2>1. CASE 1 \in Wanted
    <3>1. PICK i \in 1 .. Len(found) : way[i] = 1
      BY <1>9, <2>1
    <3>2. found[i].role = "genesis"
      BY <1>10, <3>1
    <3>3. \E k \in 1 .. Len(found) : /\ found[k].role = "genesis"
                                     /\ ContentOf(found, "genesis") = Content(found[k].outpoint)
      BY <1>4, <3>2, ContentOfIs
    <3>4. QED
      BY <1>10, <3>3
  <2>2. CASE 1 \notin Wanted
    <3>1. \A i \in 1 .. Len(found) : found[i].role # "genesis"
      BY <1>10, <2>2
    <3>2. ContentOf(found, "genesis") = None
      BY <1>4, <3>1, ContentOfIs
    <3>3. QED
      BY <1>8, <2>2, <3>2
  <2>3. QED
    BY <2>1, <2>2
<1>12. last = IF 2 \in Wanted THEN Content(u) ELSE None
  <2>1. CASE 2 \in Wanted
    <3>1. PICK i \in 1 .. Len(found) : way[i] = 2
      BY <1>9, <2>1
    <3>2. found[i].role = "current"
      BY <1>10, <3>1
    <3>3. \E k \in 1 .. Len(found) : /\ found[k].role = "current"
                                     /\ ContentOf(found, "current") = Content(found[k].outpoint)
      BY <1>4, <3>2, ContentOfIs
    <3>4. QED
      BY <1>10, <2>1, <3>3
  <2>2. CASE 2 \notin Wanted
    <3>1. \A i \in 1 .. Len(found) : found[i].role # "current"
      BY <1>10, <2>2
    <3>2. ContentOf(found, "current") = None
      BY <1>4, <3>1, ContentOfIs
    <3>3. QED
      BY <2>2, <3>2
  <2>3. QED
    BY <2>1, <2>2
<1>13. Differ <=> Content(g) # None /\ Content(u) # None /\ Content(g) # Content(u)
  <2>1. \A o : Content(o) # None => o # None
    BY OutpointIs DEF Content
  <2>2. QED
    BY <2>1 DEF Differ, g, u
<1>14. CASE Content(g) # None
  <2>1. first = Content(g)
    BY <1>11, <1>14
  <2> HIDE DEF first, last
  <2>2. QED
    BY <1>3, <1>8, <1>12, <1>13, <1>14, <2>1
<1>15. CASE Content(g) = None
  <2>1. ASSUME 2 \in Wanted
        PROVE  first = Content(u)
    <3>1. PICK i \in 1 .. Len(found) : way[i] = 2
      BY <1>9, <2>1
    <3>2. Len(found) \in Nat /\ 1 \in 1 .. Len(found) /\ found # << >>
      BY <1>4, <3>1
    <3>3. found[1].outpoint = u
      BY <1>8, <1>10, <1>15, <3>2
    <3>4. QED
      BY <1>11, <1>15, <3>2, <3>3
  <2> HIDE DEF first, last
  <2>2. QED
    BY <1>3, <1>12, <1>13, <1>15, <2>1
<1>16. QED
  BY <1>14, <1>15

\* f has everywhere the satoshi went from start, in order.
WholeTrack(f) ==
  /\ f \in Seq(Outpoint) /\ Len(f) \in Nat
  /\ \A i \in 1 .. Len(f) : start[1] < f[i][1]
  /\ \A i, j \in 1 .. Len(f) : i < j => f[i][1] < f[j][1]
  /\ \A p : p \in Track <=> p = start \/ \E i \in 1 .. Len(f) : p = f[i]

\* The trail of a walk that ended where the satoshi is or left is the track.
LEMMA TrailIsTrack ==
  ASSUME NEW h, NEW to, Trail(h, start, to), start \in Outpoint, Alone(start),
         Amount(to) # 1 \/ \A q \in Outpoint : Keeps(q, First(start)) => q[1] <= to[1]
  PROVE  WholeTrack(h)
<1> DEFINE s == First(start)
           after == {p \in Journey[start] : p[1] >= start[1]}
           n == Len(h)
<1>1. /\ h \in Seq(Outpoint) /\ to \in Outpoint
      /\ \A i \in 1 .. n : start[1] < h[i][1]
      /\ \A i, j \in 1 .. n : i < j => h[i][1] < h[j][1]
      /\ Keeps(to, s) /\ start[1] <= to[1]
      /\ \A p \in Outpoint :
           Keeps(p, s) /\ start[1] <= p[1] /\ p[1] <= to[1] <=>
             p = start \/ \E i \in 1 .. n : p = h[i]
      /\ \A i \in 1 .. n : h[i][1] < to[1] => Amount(h[i]) = 1
  BY DEF Trail
<1>2. Amount(to) # 1 \/ \A q \in Outpoint : Keeps(q, s) => q[1] <= to[1]
  OBVIOUS
<1>3. Satoshis[start] # << >>
  BY DEF Alone
<1>4. Journey[start] = {p \in Outpoint : Holds(p, s)}
  BY <1>3 DEF Journey, First
<1>5. Track = {p \in after : \A q \in after : q[1] < p[1] => Alone(q)}
  BY DEF Track
<1> HIDE DEF s
<1>6. \A p : p \in after <=> p \in Outpoint /\ Keeps(p, s) /\ p[1] >= start[1]
  BY <1>4, KeepsIs
<1> HIDE DEF after
<1>7. n \in Nat /\ start[1] \in Nat /\ to[1] \in Nat /\ \A i \in 1 .. n : h[i] \in Outpoint
  BY <1>1, OutpointIs
<1> HIDE DEF n
<1>8. ASSUME NEW p, p = start \/ \E i \in 1 .. n : p = h[i]
      PROVE  p \in Track
  <2>1. p \in Outpoint
    BY <1>7, <1>8
  <2>2. Keeps(p, s) /\ start[1] <= p[1] /\ p[1] <= to[1] /\ p[1] \in Nat
    BY <1>1, <1>8, <2>1, OutpointIs
  <2>3. ASSUME NEW q \in after, q[1] < p[1]
        PROVE  Alone(q)
    <3>1. q \in Outpoint /\ Keeps(q, s) /\ q[1] >= start[1] /\ q[1] \in Nat
      BY <1>6, OutpointIs
    <3>2. q[1] < to[1] /\ start[1] <= q[1] /\ q[1] <= to[1]
      BY <1>7, <2>2, <2>3, <3>1
    <3>3. q = start \/ \E i \in 1 .. n : q = h[i]
      BY <1>1, <3>1, <3>2
    <3>4. CASE q = start
      BY <3>4
    <3>5. ASSUME NEW i \in 1 .. n, q = h[i]
          PROVE  Alone(q)
      <4>1. Amount(q) = 1
        BY <1>1, <3>2, <3>5
      <4>2. QED
        BY <3>1, <4>1, SatoshisAre
    <3>6. QED
      BY <3>3, <3>4, <3>5
  <2>4. p \in after
    BY <1>6, <1>7, <2>1, <2>2
  <2>5. QED
    BY <1>5, <2>3, <2>4
<1>9. ASSUME NEW p \in Track
      PROVE  p = start \/ \E i \in 1 .. n : p = h[i]
  <2>1. p \in after /\ \A q \in after : q[1] < p[1] => Alone(q)
    BY <1>5
  <2>2. p \in Outpoint /\ Keeps(p, s) /\ p[1] >= start[1] /\ p[1] \in Nat
    BY <1>6, <2>1, OutpointIs
  <2>3. p[1] <= to[1]
    <3>1. CASE \A q \in Outpoint : Keeps(q, s) => q[1] <= to[1]
      BY <2>2, <3>1
    <3>2. CASE Amount(to) # 1
      <4>1. to \in after
        BY <1>1, <1>6, <1>7
      <4>2. ~ (to[1] < p[1])
        <5>1. ~Alone(to)
          BY <1>1, <3>2, SatoshisAre
        <5>2. QED
          BY <2>1, <4>1, <5>1
      <4>3. QED
        BY <1>7, <2>2, <4>2
    <3>3. QED
      BY <1>2, <3>1, <3>2
  <2>4. QED
    BY <1>1, <1>7, <2>2, <2>3
<1>10. QED
  BY <1>1, <1>7, <1>8, <1>9 DEF WholeTrack, n

\* What the walk forward hands over is the track, and its end is on it.
LEMMA ForwardIsTrack ==
  ASSUME IInv, OnTrail, verdict # None, pc = "done", ~misled,
         tip.outcome \in {"unrefuted", "merged", "fee"}, start \in Outpoint, Alone(start)
  PROVE  WholeTrack(Forward) /\ tip.current \in {None} \cup Track
<1> DEFINE f == Forward
<1>1. Told(hops, start, tip)
  BY DEF OnTrail
<1>2. PICK h, to :
        /\ Trail(h, start, to)
        /\ hops \in {h, Append(h, None)} /\ tip.current \in {None, to}
        /\ Amount(to) # 1 \/ \A q \in Outpoint : Keeps(q, First(start)) => q[1] <= to[1]
  BY <1>1 DEF Told
<1>3. WholeTrack(h)
  BY <1>2, TrailIsTrack
<1>4. tip.current \in {None} \cup Track
  <2>1. to = start \/ \E i \in 1 .. Len(h) : to = h[i]
    <3>1. to \in Outpoint /\ to[1] \in Nat
      BY <1>2, OutpointIs DEF Trail
    <3>2. QED
      BY <1>2, <3>1 DEF Trail
  <2>2. QED
    BY <1>2, <1>3, <2>1 DEF WholeTrack
<1>5. hops \in Seq(Outpoint \cup {None}) /\ f = Kept(hops, Outpoint)
  BY DEF IInv, Typed, Forward
<1>6. f \in Seq(Outpoint \cup {None})
  BY <1>5, KeptIs
<1>7. PICK way : KeptFrom(hops, Outpoint, Len(hops), f, way)
  BY <1>5, KeptIs
<1> HIDE DEF f
<1>8. /\ way \in [1 .. Len(f) -> 1 .. Len(hops)]
      /\ \A i \in 1 .. Len(f) : f[i] = hops[way[i]] /\ f[i] \in Outpoint
      /\ \A i, j \in 1 .. Len(f) : i < j => way[i] < way[j]
      /\ \A m \in 1 .. Len(hops) : hops[m] \in Outpoint => \E i \in 1 .. Len(f) : way[i] = m
  BY <1>7 DEF KeptFrom
<1>9. /\ h \in Seq(Outpoint) /\ Len(h) \in Nat
      /\ \A i \in 1 .. Len(h) : start[1] < h[i][1]
      /\ \A i, j \in 1 .. Len(h) : i < j => h[i][1] < h[j][1]
      /\ \A p : p \in Track <=> p = start \/ \E i \in 1 .. Len(h) : p = h[i]
  BY <1>3 DEF WholeTrack
<1>10. \A m \in 1 .. Len(h) : m \in 1 .. Len(hops) /\ hops[m] = h[m] /\ h[m] \in Outpoint
  <2>1. CASE hops = h
    BY <1>9, <2>1
  <2>2. CASE hops = Append(h, None)
    BY <1>9, <2>2
  <2>3. QED
    BY <1>2, <2>1, <2>2
<1>11. \A m \in 1 .. Len(hops) : hops[m] \in Outpoint => m \in 1 .. Len(h)
  <2>1. CASE hops = h
    BY <2>1
  <2>2. CASE hops = Append(h, None)
    <3>1. Len(hops) = Len(h) + 1 /\ hops[Len(h) + 1] = None
      BY <1>9, <2>2
    <3>2. None \notin Outpoint
      BY OutpointIs
    <3>3. QED
      BY <1>9, <3>1, <3>2
  <2>3. QED
    BY <1>2, <2>1, <2>2
<1>12. Len(f) \in Nat /\ f \in Seq(Outpoint)
  BY <1>6, <1>8
<1>13. \A i \in 1 .. Len(f) : way[i] \in 1 .. Len(h) /\ f[i] = h[way[i]]
  <2>1. ASSUME NEW i \in 1 .. Len(f)
        PROVE  way[i] \in 1 .. Len(h) /\ f[i] = h[way[i]]
    <3>1. way[i] \in 1 .. Len(hops) /\ hops[way[i]] \in Outpoint
      BY <1>8
    <3>2. QED
      BY <1>8, <1>10, <1>11, <3>1
  <2>2. QED
    BY <2>1
<1>14. \A m \in 1 .. Len(h) : \E i \in 1 .. Len(f) : f[i] = h[m]
  <2>1. ASSUME NEW m \in 1 .. Len(h)
        PROVE  \E i \in 1 .. Len(f) : f[i] = h[m]
    <3>1. PICK i \in 1 .. Len(f) : way[i] = m
      BY <1>8, <1>10
    <3>2. QED
      BY <1>13, <3>1
  <2>2. QED
    BY <2>1
<1>15. WholeTrack(f)
  <2>1. \A i \in 1 .. Len(f) : start[1] < f[i][1]
    BY <1>9, <1>13
  <2>2. ASSUME NEW i \in 1 .. Len(f), NEW j \in 1 .. Len(f), i < j
        PROVE  f[i][1] < f[j][1]
    <3>1. /\ way[i] \in 1 .. Len(h) /\ f[i] = h[way[i]]
          /\ way[j] \in 1 .. Len(h) /\ f[j] = h[way[j]] /\ way[i] < way[j]
      BY <1>8, <1>13, <2>2
    <3>2. h[way[i]][1] < h[way[j]][1]
      BY <1>9, <3>1
    <3>3. QED
      BY <3>1, <3>2
  <2>3. \A p : (\E i \in 1 .. Len(f) : p = f[i]) <=> (\E i \in 1 .. Len(h) : p = h[i])
    BY <1>13, <1>14
  <2>4. QED
    BY <1>9, <1>12, <2>1, <2>2, <2>3 DEF WholeTrack
<1>16. QED
  BY <1>4, <1>15 DEF f

\* An inspection of the whole track lists what is inscribed on it.
LEMMA WalkTellsAll ==
  ASSUME WholeTrack(Forward), start \in Outpoint, claim.genesis = start,
         claim.current \in {None} \cup Track,
         NEW all, all = Inspection(Points, {}),
         NEW told, told = [i \in DOMAIN all.inscriptions |-> all.inscriptions[i].outpoint]
  PROVE  /\ ToSet(told) = {p \in Track : Content(p) # None}
         /\ \A i, j \in DOMAIN told : i < j => told[i][1] < told[j][1]
         /\ all.reinscribed <=> \E p \in Track \ {start} : Content(p) # None
<1> DEFINE c == Candidates
           found == all.inscriptions
           f == Forward
           n == Len(f)
           u == claim.current
<1>1. /\ f \in Seq(Outpoint) /\ n \in Nat
      /\ \A i \in 1 .. n : start[1] < f[i][1]
      /\ \A i, j \in 1 .. n : i < j => f[i][1] < f[j][1]
      /\ \A p : p \in Track <=> p = start \/ \E i \in 1 .. n : p = f[i]
  BY DEF WholeTrack
<1>2. /\ Len(c) = n + 2
      /\ c[1] = [outpoint |-> start, role |-> "genesis"]
      /\ c[n + 2] = [outpoint |-> u, role |-> "current"]
      /\ \A i \in 1 .. n : c[i + 1] = [outpoint |-> f[i], role |-> "transfer"]
  BY <1>1, CandidatesAre
<1>3. all.reinscribed <=> \E i \in DOMAIN found : found[i].role # "genesis"
  BY InspectionIs
<1>4. found \in Seq(Candidate)
  BY <1>1, Finds
<1>5. PICK way : /\ Through(way, Len(found), Wanted)
                 /\ \A i \in 1 .. Len(found) : found[i] = c[way[i]]
  BY <1>1, Finds
<1>6. Wanted = {m \in 1 .. Len(c) : /\ Content(c[m].outpoint) # None
                                    /\ \A j \in 1 .. m - 1 : c[j].outpoint # c[m].outpoint}
  BY DEF Wanted
<1>7. u \in {None} \cup Track /\ told = [i \in DOMAIN found |-> found[i].outpoint]
  OBVIOUS
<1> HIDE DEF c, found, f, n, u
<1>8. \A i \in 1 .. n : f[i] \in Outpoint /\ f[i][1] \in Nat /\ start[1] \in Nat
  <2>1. \A i \in 1 .. n : f[i] \in Outpoint
    BY <1>1 DEF n
  <2>2. QED
    BY <2>1, OutpointIs
<1>9. \A m \in 1 .. n + 1 : m = 1 \/ (m - 1 \in 1 .. n /\ m = (m - 1) + 1)
  BY <1>1
<1>10. ASSUME NEW m \in 1 .. n + 1
       PROVE  /\ c[m].outpoint \in Track /\ c[m].outpoint[1] \in Nat
              /\ m = 1 => c[m].outpoint = start /\ c[m].role = "genesis"
              /\ m # 1 => c[m].outpoint = f[m - 1] /\ c[m].role = "transfer" /\ m - 1 \in 1 .. n
                          /\ c[m].outpoint # start
  <2>1. CASE m = 1
    <3>1. c[m].outpoint = start /\ c[m].role = "genesis"
      BY <1>2, <2>1
    <3>2. QED
      BY <1>1, <2>1, <3>1, OutpointIs
  <2>2. CASE m # 1
    <3> DEFINE i == m - 1
    <3>1. i \in 1 .. n /\ m = i + 1
      BY <1>9, <2>2
    <3> HIDE DEF i
    <3>2. c[m] = [outpoint |-> f[i], role |-> "transfer"]
      BY <1>2, <3>1
    <3>3. c[m].outpoint = f[i] /\ c[m].role = "transfer"
      BY <3>2
    <3>4. f[i] # start
      BY <1>1, <1>8, <3>1
    <3>5. QED
      BY <1>1, <1>8, <2>2, <3>1, <3>3, <3>4 DEF i
  <2>3. QED
    BY <2>1, <2>2
<1>11. ASSUME NEW m \in 1 .. n + 1, NEW k \in 1 .. n + 1, m < k
       PROVE  c[m].outpoint[1] < c[k].outpoint[1]
  <2>1. k # 1 /\ c[k].outpoint = f[k - 1] /\ k - 1 \in 1 .. n
    BY <1>1, <1>10, <1>11
  <2>2. CASE m = 1
    BY <1>1, <1>10, <2>1, <2>2
  <2>3. CASE m # 1
    <3>1. c[m].outpoint = f[m - 1] /\ m - 1 \in 1 .. n
      BY <1>10, <2>3
    <3>2. m - 1 < k - 1
      BY <1>1, <1>11
    <3>3. QED
      BY <1>1, <2>1, <3>1, <3>2
  <2>4. QED
    BY <2>2, <2>3
<1>12. \A p \in Track : \E m \in 1 .. n + 1 : c[m].outpoint = p
  <2>1. ASSUME NEW p \in Track
        PROVE  \E m \in 1 .. n + 1 : c[m].outpoint = p
    <3>1. CASE p = start
      <4>1. 1 \in 1 .. n + 1
        BY <1>1
      <4>2. QED
        BY <1>10, <3>1, <4>1
    <3>2. ASSUME NEW i \in 1 .. n, p = f[i]
          PROVE  \E m \in 1 .. n + 1 : c[m].outpoint = p
      <4>1. i + 1 \in 1 .. n + 1 /\ c[i + 1] = [outpoint |-> f[i], role |-> "transfer"]
        BY <1>1, <1>2
      <4>2. c[i + 1].outpoint = p
        BY <3>2, <4>1
      <4>3. QED
        BY <4>1, <4>2
    <3>3. QED
      BY <1>1, <3>1, <3>2
  <2>2. QED
    BY <2>1
<1>13. \A m : m \in Wanted <=> m \in 1 .. n + 1 /\ Content(c[m].outpoint) # None
  <2>1. ASSUME NEW m \in Wanted
        PROVE  m \in 1 .. n + 1 /\ Content(c[m].outpoint) # None
    <3>1. /\ m \in 1 .. n + 2 /\ Content(c[m].outpoint) # None
          /\ \A j \in 1 .. m - 1 : c[j].outpoint # c[m].outpoint
      BY <1>2, <1>6
    <3>2. ASSUME m = n + 2
          PROVE  FALSE
      <4>1. c[m].outpoint = u
        BY <1>2, <3>2
      <4>2. u # None
        BY <3>1, <4>1, OutpointIs DEF Content
      <4>3. PICK j \in 1 .. n + 1 : c[j].outpoint = u
        BY <1>7, <1>12, <4>2
      <4>4. j \in 1 .. m - 1
        BY <1>1, <3>2
      <4>5. QED
        BY <3>1, <4>1, <4>3, <4>4
    <3>3. QED
      BY <1>1, <3>1, <3>2
  <2>2. ASSUME NEW m \in 1 .. n + 1, Content(c[m].outpoint) # None
        PROVE  m \in Wanted
    <3>1. ASSUME NEW j \in 1 .. m - 1
          PROVE  c[j].outpoint # c[m].outpoint
      <4>1. j \in 1 .. n + 1 /\ j < m
        BY <1>1
      <4>2. c[j].outpoint[1] < c[m].outpoint[1] /\ c[m].outpoint[1] \in Nat
        BY <1>10, <1>11, <4>1
      <4>3. QED
        BY <4>2
    <3>2. m \in 1 .. Len(c)
      BY <1>1, <1>2
    <3>3. QED
      BY <1>6, <2>2, <3>1, <3>2
  <2>3. QED
    BY <2>1, <2>2
<1>14. /\ \A i \in 1 .. Len(found) : way[i] \in Wanted
       /\ \A i, j \in 1 .. Len(found) : i < j => way[i] < way[j]
       /\ \A m \in Wanted : \E i \in 1 .. Len(found) : way[i] = m
  BY <1>5 DEF Through
<1>15. /\ DOMAIN found = 1 .. Len(found) /\ DOMAIN told = 1 .. Len(found)
       /\ \A i \in 1 .. Len(found) : /\ way[i] \in 1 .. n + 1 /\ told[i] = c[way[i]].outpoint
                                     /\ found[i] = c[way[i]] /\ Content(told[i]) # None
                                     /\ told[i] \in Track
  <2>1. DOMAIN found = 1 .. Len(found) /\ DOMAIN told = 1 .. Len(found)
    BY <1>4, <1>7
  <2>2. ASSUME NEW i \in 1 .. Len(found)
        PROVE  /\ way[i] \in 1 .. n + 1 /\ told[i] = c[way[i]].outpoint
               /\ found[i] = c[way[i]] /\ Content(told[i]) # None /\ told[i] \in Track
    <3>1. told[i] = found[i].outpoint /\ found[i] = c[way[i]]
      BY <1>5, <1>7, <2>1
    <3>2. way[i] \in 1 .. n + 1 /\ Content(c[way[i]].outpoint) # None
      BY <1>13, <1>14
    <3>3. QED
      BY <1>10, <3>1, <3>2
  <2>3. QED
    BY <2>1, <2>2
<1>16. ASSUME NEW p \in Track, Content(p) # None
       PROVE  \E i \in 1 .. Len(found) : told[i] = p
  <2>1. PICK m \in 1 .. n + 1 : c[m].outpoint = p
    BY <1>12
  <2>2. m \in Wanted
    BY <1>13, <1>16, <2>1
  <2>3. PICK i \in 1 .. Len(found) : way[i] = m
    BY <1>14, <2>2
  <2>4. QED
    BY <1>15, <2>1, <2>3
<1>17. ToSet(told) = {p \in Track : Content(p) # None}
  <2>1. ASSUME NEW p
        PROVE  p \in ToSet(told) <=> \E i \in 1 .. Len(found) : told[i] = p
    BY <1>15 DEF ToSet
  <2>2. ASSUME NEW i \in 1 .. Len(found)
        PROVE  told[i] \in Track /\ Content(told[i]) # None
    BY <1>15
  <2>3. ASSUME NEW p
        PROVE  p \in ToSet(told) <=> p \in Track /\ Content(p) # None
    BY <1>16, <2>1, <2>2
  <2>4. QED
    BY <2>3
<1>18. ASSUME NEW i \in DOMAIN told, NEW j \in DOMAIN told, i < j
       PROVE  told[i][1] < told[j][1]
  <2>1. /\ way[i] \in 1 .. n + 1 /\ told[i] = c[way[i]].outpoint
        /\ way[j] \in 1 .. n + 1 /\ told[j] = c[way[j]].outpoint
        /\ way[i] < way[j]
    BY <1>14, <1>15, <1>18
  <2>2. c[way[i]].outpoint[1] < c[way[j]].outpoint[1]
    BY <1>11, <2>1
  <2>3. QED
    BY <2>1, <2>2
<1>19. ASSUME NEW i \in 1 .. Len(found)
       PROVE  found[i].role # "genesis" <=> told[i] # start
  <2> DEFINE m == way[i]
  <2>1. m \in 1 .. n + 1 /\ told[i] = c[m].outpoint /\ found[i] = c[m]
    BY <1>15
  <2> HIDE DEF m
  <2>2. QED
    BY <1>10, <2>1
<1>20. all.reinscribed <=> \E p \in Track \ {start} : Content(p) # None
  <2>1. ASSUME NEW i \in DOMAIN found, found[i].role # "genesis"
        PROVE  \E p \in Track \ {start} : Content(p) # None
    <3>1. told[i] \in Track /\ Content(told[i]) # None /\ told[i] # start
      BY <1>15, <1>19, <2>1
    <3>2. QED
      BY <3>1
  <2>2. ASSUME NEW p \in Track \ {start}, Content(p) # None
        PROVE  \E i \in DOMAIN found : found[i].role # "genesis"
    BY <1>15, <1>16, <1>19, <2>2
  <2>3. QED
    BY <1>3, <2>1, <2>2
<1>21. QED
  BY <1>17, <1>18, <1>20

\* An inspection comes after the walk, if there is one, and neither the walk nor
\* the claim changes then.
ReportAfter ==
  /\ phase \in {"trace", "walk"} => verdict = None
  /\ verdict # None => pc = "done"
  /\ report # None => phase \in {"show", "replied"}
  /\ InspectionTellsAll

LEMMA InspectsTellsAll ==
  ASSUME IInv, OnTrail, ReportAfter, Inspects
  PROVE  InspectionTellsAll'
<1>1. PICK failed \in SUBSET Fetched(Points) : report' = Inspection(Points, failed)
  BY DEF Inspects
<1>2. /\ verdict' = verdict /\ claim' = claim /\ start' = start /\ tip' = tip
      /\ misled' = misled
  BY DEF Inspects, vars
<1>3. report'.errors = failed
  BY <1>1, InspectionIs
<1>4. CASE failed # {}
  BY <1>3, <1>4 DEF InspectionTellsAll
<1>5. CASE failed = {}
  <2> DEFINE all == Inspection(Points, {})
             told == [i \in DOMAIN all.inscriptions |-> all.inscriptions[i].outpoint]
  <2>1. report' = all
    BY <1>1, <1>5
  <2>2. verdict = None => (all.contentDiffers <=> Differ)
    BY EndsAlone
  <2>3. ASSUME verdict # None, ~misled, tip.outcome \in {"unrefuted", "merged", "fee"},
               start \in Outpoint, Alone(start),
               claim.genesis = start, claim.current \in {None, tip.current, start}
        PROVE  /\ ToSet(told) = {p \in Track : Content(p) # None}
               /\ \A i, j \in DOMAIN told : i < j => told[i][1] < told[j][1]
               /\ all.reinscribed <=> \E p \in Track \ {start} : Content(p) # None
    <3>1. pc = "done"
      BY <2>3 DEF ReportAfter
    <3>2. WholeTrack(Forward) /\ tip.current \in {None} \cup Track
      BY <2>3, <3>1, ForwardIsTrack
    <3>3. claim.current \in {None} \cup Track
      BY <2>3, <3>2 DEF WholeTrack
    <3> HIDE DEF all, told
    <3>4. all = Inspection(Points, {}) /\ told = [i \in DOMAIN all.inscriptions |-> all.inscriptions[i].outpoint]
      BY DEF all, told
    <3>5. QED
      BY <2>3, <3>2, <3>3, <3>4, WalkTellsAll
  <2>4. Track' = Track
    BY <1>2 DEF Track
  <2>5. Differ' = Differ
    BY <1>2 DEF Differ
  <2>6. told = [i \in DOMAIN report'.inscriptions |-> report'.inscriptions[i].outpoint]
    BY <2>1
  <2> HIDE DEF all, told
  <2>7. QED
    BY <1>2, <2>1, <2>2, <2>3, <2>4, <2>5, <2>6 DEF InspectionTellsAll
<1>6. QED
  BY <1>4, <1>5

\* An inspection that could read everything tells all there is in what it looks
\* at: of the two ends whether their contents differ, and after a finished walk
\* from the origin what was inscribed on the satoshi, all of it, once and in
\* order. (inspectChain, src/services/reinscription.js)
THEOREM InspectionsTellAll == PositionSpec => []InspectionTellsAll
<1>1. PositionInit => ReportAfter
  BY DEF PositionInit, ReportAfter, InspectionTellsAll
<1>2. IInv /\ OnTrail /\ ReportAfter /\ [PositionNext]_positionVars => ReportAfter'
  <2> SUFFICES ASSUME IInv, OnTrail, ReportAfter, [PositionNext]_positionVars
               PROVE  ReportAfter'
    OBVIOUS
  <2>1. ASSUME verdict' \in {None, Verdict}, verdict' # None => pc' = "done",
               phase' \in {"trace", "walk"} => verdict' = None, report' = None
        PROVE  ReportAfter'
    BY <2>1 DEF ReportAfter, InspectionTellsAll
  <2>2. CASE (\E indexer \in DOMAIN KnowsLatest : Trace(indexer)) \/ TraceUnavailable
    BY <2>1, <2>2 DEF Trace, TraceUnavailable, ReportAfter
  <2>3. CASE Walks
    BY <2>1, <2>3 DEF Walks, ReportAfter, position
  <2>4. CASE Compares
    BY <2>1, <2>4 DEF Compares, ReportAfter, vars
  <2>5. CASE Inspects
    <3>1. /\ verdict' = verdict /\ pc' = pc /\ phase' = "show"
      BY <2>5 DEF Inspects, vars
    <3>2. InspectionTellsAll'
      BY <2>5, InspectsTellsAll
    <3>3. QED
      BY <3>1, <3>2 DEF ReportAfter
  <2>6. ASSUME InspectsNothing \/ Shows \/ Replied \/ UNCHANGED positionVars
        PROVE  ReportAfter'
    <3>1. /\ verdict' = verdict /\ claim' = claim /\ start' = start /\ tip' = tip
          /\ misled' = misled /\ pc' = pc /\ report' = report
          /\ phase' = phase \/ (phase' = "show" /\ phase = "inspect")
               \/ (phase' = "replied" /\ phase = "show")
      BY <2>6 DEF InspectsNothing, Shows, Replied, positionVars, position, vars
    <3>2. Track' = Track /\ Differ' = Differ
      BY <3>1 DEF Track, Differ
    <3>3. InspectionTellsAll'
      BY <3>1, <3>2 DEF ReportAfter, InspectionTellsAll
    <3>4. QED
      BY <3>1, <3>3 DEF ReportAfter
  <2>7. QED
    BY <2>2, <2>3, <2>4, <2>5, <2>6 DEF PositionNext, PositionStep
<1>3. ReportAfter => InspectionTellsAll
  BY DEF ReportAfter
<1>4. QED
  BY <1>1, <1>2, <1>3, PositionWalks, InvariantHolds, TrailHolds, PTL DEF PositionSpec

=============================================================================
