------------------------ MODULE TokenValidateProofs ------------------------
(* The safety properties of TokenValidate, for every chain of transactions,    *)
(* every depth and every budget.                                               *)
EXTENDS TokenValidate, HelperProofs

-----------------------------------------------------------------------------
(* Facts about the chain. *)

Places(t) == DOMAIN TxOf[t].inputs
Position(t, i) == TxOf[t].inputs[i][2]

LEMMA ChainIs ==
  /\ Len(TxOf) \in Nat /\ TxId = 1 .. Len(TxOf) /\ IsFiniteSet(TxId)
  /\ \A t \in TxId :
       /\ IsFiniteSet(DOMAIN TxOf[t].inputs) /\ IsFiniteSet(DOMAIN TxOf[t].outputs)
       /\ Places(t) = 1 .. Len(TxOf[t].inputs) /\ Len(TxOf[t].inputs) \in Nat
       /\ Places(t) \in SUBSET Nat
<1>1. Len(TxOf) \in Nat /\ TxId = 1 .. Len(TxOf)
  BY TransactionAssumption DEF TxId
<1>2. ASSUME NEW t \in TxId
      PROVE  /\ DOMAIN TxOf[t].inputs = 1 .. Len(TxOf[t].inputs)
             /\ DOMAIN TxOf[t].outputs = 1 .. Len(TxOf[t].outputs)
             /\ Len(TxOf[t].inputs) \in Nat /\ Len(TxOf[t].outputs) \in Nat
  BY TransactionAssumption
<1>3. \A n \in Nat : IsFiniteSet(1 .. n) /\ 1 .. n \in SUBSET Nat
  BY FS_Interval
<1>4. QED
  BY <1>1, <1>2, <1>3 DEF Places

LEMMA SourceIs ==
  ASSUME NEW t \in TxId, NEW i \in Places(t)
  PROVE  /\ SourceOf(t, i) \in TxId /\ SourceOf(t, i) \in Nat /\ t \in Nat
         /\ SourceOf(t, i) < t
         /\ Position(t, i) \in DOMAIN TxOf[SourceOf(t, i)].outputs
         /\ TxOf[t].inputs[i] = <<SourceOf(t, i), Position(t, i)>>
         /\ SpentToken(t, i) = MadeToken(SourceOf(t, i), Position(t, i))
<1>1. t \in 1 .. Len(TxOf) /\ Len(TxOf) \in Nat /\ i \in DOMAIN TxOf[t].inputs
  BY ChainIs DEF Places
<1>2. /\ SourceOf(t, i) \in 1 .. t - 1
      /\ Position(t, i) \in DOMAIN TxOf[SourceOf(t, i)].outputs
  BY <1>1, TokenChainAssumption DEF Position, SourceOf
<1>3. TxOf[t].inputs[i] \in Nat \X Nat
  BY <1>1, TransactionAssumption
<1>4. SourceOf(t, i) \in TxId
  BY <1>1, <1>2, ChainIs
<1>5. QED
  BY <1>1, <1>2, <1>3, <1>4 DEF Position, SourceOf, SpentToken, MadeToken

\* No output is spent twice.
LEMMA SpentOnce ==
  ASSUME NEW t \in TxId, NEW i \in Places(t), NEW u \in TxId, NEW j \in Places(u),
         TxOf[t].inputs[i] = TxOf[u].inputs[j]
  PROVE  t = u /\ i = j
BY TokenChainAssumption DEF Places

\* What counts has an amount.
LEMMA AmountIs ==
  /\ \A t \in TxId : \A v \in DOMAIN TxOf[t].outputs :
       MadeToken(t, v) # None /\ Contributes(MadeToken(t, v))
         => MadeToken(t, v).amount \in Nat
  /\ \A t \in TxId : \A i \in Places(t) :
       SpentToken(t, i) # None /\ Contributes(SpentToken(t, i))
         => SpentToken(t, i).amount \in Nat
<1>1. ASSUME NEW t \in TxId, NEW v \in DOMAIN TxOf[t].outputs,
             MadeToken(t, v) # None, Contributes(MadeToken(t, v))
      PROVE  MadeToken(t, v).amount \in Nat
  BY <1>1, TransactionAssumption DEF MadeToken, Contributes
<1>2. QED
  BY <1>1, SourceIs

-----------------------------------------------------------------------------
(* The amounts of outputs, of inputs and of a whole ancestry are sums.         *)

LEMMA MadeIsSum ==
  ASSUME NEW t, NEW S, IsFiniteSet(S), NEW f, \A v \in S : f[v] = MadeToken(t, v).amount
  PROVE  Made(t, S) = Sum(f, S)
<1> DEFINE Adds(g) ==
             g = [T \in SUBSET S |-> IF T = {} THEN 0
                                     ELSE MadeToken(t, Picked(T)).amount + g[T \ {Picked(T)}]]
           iter == CHOOSE g : Adds(g)
<1>1. PICK g : Sums(f, SUBSET S, g)
  BY SumsExist
<1>2. ASSUME NEW T \in SUBSET S, T # {}
      PROVE  f[Picked(T)] = MadeToken(t, Picked(T)).amount
  BY <1>2 DEF Picked
<1>3. Adds(g)
  BY <1>1, <1>2 DEF Sums
<1>4. Adds(iter)
  BY <1>3
<1>5. Made(t, S) = iter[S]
  BY DEF Made, MapThenSumSet, MapThenFoldSet, Picked
<1>6. Sums(f, SUBSET S, iter)
  BY <1>2, <1>4 DEF Sums
<1> HIDE DEF iter
<1>7. QED
  BY <1>5, <1>6, SumIsOnly

LEMMA SpentIsSum ==
  ASSUME NEW t, NEW S, IsFiniteSet(S), NEW f, \A i \in S : f[i] = SpentToken(t, i).amount
  PROVE  Spent(t, S) = Sum(f, S)
<1> DEFINE Adds(g) ==
             g = [T \in SUBSET S |-> IF T = {} THEN 0
                                     ELSE SpentToken(t, Picked(T)).amount + g[T \ {Picked(T)}]]
           iter == CHOOSE g : Adds(g)
<1>1. PICK g : Sums(f, SUBSET S, g)
  BY SumsExist
<1>2. ASSUME NEW T \in SUBSET S, T # {}
      PROVE  f[Picked(T)] = SpentToken(t, Picked(T)).amount
  BY <1>2 DEF Picked
<1>3. Adds(g)
  BY <1>1, <1>2 DEF Sums
<1>4. Adds(iter)
  BY <1>3
<1>5. Spent(t, S) = iter[S]
  BY DEF Spent, MapThenSumSet, MapThenFoldSet, Picked
<1>6. Sums(f, SUBSET S, iter)
  BY <1>2, <1>4 DEF Sums
<1> HIDE DEF iter
<1>7. QED
  BY <1>5, <1>6, SumIsOnly

LEMMA SupplyIsSum ==
  ASSUME NEW t, NEW key, IsFiniteSet(Ancestors[t]), NEW f,
         \A u \in Ancestors[t] : f[u] = Made(u, Created(u, key))
  PROVE  Supply(t, key) = Sum(f, Ancestors[t])
<1> DEFINE S == Ancestors[t]
           Adds(g) ==
             g = [T \in SUBSET S |-> IF T = {} THEN 0
                                     ELSE Made(Picked(T), Created(Picked(T), key))
                                            + g[T \ {Picked(T)}]]
           iter == CHOOSE g : Adds(g)
<1>1. PICK g : Sums(f, SUBSET S, g)
  BY SumsExist
<1>2. ASSUME NEW T \in SUBSET S, T # {}
      PROVE  f[Picked(T)] = Made(Picked(T), Created(Picked(T), key))
  BY <1>2 DEF Picked
<1>3. Adds(g)
  BY <1>1, <1>2 DEF Sums
<1>4. Adds(iter)
  BY <1>3
<1>5. Supply(t, key) = iter[S]
  BY DEF Supply, MapThenSumSet, MapThenFoldSet, Picked
<1>6. Sums(f, SUBSET S, iter)
  BY <1>2, <1>4 DEF Sums
<1> HIDE DEF iter, S
<1>7. QED
  BY <1>5, <1>6, SumIsOnly DEF S

-----------------------------------------------------------------------------
(* Verdicts. *)

\* The inputs of a token that count towards its balance.
Valued(t, key, missed) ==
  {i \in TokenInputs(t, missed) : SpentToken(t, i).key = key /\ Contributes(SpentToken(t, i))}

\* Reading more inputs adds balance.
LEMMA SpentGrows ==
  ASSUME NEW t \in TxId, NEW key, NEW missed
  PROVE  /\ Spent(t, Valued(t, key, missed)) \in Nat
         /\ Spent(t, Valued(t, key, {})) \in Nat
         /\ Spent(t, Valued(t, key, missed)) <= Spent(t, Valued(t, key, {}))
<1> DEFINE S == Valued(t, key, {})
           T == Valued(t, key, missed)
           f == [i \in S |-> SpentToken(t, i).amount]
<1>1. S \in SUBSET Places(t) /\ T \in SUBSET S /\ IsFiniteSet(S)
  <2>1. IsFiniteSet(Places(t))
    BY ChainIs DEF Places
  <2>2. S \in SUBSET Places(t) /\ T \in SUBSET S
    BY DEF Valued, TokenInputs, Places
  <2> HIDE DEF S
  <2>3. QED
    BY <2>1, <2>2, FS_Subset
<1>2. \A i \in S : f[i] \in Nat
  <2>1. \A i \in S : i \in Places(t) /\ SpentToken(t, i) # None /\ Contributes(SpentToken(t, i))
    BY DEF Valued, TokenInputs, Places
  <2>2. QED
    BY <2>1, AmountIs
<1>3. \A i \in S : f[i] = SpentToken(t, i).amount
  OBVIOUS
<1> HIDE DEF S, T, f
<1>4. /\ IsFiniteSet(T) /\ Sum(f, T) \in Nat /\ Sum(f, S) \in Nat /\ Sum(f, T) <= Sum(f, S)
  BY <1>1, <1>2, SumOfPart
<1>5. Spent(t, S) = Sum(f, S)
  BY <1>1, <1>3, SpentIsSum
<1>6. Spent(t, T) = Sum(f, T)
  BY <1>1, <1>3, <1>4, SpentIsSum
<1>7. QED
  BY <1>4, <1>5, <1>6 DEF S, T
\* What is moved is a number.
LEMMA MovedIs ==
  ASSUME NEW t \in TxId, NEW key
  PROVE  Made(t, Moved(t, key)) \in Nat
<1> DEFINE S == Moved(t, key)
           f == [v \in S |-> MadeToken(t, v).amount]
<1>1. IsFiniteSet(S)
  <2>1. IsFiniteSet(DOMAIN TxOf[t].outputs)
    BY ChainIs
  <2>2. S \in SUBSET DOMAIN TxOf[t].outputs
    BY DEF Moved, Creating, TokenOutputs
  <2> HIDE DEF S
  <2>3. QED
    BY <2>1, <2>2, FS_Subset
<1>2. \A v \in S : f[v] \in Nat
  <2>1. \A v \in S : /\ v \in DOMAIN TxOf[t].outputs /\ MadeToken(t, v) # None
                      /\ Contributes(MadeToken(t, v))
    BY DEF Moved, Creating, TokenOutputs
  <2>2. QED
    BY <2>1, AmountIs
<1>3. \A v \in S : f[v] = MadeToken(t, v).amount
  OBVIOUS
<1> HIDE DEF S, f
<1>4. Made(t, S) = Sum(f, S) /\ Sum(f, S) \in Nat
  BY <1>1, <1>2, <1>3, MadeIsSum, SumTake
<1>5. QED
  BY <1>4 DEF S

\* What the inputs read leave uncovered, and what no inputs can make good.
Short(t, key, missed) == Made(t, Moved(t, key)) > Spent(t, Valued(t, key, missed))
Wrong(t, key, missed) ==
  \/ \E v \in Creating(t, key) : TxOf[t].outputs[v].satoshis # 1
  \/ /\ Minted(t, key) # {} /\ Deploys(t, key) = {}
     /\ ~\E i \in TokenInputs(t, missed) : SpentToken(t, i).key = key /\ IsAuth(SpentToken(t, i))

LEMMA ConservedIs ==
  ASSUME NEW t, NEW key, NEW missed
  PROVE  /\ Conserved(t, key, missed) \in {"open", "no", "yes"}
         /\ Conserved(t, key, missed) = "open" <=> Short(t, key, missed) /\ missed # {}
         /\ Conserved(t, key, missed) = "yes" <=>
              /\ ~Short(t, key, missed) /\ ~Wrong(t, key, missed)
              /\ ~(missed = {} /\ Moved(t, key) # {} /\ Valued(t, key, missed) = {}
                    /\ Deploys(t, key) = {})
<1> DEFINE spending == {i \in TokenInputs(t, missed) : SpentToken(t, i).key = key}
<1>1. {i \in spending : Contributes(SpentToken(t, i))} = Valued(t, key, missed)
  BY DEF Valued
<1>2. (~\E i \in spending : IsAuth(SpentToken(t, i)))
        <=> ~\E i \in TokenInputs(t, missed) :
              SpentToken(t, i).key = key /\ IsAuth(SpentToken(t, i))
  OBVIOUS
<1>3. QED
  BY <1>1, <1>2 DEF Conserved, Short, Wrong

LEMMA VerdictIs ==
  ASSUME NEW t, NEW missed
  PROVE  /\ Verdict(t, missed) \in {"open", "no", "yes"}
         /\ Verdict(t, missed) = "yes" <=>
              \A key \in Keys(t) : Conserved(t, key, missed) = "yes"
         /\ Verdict(t, missed) = "no" <=>
              \E key \in Keys(t) : Conserved(t, key, missed) = "no"
<1>1. \A key \in Keys(t) : Conserved(t, key, missed) \in {"open", "no", "yes"}
  BY ConservedIs
<1>2. QED
  BY <1>1 DEF Verdict

\* What is decided on some of the inputs is what all of them decide, unless a
\* mint or a movement of nothing is left unsettled.
LEMMA DecidedIsFinal ==
  ASSUME NEW t \in TxId, NEW missed, ~Unsettled(t), Verdict(t, missed) # "open"
  PROVE  Verdict(t, missed) = Verdict(t, {})
<1>1. ASSUME NEW key \in Keys(t)
      PROVE  /\ Wrong(t, key, missed) <=> Wrong(t, key, {})
             /\ ~Short(t, key, missed) => ~Short(t, key, {})
             /\ ~Short(t, key, missed) /\ Valued(t, key, {}) = {} => Moved(t, key) = {}
  <2>1. Minted(t, key) = {} /\ (Moved(t, key) # {} => Made(t, Moved(t, key)) # 0)
    BY DEF Unsettled
  <2>2. Made(t, Moved(t, key)) \in Nat
    BY MovedIs
  <2>3. /\ Spent(t, Valued(t, key, missed)) \in Nat
        /\ Spent(t, Valued(t, key, {})) \in Nat
        /\ Spent(t, Valued(t, key, missed)) <= Spent(t, Valued(t, key, {}))
    BY SpentGrows
  <2>4. Spent(t, {}) = 0
    <3> DEFINE f == << >>
    <3>1. Spent(t, {}) = Sum(f, {})
      BY SpentIsSum, FS_EmptySet
    <3>2. QED
      BY <3>1, SumOfNone
  <2>5. QED
    BY <2>1, <2>2, <2>3, <2>4 DEF Short, Wrong
<1>2. CASE missed = {}
  BY <1>2
<1>3. CASE missed # {}
  <2>1. CASE Verdict(t, missed) = "yes"
    <3>1. ASSUME NEW key \in Keys(t)
          PROVE  Conserved(t, key, {}) = "yes"
      <4>1. Conserved(t, key, missed) = "yes"
        BY <2>1, VerdictIs
      <4>2. ~Short(t, key, missed) /\ ~Wrong(t, key, missed)
        BY <4>1, ConservedIs
      <4>3. ~Short(t, key, {}) /\ ~Wrong(t, key, {})
              /\ (Valued(t, key, {}) = {} => Moved(t, key) = {})
        BY <1>1, <4>2
      <4>4. QED
        BY <4>3, ConservedIs
    <3>2. QED
      BY <2>1, <3>1, VerdictIs
  <2>2. CASE Verdict(t, missed) = "no"
    <3>1. PICK key \in Keys(t) : Conserved(t, key, missed) = "no"
      BY <2>2, VerdictIs
    <3>2. Wrong(t, key, missed)
      <4>1. Conserved(t, key, missed) # "yes" /\ Conserved(t, key, missed) # "open"
        BY <3>1
      <4>2. QED
        BY <1>3, <4>1, ConservedIs
    <3>3. Wrong(t, key, {})
      BY <1>1, <3>2
    <3>4. Conserved(t, key, {}) = "no"
      BY <3>3, ConservedIs
    <3>5. QED
      BY <2>2, <3>4, VerdictIs
  <2>3. QED
    BY <2>1, <2>2, VerdictIs
<1>4. QED
  BY <1>2, <1>3

-----------------------------------------------------------------------------
(* What is behind a transaction. *)

\* A transaction's ancestors are itself and those of its sources.
LEMMA AncestorsUnfold ==
  ASSUME NEW t \in TxId
  PROVE  Ancestors[t] = {t} \cup UNION {Ancestors[SourceOf(t, i)] : i \in Places(t)}
<1> DEFINE Unfold(g, u) == {u} \cup UNION {g[SourceOf(u, i)] : i \in Places(u)}
           Solves(g, m) == g = [u \in 1 .. m |-> Unfold(g, u)]
           Bad == {m \in Nat : m <= Len(TxOf) /\ ~ \E g : Solves(g, m)}
<1>1. ASSUME Bad # {}
      PROVE  FALSE
  <2> DEFINE m == Min(Bad)
  <2>1. m \in Nat /\ m \in Bad /\ \A k \in Bad : m <= k
    BY <1>1, MinIsLeast
  <2>2. m <= Len(TxOf) /\ Len(TxOf) \in Nat /\ TxId = 1 .. Len(TxOf)
    BY <2>1, ChainIs
  <2> HIDE DEF m
  <2>3. CASE m = 0
    <3> DEFINE g == [u \in 1 .. 0 |-> {}]
    <3>1. Solves(g, 0)
      OBVIOUS
    <3> HIDE DEF g, Solves
    <3>2. QED
      BY <2>1, <2>3, <3>1
  <2>4. CASE m # 0
    <3>1. m - 1 \in Nat /\ m - 1 \notin Bad /\ m - 1 <= Len(TxOf)
      <4> HIDE DEF Bad
      <4>1. QED
        BY <2>1, <2>2, <2>4
    <3>2. PICK g : Solves(g, m - 1)
      BY <3>1
    <3> DEFINE h == [u \in 1 .. m |-> Unfold(g, u)]
    <3>3. ASSUME NEW u \in 1 .. m
          PROVE  Unfold(h, u) = Unfold(g, u)
      <4>1. ASSUME NEW i \in Places(u)
            PROVE  h[SourceOf(u, i)] = g[SourceOf(u, i)]
        <5>1. u \in TxId
          BY <2>1, <2>2
        <5>2. SourceOf(u, i) \in TxId /\ SourceOf(u, i) \in Nat /\ SourceOf(u, i) < u
          BY <5>1, SourceIs
        <5>3. SourceOf(u, i) \in 1 .. m - 1 /\ SourceOf(u, i) \in 1 .. m
          BY <2>1, <2>2, <5>2
        <5> HIDE DEF Unfold
        <5>4. QED
          BY <3>2, <5>3
      <4> HIDE DEF h
      <4>2. QED
        BY <4>1
    <3>4. Solves(h, m)
      <4> HIDE DEF Unfold
      <4>1. QED
        BY <3>3
    <3> HIDE DEF h, Solves
    <3>5. QED
      BY <2>1, <3>4
  <2>5. QED
    BY <2>3, <2>4
<1>2. \E g : Solves(g, Len(TxOf))
  <2>1. Len(TxOf) \in Nat /\ Len(TxOf) \notin Bad
    <3> HIDE DEF Bad
    <3>1. QED
      BY <1>1, ChainIs
  <2>2. QED
    BY <2>1
<1>3. Solves(Ancestors, Len(TxOf))
  <2>1. TxId = 1 .. Len(TxOf)
    BY ChainIs
  <2> DEFINE g == CHOOSE h : Solves(h, Len(TxOf))
  <2>2. Solves(g, Len(TxOf))
    BY <1>2
  <2>3. Ancestors = g
    BY <2>1 DEF Ancestors, Places, SourceOf
  <2> HIDE DEF g, Solves
  <2>4. QED
    BY <2>2, <2>3
<1>4. Ancestors[t] = Unfold(Ancestors, t)
  <2>1. t \in 1 .. Len(TxOf)
    BY ChainIs
  <2> HIDE DEF Unfold
  <2>2. QED
    BY <1>3, <2>1
<1>5. QED
  BY <1>4

\* They are as old or older, and closed.
LEMMA AncestorsClosed ==
  ASSUME NEW t \in TxId
  PROVE  /\ t \in Ancestors[t] /\ Ancestors[t] \in SUBSET (1 .. t)
         /\ \A u \in Ancestors[t] : \A i \in Places(u) : SourceOf(u, i) \in Ancestors[t]
<1> DEFINE Closed(u) ==
             /\ u \in Ancestors[u] /\ Ancestors[u] \in SUBSET (1 .. u)
             /\ \A w \in Ancestors[u] : \A i \in Places(w) : SourceOf(w, i) \in Ancestors[u]
           Bad == {u \in TxId : ~Closed(u)}
<1>1. TxId \in SUBSET Nat
  BY ChainIs
<1>2. ASSUME Bad # {}
      PROVE  FALSE
  <2> DEFINE u == Min(Bad)
  <2>1. u \in Bad /\ \A k \in Bad : u <= k
    BY <1>1, <1>2, MinIsLeast
  <2> HIDE DEF u
  <2>2. u \in TxId /\ ~Closed(u) /\ u \in Nat /\ u >= 1
    <3>1. u \in TxId /\ ~Closed(u)
      <4> HIDE DEF Closed
      <4>1. QED
        BY <2>1
    <3>2. QED
      BY <3>1, ChainIs
  <2>3. ASSUME NEW i \in Places(u)
        PROVE  /\ SourceOf(u, i) \in Nat /\ SourceOf(u, i) < u /\ Closed(SourceOf(u, i))
    <3>1. SourceOf(u, i) \in Nat /\ SourceOf(u, i) < u /\ SourceOf(u, i) \in TxId
      BY <2>2, SourceIs
    <3>2. SourceOf(u, i) \notin Bad
      <4> HIDE DEF Bad
      <4>1. QED
        BY <2>1, <2>2, <3>1
    <3> HIDE DEF Closed
    <3>3. QED
      BY <3>1, <3>2
  <2>4. Ancestors[u] = {u} \cup UNION {Ancestors[SourceOf(u, i)] : i \in Places(u)}
    BY <2>2, AncestorsUnfold
  <2>5. u \in Ancestors[u]
    BY <2>4
  <2>6. Ancestors[u] \in SUBSET (1 .. u)
    <3>1. ASSUME NEW i \in Places(u)
          PROVE  Ancestors[SourceOf(u, i)] \subseteq 1 .. u
      <4>1. Ancestors[SourceOf(u, i)] \in SUBSET (1 .. SourceOf(u, i))
        BY <2>3
      <4>2. 1 .. SourceOf(u, i) \subseteq 1 .. u
        BY <2>2, <2>3
      <4>3. QED
        BY <4>1, <4>2
    <3>2. u \in 1 .. u
      BY <2>2
    <3>3. QED
      BY <2>4, <3>1, <3>2
  <2>7. ASSUME NEW w \in Ancestors[u], NEW i \in Places(w)
        PROVE  SourceOf(w, i) \in Ancestors[u]
    <3>1. CASE w = u
      <4>1. SourceOf(u, i) \in Ancestors[SourceOf(u, i)]
        BY <2>3, <3>1
      <4>2. QED
        BY <2>4, <3>1, <4>1
    <3>2. CASE w # u
      <4>1. PICK j \in Places(u) : w \in Ancestors[SourceOf(u, j)]
        BY <2>4, <3>2
      <4>2. SourceOf(w, i) \in Ancestors[SourceOf(u, j)]
        BY <2>3, <4>1
      <4>3. QED
        BY <2>4, <4>2
    <3>3. QED
      BY <3>1, <3>2
  <2>8. QED
    BY <2>2, <2>5, <2>6, <2>7
<1>3. Closed(t)
  BY <1>2
<1>4. QED
  BY <1>3

\* A legal transaction moves no more of a token than it takes in, of the inputs
\* that were read; one of deploys alone moves none.
LEMMA MovedCovered ==
  ASSUME NEW t \in TxId, NEW key, key # None, NEW missed, Verdict(t, missed) = "yes"
  PROVE  /\ Made(t, Moved(t, key)) <= Spent(t, Valued(t, key, missed))
         /\ SelfContained(t) => Made(t, Moved(t, key)) <= Spent(t, {})
<1>1. Made(t, Moved(t, key)) \in Nat /\ Spent(t, Valued(t, key, missed)) \in Nat
  BY MovedIs, SpentGrows
<1>2. Made(t, {}) = 0 /\ Spent(t, {}) = 0
  <2> DEFINE f == << >>
  <2>1. Made(t, {}) = Sum(f, {}) /\ Spent(t, {}) = Sum(f, {})
    <3>1. IsFiniteSet({})
      BY FS_EmptySet
    <3>2. Made(t, {}) = Sum(f, {})
      BY <3>1, MadeIsSum
    <3>3. Spent(t, {}) = Sum(f, {})
      BY <3>1, SpentIsSum
    <3>4. QED
      BY <3>2, <3>3
  <2>2. QED
    BY <2>1, SumOfNone
<1>3. CASE key \in Keys(t)
  <2>1. ~Short(t, key, missed)
    BY <1>3, VerdictIs, ConservedIs
  <2>2. SelfContained(t) => Moved(t, key) = {}
    BY DEF SelfContained, Moved, Deploys, Creating
  <2>3. QED
    BY <1>1, <1>2, <2>1, <2>2 DEF Short
<1>4. CASE key \notin Keys(t)
  <2>1. Moved(t, key) = {}
    BY <1>4 DEF Keys, Moved, Creating
  <2>2. QED
    BY <1>1, <1>2, <2>1
<1>5. QED
  BY <1>3, <1>4

\* What every output is worth, by transaction and position.
Amounts == [p \in Nat \X Nat |-> MadeToken(p[1], p[2]).amount]

LEMMA OutputsSum ==
  ASSUME NEW t \in TxId, NEW S \in SUBSET DOMAIN TxOf[t].outputs,
         \A v \in S : MadeToken(t, v) # None /\ Contributes(MadeToken(t, v))
  PROVE  /\ IsFiniteSet({<<t, v>> : v \in S})
         /\ \A p \in {<<t, v>> : v \in S} : Amounts[p] \in Nat
         /\ Made(t, S) = Sum(Amounts, {<<t, v>> : v \in S})
<1> DEFINE name == [v \in S |-> <<t, v>>]
           h == [v \in S |-> MadeToken(t, v).amount]
<1>1. IsFiniteSet(S) /\ t \in Nat
  BY ChainIs, FS_Subset
<1>2. S \in SUBSET Nat
  BY TransactionAssumption
<1>3. ASSUME NEW v \in S
      PROVE  /\ h[v] \in Nat /\ h[v] = MadeToken(t, v).amount
             /\ name[v] = <<t, v>> /\ Amounts[<<t, v>>] = h[v]
  <2>1. <<t, v>> \in Nat \X Nat
    BY <1>1, <1>2
  <2>2. Amounts[<<t, v>>] = MadeToken(t, v).amount
    BY <2>1 DEF Amounts
  <2>3. MadeToken(t, v).amount \in Nat
    BY AmountIs
  <2>4. QED
    BY <2>2, <2>3
<1>4. \A v, w \in S : name[v] = name[w] => v = w
  BY <1>3
<1> HIDE DEF h, name
<1>5. Made(t, S) = Sum(h, S)
  BY <1>1, <1>3, MadeIsSum
<1>6. \A v \in S : h[v] \in Nat /\ h[v] = Amounts[name[v]]
  BY <1>3
<1>7. IsFiniteSet({name[v] : v \in S}) /\ Sum(h, S) = Sum(Amounts, {name[v] : v \in S})
  <2>1. Renames(Amounts, h, name, S)
    BY <1>1, <1>4, <1>6 DEF Renames
  <2>2. Renamed(Amounts, h, name, S)
    BY <2>1, SumRenamed
  <2>3. QED
    BY <2>2 DEF Renamed
<1>8. {name[v] : v \in S} = {<<t, v>> : v \in S}
  BY <1>3
<1>9. QED
  BY <1>3, <1>5, <1>7, <1>8

LEMMA InputsSum ==
  ASSUME NEW t \in TxId, NEW S \in SUBSET Places(t),
         \A i \in S : SpentToken(t, i) # None /\ Contributes(SpentToken(t, i))
  PROVE  /\ IsFiniteSet({TxOf[t].inputs[i] : i \in S})
         /\ \A p \in {TxOf[t].inputs[i] : i \in S} : Amounts[p] \in Nat
         /\ Spent(t, S) = Sum(Amounts, {TxOf[t].inputs[i] : i \in S})
<1> DEFINE name == [i \in S |-> TxOf[t].inputs[i]]
           h == [i \in S |-> SpentToken(t, i).amount]
<1>1. IsFiniteSet(S)
  <2>1. IsFiniteSet(Places(t))
    BY ChainIs DEF Places
  <2>2. QED
    BY <2>1, FS_Subset
<1>2. ASSUME NEW i \in S
      PROVE  /\ h[i] \in Nat /\ h[i] = SpentToken(t, i).amount
             /\ name[i] = TxOf[t].inputs[i] /\ Amounts[TxOf[t].inputs[i]] = h[i]
  <2>1. TxOf[t].inputs[i] \in Nat \X Nat
    BY TransactionAssumption DEF Places
  <2>2. Amounts[TxOf[t].inputs[i]] = SpentToken(t, i).amount
    <3> DEFINE p == TxOf[t].inputs[i]
    <3>1. SpentToken(t, i) = MadeToken(p[1], p[2])
      BY DEF SpentToken, MadeToken
    <3>2. p \in Nat \X Nat
      BY <2>1
    <3> HIDE DEF p
    <3>3. Amounts[p] = MadeToken(p[1], p[2]).amount
      BY <3>2 DEF Amounts
    <3>4. QED
      BY <3>1, <3>3 DEF p
  <2>3. SpentToken(t, i).amount \in Nat
    BY AmountIs
  <2>4. QED
    BY <2>2, <2>3
<1>3. \A i, j \in S : name[i] = name[j] => i = j
  BY <1>2, SpentOnce
<1> HIDE DEF h, name
<1>4. Spent(t, S) = Sum(h, S)
  BY <1>1, <1>2, SpentIsSum
<1>5. \A i \in S : h[i] \in Nat /\ h[i] = Amounts[name[i]]
  BY <1>2
<1>6. IsFiniteSet({name[i] : i \in S}) /\ Sum(h, S) = Sum(Amounts, {name[i] : i \in S})
  <2>1. Renames(Amounts, h, name, S)
    BY <1>1, <1>3, <1>5 DEF Renames
  <2>2. Renamed(Amounts, h, name, S)
    BY <2>1, SumRenamed
  <2>3. QED
    BY <2>2 DEF Renamed
<1>7. {name[i] : i \in S} = {TxOf[t].inputs[i] : i \in S}
  BY <1>2
<1>8. QED
  BY <1>2, <1>4, <1>6, <1>7

\* A legal transaction all of whose sources are in P, or that needs none.
Sourced(P, t) ==
  \E missed \in SUBSET Places(t) :
    /\ Verdict(t, missed) = "yes"
    /\ SelfContained(t) \/ \A i \in Sources(t, missed) : SourceOf(t, i) \in P

\* Inputs that pay for what a transaction moves of a token, all out of P.
Pays(P, key, t, S) ==
  /\ S \in SUBSET Places(t)
  /\ \A i \in S : /\ SpentToken(t, i) # None /\ SpentToken(t, i).key = key
                  /\ Contributes(SpentToken(t, i)) /\ SourceOf(t, i) \in P
  /\ Made(t, Moved(t, key)) <= Spent(t, S)

LEMMA SomethingPays ==
  ASSUME NEW P, NEW t \in TxId, Sourced(P, t), NEW key, key # None
  PROVE  \E S : Pays(P, key, t, S)
<1>1. PICK missed \in SUBSET Places(t) :
             /\ Verdict(t, missed) = "yes"
             /\ SelfContained(t) \/ \A i \in Sources(t, missed) : SourceOf(t, i) \in P
  BY DEF Sourced
<1>2. CASE SelfContained(t)
  <2>1. Pays(P, key, t, {})
    BY <1>1, <1>2, MovedCovered DEF Pays
  <2>2. QED
    BY <2>1
<1>3. CASE ~SelfContained(t)
  <2>1. \A i \in Valued(t, key, missed) :
          /\ i \in Places(t) /\ i \in Sources(t, missed)
          /\ SpentToken(t, i) # None /\ SpentToken(t, i).key = key
          /\ Contributes(SpentToken(t, i))
    BY DEF Valued, Sources, TokenInputs, Places
  <2>2. Made(t, Moved(t, key)) <= Spent(t, Valued(t, key, missed))
    BY <1>1, MovedCovered
  <2>3. Pays(P, key, t, Valued(t, key, missed))
    BY <1>1, <1>3, <2>1, <2>2 DEF Pays
  <2>4. QED
    BY <2>3
<1>4. QED
  BY <1>2, <1>3

\* What proven transactions move was created behind them: none of it comes from
\* anywhere else, and no output of it is spent on two of them.
LEMMA FlowIsBacked ==
  ASSUME NEW P \in SUBSET TxId, \A u \in P : Sourced(P, u),
         NEW t \in P, NEW key, key # None
  PROVE  Made(t, Moved(t, key)) <= Supply(t, key)
<1> DEFINE A == Ancestors[t] \cap P
           In == [u \in P |-> CHOOSE S : Pays(P, key, u, S)]
           M == [u \in TxId |-> {<<u, v>> : v \in Moved(u, key)}]
           C == [u \in TxId |-> {<<u, v>> : v \in Created(u, key)}]
           S == [u \in P |-> {TxOf[u].inputs[i] : i \in In[u]}]
           moved == [u \in TxId |-> Made(u, Moved(u, key))]
           created == [u \in TxId |-> Made(u, Created(u, key))]
           spent == [u \in P |-> Spent(u, In[u])]
<1>1. /\ t \in TxId /\ t \in Ancestors[t] /\ Ancestors[t] \in SUBSET (1 .. t)
      /\ \A u \in Ancestors[t] : \A i \in Places(u) : SourceOf(u, i) \in Ancestors[t]
  BY AncestorsClosed
<1>2. t \in 1 .. Len(TxOf) /\ Len(TxOf) \in Nat /\ TxId = 1 .. Len(TxOf)
  BY ChainIs
<1>3. /\ Ancestors[t] \in SUBSET TxId /\ IsFiniteSet(Ancestors[t])
      /\ A \in SUBSET Ancestors[t] /\ A \in SUBSET P /\ A \in SUBSET TxId /\ IsFiniteSet(A)
  <2>1. Ancestors[t] \in SUBSET TxId
    BY <1>1, <1>2
  <2>2. IsFiniteSet(TxId)
    BY ChainIs
  <2>3. QED
    BY <2>1, <2>2, FS_Subset
<1>4. ASSUME NEW u \in TxId
      PROVE  /\ IsFiniteSet(M[u]) /\ moved[u] = Sum(Amounts, M[u])
             /\ \A p \in M[u] : Amounts[p] \in Nat
             /\ IsFiniteSet(C[u]) /\ created[u] = Sum(Amounts, C[u])
             /\ \A p \in C[u] : Amounts[p] \in Nat
  <2>1. /\ Moved(u, key) \in SUBSET DOMAIN TxOf[u].outputs
        /\ \A v \in Moved(u, key) : MadeToken(u, v) # None /\ Contributes(MadeToken(u, v))
    BY DEF Moved, Creating, TokenOutputs
  <2>2. /\ Created(u, key) \in SUBSET DOMAIN TxOf[u].outputs
        /\ \A v \in Created(u, key) : MadeToken(u, v) # None /\ Contributes(MadeToken(u, v))
    BY DEF Created, Minted, Deploys, Creating, TokenOutputs
  <2>3. /\ IsFiniteSet(M[u]) /\ moved[u] = Sum(Amounts, M[u])
        /\ \A p \in M[u] : Amounts[p] \in Nat
    BY <2>1, OutputsSum
  <2>4. /\ IsFiniteSet(C[u]) /\ created[u] = Sum(Amounts, C[u])
        /\ \A p \in C[u] : Amounts[p] \in Nat
    BY <2>2, OutputsSum
  <2>5. QED
    BY <2>3, <2>4
<1>5. ASSUME NEW u \in P
      PROVE  Pays(P, key, u, In[u])
  <2>1. \E X : Pays(P, key, u, X)
    BY SomethingPays
  <2>2. QED
    BY <2>1
<1>6. ASSUME NEW u \in P
      PROVE  /\ IsFiniteSet(S[u]) /\ spent[u] = Sum(Amounts, S[u])
             /\ \A p \in S[u] : Amounts[p] \in Nat
             /\ moved[u] <= spent[u]
  <2> HIDE DEF In
  <2>1. /\ In[u] \in SUBSET Places(u) /\ Made(u, Moved(u, key)) <= Spent(u, In[u])
        /\ \A i \in In[u] : SpentToken(u, i) # None /\ Contributes(SpentToken(u, i))
    BY <1>5 DEF Pays
  <2>2. /\ IsFiniteSet(S[u]) /\ spent[u] = Sum(Amounts, S[u])
        /\ \A p \in S[u] : Amounts[p] \in Nat
    BY <2>1, InputsSum
  <2>3. QED
    BY <2>1, <2>2
<1>7. ASSUME NEW u \in P, NEW w \in P, u # w
      PROVE  S[u] \cap S[w] = {}
  <2> HIDE DEF In
  <2>1. In[u] \in SUBSET Places(u) /\ In[w] \in SUBSET Places(w)
    BY <1>5 DEF Pays
  <2>2. ASSUME NEW p \in S[u], p \in S[w]
        PROVE  FALSE
    <3>1. PICK i \in Places(u) : p = TxOf[u].inputs[i]
      BY <2>1
    <3>2. PICK j \in Places(w) : p = TxOf[w].inputs[j]
      BY <2>1, <2>2
    <3>3. QED
      BY <1>7, <3>1, <3>2, SpentOnce
  <2>3. QED
    BY <2>2
<1>8. ASSUME NEW u \in TxId, NEW w \in TxId
      PROVE  /\ u # w => M[u] \cap M[w] = {} /\ C[u] \cap C[w] = {}
             /\ M[u] \cap C[w] = {}
  <2>1. Moved(u, key) \cap Created(u, key) = {}
    BY DEF Moved, Created
  <2>2. QED
    BY <2>1
\* What is spent is moved or created by an ancestor, and not moved by t.
<1>9. ASSUME NEW u \in A, NEW p \in S[u]
      PROVE  (\E s \in A : p \in M[s] /\ p \notin M[t]) \/ (\E s \in A : p \in C[s])
  <2> HIDE DEF In
  <2>1. u \in P /\ u \in TxId /\ u \in Ancestors[t] /\ u \in 1 .. t
    BY <1>1, <1>3
  <2>2. PICK i \in In[u] : p = TxOf[u].inputs[i]
    BY <2>1
  <2>3. /\ i \in Places(u) /\ SpentToken(u, i) # None /\ SpentToken(u, i).key = key
        /\ Contributes(SpentToken(u, i)) /\ SourceOf(u, i) \in P
    BY <1>5, <2>1 DEF Pays
  <2> DEFINE s == SourceOf(u, i)
             v == Position(u, i)
  <2>4. s \in TxId /\ s \in Nat /\ u \in Nat /\ s < u /\ v \in DOMAIN TxOf[s].outputs
        /\ p = <<s, v>> /\ SpentToken(u, i) = MadeToken(s, v)
    BY <2>1, <2>2, <2>3, SourceIs
  <2>5. s \in A /\ s # t
    <3>1. s # t
      BY <1>2, <2>1, <2>4
    <3>2. s \in A
      BY <1>1, <2>1, <2>3
    <3>3. QED
      BY <3>1, <3>2
  <2> HIDE DEF s, v, A
  <2>6. v \in Creating(s, key) /\ Contributes(MadeToken(s, v))
    BY <2>3, <2>4 DEF Creating, TokenOutputs
  <2>7. v \in Moved(s, key) \/ v \in Created(s, key)
    BY <2>6 DEF Moved, Created, Minted
  <2>8. p \notin M[t]
    BY <1>1, <2>4, <2>5
  <2>9. QED
    BY <2>4, <2>5, <2>7, <2>8
<1>10. t \in A
  BY <1>1
<1>11. Made(t, Moved(t, key)) = moved[t] /\ \A u \in Ancestors[t] : created[u] = Made(u, Created(u, key))
  BY <1>1, <1>3
<1> HIDE DEF A, In, M, C, S, moved, created, spent
<1> DEFINE AllM == Together(M, A)
           AllC == Together(C, A)
           AllS == Together(S, A)
<1>12. /\ IsFiniteSet(AllM) /\ Sum(Amounts, AllM) = Sum(moved, A)
       /\ \A u \in A : moved[u] \in Nat
  <2>1. \A u \in A : IsFiniteSet(M[u]) /\ moved[u] = Sum(Amounts, M[u])
    BY <1>3, <1>4
  <2>2. \A u, w \in A : u # w => M[u] \cap M[w] = {}
    BY <1>3, <1>8
  <2>3. \A u \in A : \A o \in M[u] : Amounts[o] \in Nat
    BY <1>3, <1>4
  <2>4. QED
    <3>1. InParts(Amounts, A, M, moved)
      BY <1>3, <2>1, <2>2, <2>3 DEF InParts
    <3>2. SummedInParts(Amounts, A, M, moved)
      BY <3>1, SumOfParts
    <3>3. QED
      BY <3>2 DEF SummedInParts
<1>13. /\ IsFiniteSet(AllC) /\ Sum(Amounts, AllC) = Sum(created, A)
       /\ \A u \in A : created[u] \in Nat
  <2>1. \A u \in A : IsFiniteSet(C[u]) /\ created[u] = Sum(Amounts, C[u])
    BY <1>3, <1>4
  <2>2. \A u, w \in A : u # w => C[u] \cap C[w] = {}
    BY <1>3, <1>8
  <2>3. \A u \in A : \A o \in C[u] : Amounts[o] \in Nat
    BY <1>3, <1>4
  <2>4. QED
    <3>1. InParts(Amounts, A, C, created)
      BY <1>3, <2>1, <2>2, <2>3 DEF InParts
    <3>2. SummedInParts(Amounts, A, C, created)
      BY <3>1, SumOfParts
    <3>3. QED
      BY <3>2 DEF SummedInParts
<1>14. /\ IsFiniteSet(AllS) /\ Sum(Amounts, AllS) = Sum(spent, A)
       /\ \A u \in A : spent[u] \in Nat
  <2>1. \A u \in A : IsFiniteSet(S[u]) /\ spent[u] = Sum(Amounts, S[u])
    BY <1>3, <1>6
  <2>2. \A u, w \in A : u # w => S[u] \cap S[w] = {}
    BY <1>3, <1>7
  <2>3. \A u \in A : \A o \in S[u] : Amounts[o] \in Nat
    BY <1>3, <1>6
  <2>4. QED
    <3>1. InParts(Amounts, A, S, spent)
      BY <1>3, <2>1, <2>2, <2>3 DEF InParts
    <3>2. SummedInParts(Amounts, A, S, spent)
      BY <3>1, SumOfParts
    <3>3. QED
      BY <3>2 DEF SummedInParts
<1>15. Sum(moved, A) <= Sum(spent, A)
  <2>1. \A u \in A : moved[u] \in Nat /\ spent[u] \in Nat /\ moved[u] <= spent[u]
    BY <1>3, <1>6, <1>12, <1>14
  <2>2. QED
    BY <1>3, <2>1, SumNoMore
<1> DEFINE R == AllM \ M[t]
<1>16. M[t] \cup R = AllM /\ M[t] \cap R = {} /\ R \cap AllC = {} /\ AllS \subseteq R \cup AllC
  <2>1. M[t] \subseteq AllM
    BY <1>10 DEF Together
  <2>2. AllM \cap AllC = {}
    BY <1>3, <1>8 DEF Together
  <2>3. AllS \subseteq R \cup AllC
    <3>1. ASSUME NEW u \in A, NEW p \in S[u]
          PROVE  p \in R \cup AllC
      BY <1>9 DEF Together
    <3>2. QED
      BY <3>1 DEF Together
  <2> HIDE DEF AllM, AllC, AllS
  <2>4. QED
    BY <2>1, <2>2, <2>3
<1>17. \A p \in AllM \cup AllC : Amounts[p] \in Nat
  BY <1>3, <1>4 DEF Together
<1>18. IsFiniteSet(M[t]) /\ moved[t] = Sum(Amounts, M[t])
  BY <1>1, <1>4
<1> HIDE DEF AllM, AllC, AllS, R
<1>19. /\ IsFiniteSet(R) /\ Sum(Amounts, M[t]) \in Nat /\ Sum(Amounts, R) \in Nat
       /\ Sum(Amounts, AllM) = Sum(Amounts, M[t]) + Sum(Amounts, R)
  <2>1. IsFiniteSet(R)
    BY <1>12, FS_Subset DEF R
  <2>2. \A p \in M[t] \cup R : Amounts[p] \in Nat
    BY <1>16, <1>17
  <2>3. /\ Sum(Amounts, M[t]) \in Nat /\ Sum(Amounts, R) \in Nat
        /\ Sum(Amounts, M[t] \cup R) = Sum(Amounts, M[t]) + Sum(Amounts, R)
    BY <1>16, <1>18, <2>1, <2>2, SumOfBoth
  <2>4. QED
    BY <1>16, <2>1, <2>3
<1>20. /\ IsFiniteSet(R \cup AllC) /\ Sum(Amounts, AllC) \in Nat
       /\ Sum(Amounts, R \cup AllC) = Sum(Amounts, R) + Sum(Amounts, AllC)
  <2>1. \A p \in R \cup AllC : Amounts[p] \in Nat
    BY <1>17 DEF R
  <2>2. QED
    BY <1>13, <1>16, <1>19, <2>1, SumOfBoth
<1>21. /\ Sum(Amounts, AllS) \in Nat
       /\ Sum(Amounts, AllS) <= Sum(Amounts, R \cup AllC)
  <2>1. \A p \in R \cup AllC : Amounts[p] \in Nat
    BY <1>17 DEF R
  <2>2. QED
    BY <1>16, <1>20, <2>1, SumOfPart
<1>22. moved[t] <= Sum(created, A)
  BY <1>12, <1>13, <1>14, <1>15, <1>18, <1>19, <1>20, <1>21
<1>23. /\ Sum(created, A) \in Nat /\ Sum(created, Ancestors[t]) \in Nat
       /\ Sum(created, A) <= Sum(created, Ancestors[t])
  <2>1. \A u \in Ancestors[t] : created[u] \in Nat
    <3>1. ASSUME NEW u \in TxId
          PROVE  Sum(Amounts, C[u]) \in Nat
      BY <1>4, SumTake
    <3>2. QED
      BY <1>3, <1>4, <3>1
  <2>2. QED
    BY <1>3, <2>1, SumOfPart
<1>24. Supply(t, key) = Sum(created, Ancestors[t])
  BY <1>3, <1>11, SupplyIsSum
<1>25. moved[t] \in Nat
  BY <1>18, <1>19
<1>26. QED
  BY <1>11, <1>22, <1>23, <1>24, <1>25

-----------------------------------------------------------------------------
(* The steps. *)

LEMMA NoInputMissed ==
  ASSUME NEW t, NEW missed
  PROVE  /\ TokenInputs(t, missed) \in SUBSET Places(t)
         /\ Sources(t, missed) \in SUBSET Places(t)
         /\ \A i \in Sources(t, missed) : SpentToken(t, i) # None
BY DEF Sources, TokenInputs, Places

\* A source has an output with a token.
LEMMA SourceHasTokens ==
  ASSUME NEW t \in TxId, NEW missed, NEW i \in Sources(t, missed)
  PROVE  /\ i \in Places(t) /\ SourceOf(t, i) \in TxId /\ SourceOf(t, i) \in Nat /\ t \in Nat
         /\ SourceOf(t, i) < t /\ TokenOutputs(SourceOf(t, i)) # {}
<1>1. i \in Places(t) /\ SpentToken(t, i) # None
  BY NoInputMissed
<1>2. /\ Position(t, i) \in DOMAIN TxOf[SourceOf(t, i)].outputs
      /\ MadeToken(SourceOf(t, i), Position(t, i)) # None
  BY <1>1, SourceIs
<1>3. Position(t, i) \in TokenOutputs(SourceOf(t, i))
  BY <1>2 DEF TokenOutputs
<1>4. QED
  BY <1>1, <1>3, SourceIs

\* The calls under way are about ever older transactions.
LEMMA StackFalls ==
  ASSUME TypeOK, StackOK, NEW n \in DOMAIN stack, n < Len(stack)
  PROVE  stack[n].tx > Top.tx
<1> DEFINE Bad == {k \in Nat : k \in 1 .. Len(stack) - 1
                                /\ ~ (stack[Len(stack) - k].tx > Top.tx)}
<1>1. Len(stack) \in Nat /\ DOMAIN stack = 1 .. Len(stack) /\ n \in Nat
  BY DEF StackOK
<1>2. \A m \in DOMAIN stack : stack[m].tx \in Nat
  <2>1. \A m \in DOMAIN stack : stack[m] \in Frame
    BY DEF StackOK
  <2>2. \A m \in DOMAIN stack : stack[m].tx \in TxId
    BY <2>1 DEF Frame
  <2>3. QED
    BY <2>2, ChainIs
<1>3. ASSUME Bad # {}
      PROVE  FALSE
  <2> DEFINE k == Min(Bad)
  <2>1. k \in Nat /\ k \in Bad /\ \A j \in Bad : k <= j
    BY <1>3, MinIsLeast
  <2> HIDE DEF k
  <2> DEFINE m == Len(stack) - k
  <2>2. k \in 1 .. Len(stack) - 1 /\ ~ (stack[m].tx > Top.tx)
    BY <2>1
  <2>3. m \in DOMAIN stack /\ m + 1 \in DOMAIN stack /\ m + 1 > 1 /\ m \in Nat
    BY <1>1, <2>2
  <2>4. stack[m + 1].tx < stack[(m + 1) - 1].tx
    BY <2>3 DEF TypeOK
  <2>5. (m + 1) - 1 = m /\ Len(stack) - (k - 1) = m + 1
    BY <1>1, <2>2
  <2>6. CASE k = 1
    <3>1. m + 1 = Len(stack)
      BY <1>1, <2>2, <2>6
    <3>2. QED
      BY <1>2, <2>2, <2>3, <2>4, <2>5, <3>1 DEF Top
  <2>7. CASE k # 1
    <3>1. k - 1 \in Nat /\ k - 1 \in 1 .. Len(stack) - 1 /\ ~ (k <= k - 1)
      BY <1>1, <2>2, <2>7
    <3>2. k - 1 \notin Bad
      <4> HIDE DEF Bad
      <4>1. QED
        BY <2>1, <3>1
    <3>3. stack[m + 1].tx > Top.tx
      BY <2>5, <3>1, <3>2
    <3>4. Top.tx \in Nat
      BY <1>1, <1>2, <2>3 DEF Top
    <3>5. /\ stack[m].tx \in Nat /\ stack[m + 1].tx \in Nat
          /\ stack[m + 1].tx < stack[m].tx
      BY <1>2, <2>3, <2>4, <2>5
    <3> HIDE DEF m
    <3>6. stack[m].tx > Top.tx
      BY <3>3, <3>4, <3>5
    <3>7. QED
      BY <2>2, <3>6
  <2>8. QED
    BY <2>6, <2>7
<1>4. Len(stack) - n \in Nat /\ Len(stack) - n \in 1 .. Len(stack) - 1
        /\ Len(stack) - (Len(stack) - n) = n
  BY <1>1
<1>5. QED
  BY <1>3, <1>4

\* The stack as a list of calls.
LEMMA StackIs ==
  ASSUME StackOK
  PROVE  /\ Len(stack) \in Nat /\ DOMAIN stack = 1 .. Len(stack)
         /\ stack = << >> <=> Len(stack) = 0
         /\ stack # << >> => Len(stack) \in DOMAIN stack /\ Top \in Frame /\ CallOK(Top)
         /\ \A n \in DOMAIN stack : /\ stack[n] \in Frame /\ CallOK(stack[n])
                                     /\ stack[n].tx \in TxId /\ stack[n].depth \in 1 .. MaxDepth
<1>1. stack \in Seq(Frame) /\ Len(stack) \in Nat /\ DOMAIN stack = 1 .. Len(stack)
  BY DEF StackOK
<1>2. stack = << >> <=> Len(stack) = 0
  BY <1>1
<1>3. \A n \in DOMAIN stack : /\ stack[n] \in Frame /\ CallOK(stack[n])
                              /\ stack[n].tx \in TxId /\ stack[n].depth \in 1 .. MaxDepth
  <2>1. \A n \in DOMAIN stack : stack[n] \in Frame /\ CallOK(stack[n])
    BY <1>1 DEF StackOK
  <2>2. QED
    BY <2>1 DEF Frame
<1>4. QED
  BY <1>1, <1>2, <1>3 DEF Top

\* Two calls that differ in nothing but what is known of their sources.
SameBut(one, other) ==
  /\ one.tx = other.tx /\ one.depth = other.depth /\ one.phase = other.phase
  /\ one.missed = other.missed /\ one.pending = other.pending

\* A call that ends leaves those below it, and its answer with the next one.
LEMMA ReturnedStack ==
  ASSUME StackOK, stack # << >>, NEW outcome, outcome.proven \in BOOLEAN, Return(outcome)
  PROVE  /\ stack' \in Seq(Frame)
         /\ Len(stack') = Len(stack) - 1 /\ DOMAIN stack' = 1 .. Len(stack) - 1
         /\ \A n \in 1 .. Len(stack) - 1 :
              /\ SameBut(stack'[n], stack[n])
              /\ stack'[n].backed => stack[n].backed /\ (n = Len(stack) - 1 => outcome.proven)
              /\ stack[n].backed /\ outcome.proven => stack'[n].backed
<1>1. /\ Len(stack) \in Nat /\ Len(stack) # 0 /\ DOMAIN stack = 1 .. Len(stack)
      /\ stack \in Seq(Frame)
  BY StackIs DEF StackOK
<1>2. CASE Len(stack) = 1
  <2>1. stack' = << >>
    BY <1>2 DEF Return
  <2>2. QED
    BY <1>2, <2>1
<1>3. CASE Len(stack) # 1
  <2> DEFINE below == Len(stack) - 1
             rest == SubSeq(stack, 1, below)
  <2>1. below \in Nat /\ below \in 1 .. Len(stack) /\ below \in 1 .. below
    BY <1>1, <1>3
  <2>2. /\ rest \in Seq(Frame) /\ Len(rest) = below /\ DOMAIN rest = 1 .. below
        /\ \A n \in 1 .. below : rest[n] = stack[n]
    BY <1>1, <2>1
  <2>3. stack' = [rest EXCEPT ![below].backed = @ /\ outcome.proven]
    BY <1>3 DEF Return
  <2> HIDE DEF rest
  <2> DEFINE call == [rest[below] EXCEPT !.backed = @ /\ outcome.proven]
  <2>4. stack' = [rest EXCEPT ![below] = call]
    BY <2>3
  <2>5. /\ call \in Frame /\ SameBut(call, rest[below])
        /\ call.backed => rest[below].backed /\ outcome.proven
        /\ rest[below].backed /\ outcome.proven => call.backed
    <3>1. rest[below] \in Frame
      BY <2>1, <2>2
    <3> DEFINE frame == rest[below]
    <3> HIDE DEF frame
    <3>2. frame \in Frame
      BY <3>1 DEF frame
    <3>3. [frame EXCEPT !.backed = @ /\ outcome.proven] \in Frame
      BY <3>2 DEF Frame
    <3>4. SameBut([frame EXCEPT !.backed = @ /\ outcome.proven], frame)
      BY <3>2 DEF Frame, SameBut
    <3>5. [frame EXCEPT !.backed = @ /\ outcome.proven].backed <=> frame.backed /\ outcome.proven
      BY <3>2 DEF Frame
    <3>6. QED
      BY <3>3, <3>4, <3>5 DEF frame
  <2> HIDE DEF call
  <2>6. stack' \in Seq(Frame) /\ Len(stack') = below /\ DOMAIN stack' = 1 .. below
    BY <2>1, <2>2, <2>4, <2>5
  <2>7. ASSUME NEW n \in 1 .. below
        PROVE  /\ n # below => stack'[n] = stack[n]
               /\ n = below => stack'[n] = call /\ stack[n] = rest[below]
    BY <2>1, <2>2, <2>4
  <2>8. QED
    BY <2>5, <2>6, <2>7 DEF SameBut
<1>4. QED
  BY <1>2, <1>3

\* What TypeOK says of the stack.
StackPlaced ==
  \A n \in DOMAIN stack :
    /\ stack[n].depth = asked[2] + 1 - n /\ stack[n].depth >= 1
    /\ n > 1 => stack[n].tx < stack[n - 1].tx
    /\ stack[n].missed \cup stack[n].pending \subseteq Places(stack[n].tx)

\* A step remembers at most what the innermost call is about, and forgets nothing.
Grows ==
  /\ \A t \in DOMAIN results : t \in DOMAIN results' /\ results'[t] = results[t]
  /\ DOMAIN results' \subseteq DOMAIN results \cup {Top.tx}

\* Proven after the step.
NowProven(t) == t \in DOMAIN results' /\ results'[t].proven

LEMMA ProvenStays ==
  ASSUME Grows
  PROVE  \A t : IsProven(t) => NowProven(t)
BY DEF Grows, IsProven, NowProven

LEMMA ReturnKeeps ==
  ASSUME TypeOK, StackOK, BackedSoFar, stack # << >>,
         NEW outcome, outcome.proven \in BOOLEAN, Return(outcome),
         asked' = asked, Grows, outcome.proven => NowProven(Top.tx)
  PROVE  StackOK' /\ BackedSoFar' /\ StackPlaced'
<1> DEFINE last == Len(stack) - 1
<1>1. /\ Len(stack) \in Nat /\ DOMAIN stack = 1 .. Len(stack)
      /\ last \in Nat /\ Len(stack) = last + 1 /\ Top = stack[last + 1]
  BY StackIs DEF Top
<1>2. stack' \in Seq(Frame) /\ Len(stack') = last /\ DOMAIN stack' = 1 .. last
  BY ReturnedStack
<1>3. ASSUME NEW n \in 1 .. last
      PROVE  /\ SameBut(stack'[n], stack[n])
             /\ stack'[n].backed => stack[n].backed /\ (n = last => outcome.proven)
  BY ReturnedStack
<1>4. ASSUME NEW n \in 1 .. last
      PROVE  /\ n \in DOMAIN stack /\ n < Len(stack) /\ n + 1 \in DOMAIN stack
             /\ n = last \/ n + 1 \in 1 .. last
  <2> HIDE DEF last
  <2>1. QED
    BY <1>1
<1>5. ASSUME NEW n \in 1 .. last
      PROVE  /\ stack[n].phase = "backing"
             /\ \E i \in Sources(stack[n].tx, stack[n].missed) :
                  SourceOf(stack[n].tx, i) = stack[n + 1].tx
  BY DEF StackOK
<1> HIDE DEF last
<1>6. ASSUME NEW n \in 1 .. last
      PROVE  CallOK(stack[n])'
  <2>1. stack[n].tx > Top.tx /\ stack[n].tx \in Nat /\ Top.tx \in Nat
    <3>1. stack[n].tx \in TxId /\ Top.tx \in TxId
      BY <1>1, <1>4, StackIs
    <3>2. stack[n].tx > Top.tx
      BY <1>4, StackFalls
    <3>3. QED
      BY <3>1, <3>2, ChainIs
  <2>2. CallOK(stack[n])
    BY <1>4, StackIs
  <2>3. stack[n].tx \notin DOMAIN results'
    BY <1>5, <2>1, <2>2 DEF CallOK, Grows
  <2>4. /\ SameBut(stack'[n], stack[n]) /\ stack[n].phase = "backing"
    BY <1>3, <1>5
  <2>5. QED
    BY <2>2, <2>3, <2>4 DEF CallOK, SameBut
<1>7. StackOK'
  <2>1. stack' # << >> => stack'[1].tx = asked'[1]
    <3>1. stack' # << >> => last # 0
      BY <1>2
    <3>2. stack[1].tx = asked[1]
      BY DEF StackOK
    <3>3. last # 0 => 1 \in 1 .. last
      BY <1>1
    <3>4. QED
      BY <1>3, <3>1, <3>2, <3>3 DEF SameBut
  <2>2. ASSUME NEW n \in 1 .. Len(stack') - 1
        PROVE  /\ stack'[n].phase = "backing"
               /\ \E i \in Sources(stack'[n].tx, stack'[n].missed) :
                    SourceOf(stack'[n].tx, i) = stack'[n + 1].tx
    <3>1. n \in 1 .. last - 1
      BY <1>2
    <3>2. n \in 1 .. last /\ n + 1 \in 1 .. last
      BY <1>1, <3>1
    <3>3. SameBut(stack'[n], stack[n]) /\ SameBut(stack'[n + 1], stack[n + 1])
      BY <1>3, <3>2
    <3>4. QED
      BY <1>5, <3>2, <3>3 DEF SameBut
  <2>3. QED
    BY <1>2, <1>6, <2>1, <2>2 DEF StackOK
<1>8. BackedSoFar'
  <2> SUFFICES ASSUME NEW n \in 1 .. last, stack'[n].backed,
                      NEW i \in Sources(stack[n].tx, stack[n].missed)
               PROVE  \/ i \in stack[n].pending
                      \/ NowProven(SourceOf(stack[n].tx, i))
                      \/ n < last /\ SourceOf(stack[n].tx, i) = stack'[n + 1].tx
    <3>1. ASSUME NEW n \in 1 .. last
          PROVE  SameBut(stack'[n], stack[n])
      BY <1>3
    <3>2. Len(stack') = last /\ DOMAIN stack' = 1 .. last
      BY <1>2
    <3>3. QED
      BY <3>1, <3>2 DEF BackedSoFar, SameBut, IsProven, NowProven
  <2>1. stack[n].backed /\ (n = last => outcome.proven) /\ stack[n].phase = "backing"
    BY <1>3, <1>5
  <2>2. \/ i \in stack[n].pending
        \/ IsProven(SourceOf(stack[n].tx, i))
        \/ SourceOf(stack[n].tx, i) = stack[n + 1].tx
    BY <1>4, <2>1 DEF BackedSoFar
  <2>3. CASE n = last /\ SourceOf(stack[n].tx, i) = stack[n + 1].tx
    BY <1>1, <2>1, <2>3
  <2>4. CASE n + 1 \in 1 .. last /\ SourceOf(stack[n].tx, i) = stack[n + 1].tx
    <3>1. n < last /\ SameBut(stack'[n + 1], stack[n + 1])
      BY <1>1, <1>3, <2>4
    <3>2. QED
      BY <2>4, <3>1 DEF SameBut
  <2>5. QED
    BY <1>4, <2>2, <2>3, <2>4, ProvenStays
<1>9. StackPlaced'
  <2>1. ASSUME NEW n \in 1 .. last
        PROVE  /\ stack'[n].depth = asked[2] + 1 - n /\ stack'[n].depth >= 1
               /\ n > 1 => stack'[n].tx < stack'[n - 1].tx
               /\ stack'[n].missed \cup stack'[n].pending \subseteq Places(stack'[n].tx)
    <3>1. /\ stack[n].depth = asked[2] + 1 - n /\ stack[n].depth >= 1
          /\ n > 1 => stack[n].tx < stack[n - 1].tx
          /\ stack[n].missed \cup stack[n].pending \subseteq Places(stack[n].tx)
      BY <1>4 DEF TypeOK, Places
    <3>2. n > 1 => n - 1 \in 1 .. last
      BY <1>1
    <3>3. SameBut(stack'[n], stack[n]) /\ (n > 1 => SameBut(stack'[n - 1], stack[n - 1]))
      BY <1>3, <3>2
    <3>4. QED
      BY <3>1, <3>3 DEF SameBut
  <2>2. QED
    BY <1>2, <2>1 DEF StackPlaced
<1>10. QED
  BY <1>7, <1>8, <1>9

\* What may be remembered of a transaction.
Justified(t, outcome) ==
  \E missed \in SUBSET Places(t) :
    /\ outcome.conserved = Verdict(t, missed)
    /\ outcome.proven =>
         /\ Verdict(t, missed) = "yes"
         /\ SelfContained(t) \/ \A i \in Sources(t, missed) : NowProven(SourceOf(t, i))

LEMMA ResultsKeep ==
  ASSUME ResultsOK, Grows,
         Top.tx \in DOMAIN results' \ DOMAIN results => Justified(Top.tx, results'[Top.tx])
  PROVE  ResultsOK'
<1>1. ASSUME NEW t \in DOMAIN results
      PROVE  Justified(t, results'[t])
  <2>1. PICK missed \in SUBSET Places(t) :
          /\ results[t].conserved = Verdict(t, missed)
          /\ results[t].proven =>
               /\ Verdict(t, missed) = "yes"
               /\ SelfContained(t) \/ \A i \in Sources(t, missed) : IsProven(SourceOf(t, i))
    BY DEF ResultsOK, Places
  <2>2. results'[t] = results[t]
    BY DEF Grows
  <2>3. QED
    BY <2>1, <2>2, ProvenStays DEF Justified
<1>2. ASSUME NEW t \in DOMAIN results'
      PROVE  Justified(t, results'[t])
  BY <1>1 DEF Grows
<1>3. QED
  BY <1>2 DEF ResultsOK, Justified, IsProven, NowProven, Places

\* Nothing is lost if the call that ends answers what it should.
Whole == ~missing
Promised == ~missing /\ asked[1] \in Provable[asked[2]] /\ TokenOutputs(asked[1]) # {}

LEMMA LostIs ==
  NothingLost <=>
    /\ Whole =>
         /\ \A n \in DOMAIN stack : stack[n].missed = {}
         /\ \A t \in DOMAIN results : results[t].conserved = Verdict(t, {})
         /\ answer # None /\ answer.conserved \in {"yes", "no"} =>
              answer.conserved = Verdict(asked[1], {})
    /\ Promised =>
         /\ \A n \in DOMAIN stack : stack[n].tx \in Provable[stack[n].depth] /\ stack[n].backed
         /\ \A t \in DOMAIN results : results[t].proven
         /\ answer # None => answer.proven
BY DEF NothingLost, Whole, Promised

LEMMA ReturnLosesNothing ==
  ASSUME StackOK, NothingLost, stack # << >>,
         NEW outcome, outcome.proven \in BOOLEAN, Return(outcome),
         UNCHANGED <<asked, missing>>, Grows,
         Top.tx \in DOMAIN results' \ DOMAIN results => results'[Top.tx] = outcome,
         Whole /\ outcome.conserved \in {"yes", "no"} =>
           outcome.conserved = Verdict(Top.tx, {}),
         Whole /\ Top.tx \in DOMAIN results' \ DOMAIN results =>
           outcome.conserved = Verdict(Top.tx, {}),
         Promised => outcome.proven
  PROVE  NothingLost'
<1> DEFINE last == Len(stack) - 1
<1>1. /\ Len(stack) \in Nat /\ DOMAIN stack = 1 .. Len(stack)
      /\ last \in Nat /\ Len(stack) = last + 1 /\ Top = stack[last + 1]
  BY StackIs DEF Top
<1>2. DOMAIN stack' = 1 .. last
  BY ReturnedStack
<1>3. ASSUME NEW n \in 1 .. last
      PROVE  /\ SameBut(stack'[n], stack[n])
             /\ stack[n].backed /\ outcome.proven => stack'[n].backed
  BY ReturnedStack
<1> HIDE DEF last
<1>4. \A n \in 1 .. last : n \in DOMAIN stack
  BY <1>1
<1>5. \A t \in DOMAIN results' :
        \/ t \in DOMAIN results /\ results'[t] = results[t]
        \/ /\ t = Top.tx /\ results'[t] = outcome
           /\ Whole => outcome.conserved = Verdict(t, {})
  BY DEF Grows
<1>6. \/ answer' = answer
      \/ answer' = outcome /\ Top.tx = asked[1]
  <2>1. CASE Len(stack) = 1
    BY <2>1 DEF Return, StackOK, Top
  <2>2. CASE Len(stack) # 1
    BY <2>2 DEF Return
  <2>3. QED
    BY <2>1, <2>2
<1>7. ASSUME Whole
      PROVE  /\ \A n \in DOMAIN stack' : stack'[n].missed = {}
             /\ \A t \in DOMAIN results' : results'[t].conserved = Verdict(t, {})
             /\ answer' # None /\ answer'.conserved \in {"yes", "no"} =>
                  answer'.conserved = Verdict(asked[1], {})
  <2>1. /\ \A n \in DOMAIN stack : stack[n].missed = {}
        /\ \A t \in DOMAIN results : results[t].conserved = Verdict(t, {})
        /\ answer # None /\ answer.conserved \in {"yes", "no"} =>
             answer.conserved = Verdict(asked[1], {})
    BY <1>7, LostIs
  <2>2. \A n \in DOMAIN stack' : stack'[n].missed = {}
    BY <1>2, <1>3, <1>4, <2>1 DEF SameBut
  <2>3. \A t \in DOMAIN results' : results'[t].conserved = Verdict(t, {})
    BY <1>5, <1>7, <2>1
  <2>4. QED
    BY <1>6, <1>7, <2>1, <2>2, <2>3
<1>8. ASSUME Promised
      PROVE  /\ \A n \in DOMAIN stack' : stack'[n].tx \in Provable[stack'[n].depth] /\ stack'[n].backed
             /\ \A t \in DOMAIN results' : results'[t].proven
             /\ answer' # None => answer'.proven
  <2>1. /\ \A n \in DOMAIN stack : stack[n].tx \in Provable[stack[n].depth] /\ stack[n].backed
        /\ \A t \in DOMAIN results : results[t].proven
        /\ answer # None => answer.proven
    BY <1>8, LostIs
  <2>2. outcome.proven
    BY <1>8
  <2>3. \A n \in DOMAIN stack' : stack'[n].tx \in Provable[stack'[n].depth] /\ stack'[n].backed
    BY <1>2, <1>3, <1>4, <2>1, <2>2 DEF SameBut
  <2>4. QED
    BY <1>5, <1>6, <2>1, <2>2, <2>3
<1>9. (Whole' <=> Whole) /\ (Promised' <=> Promised)
  BY DEF Whole, Promised
<1>10. QED
  BY <1>7, <1>8, <1>9 DEF NothingLost, Whole, Promised

\* The innermost call goes on.
LEMMA BecomesKeeps ==
  ASSUME TypeOK, StackOK, BackedSoFar, stack # << >>,
         NEW call \in Frame, call.tx = Top.tx, call.depth = Top.depth, CallOK(call),
         call.missed \cup call.pending \subseteq Places(Top.tx),
         call.phase = "backing" /\ call.backed =>
           \A i \in Sources(call.tx, call.missed) :
             i \in call.pending \/ IsProven(SourceOf(call.tx, i)),
         Becomes(call), UNCHANGED <<results, asked>>
  PROVE  StackOK' /\ BackedSoFar' /\ StackPlaced'
<1> DEFINE last == Len(stack)
<1>1. last \in Nat /\ last # 0 /\ DOMAIN stack = 1 .. last /\ last \in 1 .. last /\ Top = stack[last]
  BY StackIs DEF Top
<1>2. stack' \in Seq(Frame) /\ Len(stack') = last /\ DOMAIN stack' = 1 .. last
  <2>1. stack \in Seq(Frame)
    BY DEF StackOK
  <2>2. QED
    BY <1>1, <2>1 DEF Becomes
<1>3. /\ stack'[last] = call
      /\ \A n \in 1 .. last : n # last => stack'[n] = stack[n]
  BY <1>1 DEF Becomes
<1>4. ASSUME NEW n \in 1 .. last
      PROVE  stack'[n].tx = stack[n].tx /\ stack'[n].depth = stack[n].depth
  BY <1>1, <1>3
<1>5. ASSUME NEW n \in 1 .. last - 1
      PROVE  /\ n \in 1 .. last /\ n # last /\ n + 1 \in 1 .. last /\ n < last
             /\ stack[n].phase = "backing"
             /\ \E i \in Sources(stack[n].tx, stack[n].missed) :
                  SourceOf(stack[n].tx, i) = stack[n + 1].tx
  <2>1. /\ stack[n].phase = "backing"
        /\ \E i \in Sources(stack[n].tx, stack[n].missed) :
             SourceOf(stack[n].tx, i) = stack[n + 1].tx
    BY DEF StackOK
  <2> HIDE DEF last
  <2>2. n \in 1 .. last /\ n # last /\ n + 1 \in 1 .. last /\ n < last
    BY <1>1
  <2>3. QED
    BY <2>1, <2>2
<1>6. \A n \in 1 .. last : CallOK(stack[n])
  BY <1>1, StackIs
<1>7. StackOK'
  <2>1. stack'[1].tx = asked'[1]
    BY <1>1, <1>4 DEF StackOK
  <2>2. ASSUME NEW n \in 1 .. last
        PROVE  CallOK(stack[n])'
    <3>1. CallOK(stack'[n])
      BY <1>3, <1>6
    <3>2. QED
      BY <3>1 DEF CallOK
  <2>3. ASSUME NEW n \in 1 .. last - 1
        PROVE  /\ stack'[n].phase = "backing"
               /\ \E i \in Sources(stack'[n].tx, stack'[n].missed) :
                    SourceOf(stack'[n].tx, i) = stack'[n + 1].tx
    <3>1. stack'[n] = stack[n] /\ stack'[n + 1].tx = stack[n + 1].tx
      BY <1>3, <1>4, <1>5
    <3>2. QED
      BY <1>5, <3>1
  <2> HIDE DEF last
  <2>4. QED
    BY <1>2, <2>1, <2>2, <2>3 DEF StackOK
<1> HIDE DEF last
<1>8. BackedSoFar'
  <2> SUFFICES ASSUME NEW n \in 1 .. last, stack'[n].phase = "backing", stack'[n].backed,
                      NEW i \in Sources(stack'[n].tx, stack'[n].missed)
               PROVE  \/ i \in stack'[n].pending
                      \/ IsProven(SourceOf(stack'[n].tx, i))
                      \/ n < last /\ SourceOf(stack'[n].tx, i) = stack'[n + 1].tx
    BY <1>2 DEF BackedSoFar, IsProven
  <2>1. CASE n = last
    BY <1>3, <2>1
  <2>2. CASE n # last
    <3>1. n \in 1 .. last - 1 /\ stack'[n] = stack[n]
      BY <1>1, <1>3, <2>2
    <3>2. stack'[n + 1].tx = stack[n + 1].tx
      BY <1>4, <1>5, <3>1
    <3>3. \/ i \in stack[n].pending
          \/ IsProven(SourceOf(stack[n].tx, i))
          \/ n < Len(stack) /\ SourceOf(stack[n].tx, i) = stack[n + 1].tx
      BY <1>1, <3>1 DEF BackedSoFar
    <3>4. QED
      BY <1>5, <3>1, <3>2, <3>3
  <2>3. QED
    BY <2>1, <2>2
<1>9. StackPlaced'
  <2>1. ASSUME NEW n \in 1 .. last
        PROVE  /\ stack'[n].depth = asked[2] + 1 - n /\ stack'[n].depth >= 1
               /\ n > 1 => stack'[n].tx < stack'[n - 1].tx
               /\ stack'[n].missed \cup stack'[n].pending \subseteq Places(stack'[n].tx)
    <3>1. /\ stack[n].depth = asked[2] + 1 - n /\ stack[n].depth >= 1
          /\ n > 1 => stack[n].tx < stack[n - 1].tx
          /\ stack[n].missed \cup stack[n].pending \subseteq Places(stack[n].tx)
      BY <1>1 DEF TypeOK, Places
    <3>2. n > 1 => n - 1 \in 1 .. last
      BY <1>1
    <3>3. stack'[n].missed \cup stack'[n].pending \subseteq Places(stack'[n].tx)
      BY <1>1, <1>3, <3>1
    <3>4. QED
      BY <1>4, <3>1, <3>2, <3>3
  <2>2. QED
    BY <1>2, <2>1 DEF StackPlaced
<1>10. QED
  BY <1>7, <1>8, <1>9

LEMMA BecomesLosesNothing ==
  ASSUME StackOK, NothingLost, stack # << >>,
         NEW call, call.tx = Top.tx, call.depth = Top.depth,
         Whole => call.missed = Top.missed, Promised /\ Top.backed => call.backed,
         Becomes(call), UNCHANGED <<results, answer, asked, missing>>
  PROVE  NothingLost'
<1>1. /\ DOMAIN stack = 1 .. Len(stack) /\ Len(stack) \in DOMAIN stack
      /\ Top = stack[Len(stack)] /\ stack \in Seq(Frame)
  BY StackIs DEF Top, StackOK
<1>2. /\ DOMAIN stack' = DOMAIN stack /\ stack'[Len(stack)] = call
      /\ \A n \in DOMAIN stack : n # Len(stack) => stack'[n] = stack[n]
  BY <1>1 DEF Becomes
<1>3. Whole => \A n \in DOMAIN stack' : stack'[n].missed = {}
  BY <1>1, <1>2, LostIs
<1>4. Promised => \A n \in DOMAIN stack' : /\ stack'[n].tx \in Provable[stack'[n].depth]
                                          /\ stack'[n].backed
  BY <1>1, <1>2, LostIs
<1>5. (Whole' <=> Whole) /\ (Promised' <=> Promised)
  BY DEF Whole, Promised
<1>6. QED
  BY <1>3, <1>4, <1>5, LostIs DEF NothingLost, Whole, Promised

\* What the steps leave of the types.
LEMMA TypeAgain ==
  ASSUME TypeOK, StackPlaced', asked' = asked, missing' \in BOOLEAN,
         read' \subseteq TxId, fetches' \in 0 .. MaxFetches,
         DOMAIN results' \subseteq TxId,
         \A t \in DOMAIN results' : results'[t] \in [conserved : {"yes", "no", "open"},
                                                    proven : BOOLEAN]
  PROVE  TypeOK'
BY DEF TypeOK, StackPlaced, Places

LEMMA BudgetAgain ==
  ASSUME TypeOK, NEW t \in TxId, Obtain(t) \/ Refuse(t)
  PROVE  read' \subseteq TxId /\ fetches' \in 0 .. MaxFetches
<1>1. read \subseteq TxId /\ fetches \in 0 .. MaxFetches /\ MaxFetches \in Nat
  BY FetchAssumption DEF TypeOK
<1>2. CASE Obtain(t)
  BY <1>1, <1>2 DEF Obtain
<1>3. CASE Refuse(t)
  BY <1>1, <1>3 DEF Refuse
<1>4. QED
  BY <1>2, <1>3

\* A validation of a depth unfolds into those behind it.
LEMMA ProvableIs ==
  ASSUME NEW depth \in 0 .. MaxDepth
  PROVE  Provable[depth] =
           {t \in TxId :
              /\ Verdict(t, {}) = "yes" /\ ~Unreadable(t)
              /\ \/ SelfContained(t)
                 \/ /\ depth > 1
                    /\ \A i \in Sources(t, {}) : SourceOf(t, i) \in Provable[depth - 1]}
<1> DEFINE Unfold(g, d) ==
             {t \in TxId :
                /\ Verdict(t, {}) = "yes" /\ ~Unreadable(t)
                /\ \/ SelfContained(t)
                   \/ /\ d > 1
                      /\ \A i \in Sources(t, {}) : TxOf[t].inputs[i][1] \in g[d - 1]}
           Solves(g, m) == g = [d \in 0 .. m |-> Unfold(g, d)]
           Bad == {m \in Nat : ~ \E g : Solves(g, m)}
<1>1. ASSUME Bad # {}
      PROVE  FALSE
  <2> DEFINE m == Min(Bad)
  <2>1. m \in Nat /\ m \in Bad /\ \A k \in Bad : m <= k
    BY <1>1, MinIsLeast
  <2> HIDE DEF m
  <2>2. CASE m = 0
    <3> DEFINE g == [d \in 0 .. 0 |-> Unfold(<< >>, 0)]
    <3>1. Unfold(g, 0) = Unfold(<< >>, 0)
      OBVIOUS
    <3>2. Solves(g, 0)
      <4> HIDE DEF Unfold
      <4>1. QED
        BY <3>1
    <3> HIDE DEF g, Solves
    <3>3. QED
      BY <2>1, <2>2, <3>2
  <2>3. CASE m # 0
    <3>1. m - 1 \in Nat /\ m - 1 \notin Bad
      <4> HIDE DEF Bad
      <4>1. QED
        BY <2>1, <2>3
    <3>2. PICK g : Solves(g, m - 1)
      BY <3>1
    <3> DEFINE h == [d \in 0 .. m |-> Unfold(g, d)]
    <3>3. ASSUME NEW d \in 0 .. m
          PROVE  Unfold(h, d) = Unfold(g, d)
      <4>1. d > 1 => h[d - 1] = g[d - 1]
        <5>1. d > 1 => d - 1 \in 0 .. m - 1 /\ d - 1 \in 0 .. m
          BY <2>1
        <5> HIDE DEF Unfold
        <5>2. QED
          BY <3>2, <5>1
      <4> HIDE DEF h
      <4>2. QED
        BY <4>1
    <3>4. Solves(h, m)
      <4> HIDE DEF Unfold
      <4>1. QED
        BY <3>3
    <3> HIDE DEF h, Solves
    <3>5. QED
      BY <2>1, <3>4
  <2>4. QED
    BY <2>2, <2>3
<1>2. \E g : Solves(g, MaxDepth)
  <2>1. MaxDepth \in Nat /\ MaxDepth \notin Bad
    <3> HIDE DEF Bad
    <3>1. QED
      BY <1>1, DepthAssumption
  <2>2. QED
    BY <2>1
<1>3. Solves(Provable, MaxDepth)
  BY <1>2 DEF Provable
<1>4. Provable[depth] = Unfold(Provable, depth)
  <2> HIDE DEF Unfold
  <2>1. QED
    BY <1>3
<1>5. QED
  BY <1>4 DEF SourceOf

\* A call ends, and with it perhaps a transaction to remember.
LEMMA EndStep ==
  ASSUME ValidationIInv, stack # << >>,
         NEW outcome, outcome.proven \in BOOLEAN, Return(outcome),
         UNCHANGED <<asked, missing>>, Grows, outcome.proven => NowProven(Top.tx),
         read' \subseteq TxId, fetches' \in 0 .. MaxFetches,
         Top.tx \in DOMAIN results' \ DOMAIN results =>
           /\ results'[Top.tx] = outcome
           /\ outcome \in [conserved : {"yes", "no", "open"}, proven : BOOLEAN]
           /\ Justified(Top.tx, outcome)
           /\ Whole => outcome.conserved = Verdict(Top.tx, {}),
         Whole /\ outcome.conserved \in {"yes", "no"} =>
           outcome.conserved = Verdict(Top.tx, {}),
         Promised => outcome.proven
  PROVE  ValidationIInv'
<1>1. TypeOK /\ StackOK /\ ResultsOK /\ BackedSoFar /\ NothingLost
  BY DEF ValidationIInv
<1>2. StackOK' /\ BackedSoFar' /\ StackPlaced'
  BY <1>1, ReturnKeeps
<1>3. ResultsOK'
  BY <1>1, ResultsKeep
<1>4. NothingLost'
  BY <1>1, ReturnLosesNothing
<1>5. TypeOK'
  <2>1. Top.tx \in TxId
    BY <1>1, StackIs DEF Top
  <2>2. /\ DOMAIN results \subseteq TxId /\ missing \in BOOLEAN
        /\ \A t \in DOMAIN results : results[t] \in [conserved : {"yes", "no", "open"},
                                                   proven : BOOLEAN]
    BY <1>1 DEF TypeOK
  <2>3. ASSUME NEW t \in DOMAIN results'
        PROVE  results'[t] \in [conserved : {"yes", "no", "open"}, proven : BOOLEAN]
    BY <2>2 DEF Grows
  <2>4. DOMAIN results' \subseteq TxId
    BY <2>1, <2>2 DEF Grows
  <2>5. QED
    BY <1>1, <1>2, <2>2, <2>3, <2>4, TypeAgain
<1>6. QED
  BY <1>2, <1>3, <1>4, <1>5 DEF ValidationIInv

LEMMA TopIs ==
  ASSUME ValidationIInv, stack # << >>
  PROVE  /\ Top \in Frame /\ Top.tx \in TxId /\ CallOK(Top) /\ Len(stack) \in DOMAIN stack
         /\ Top.missed \cup Top.pending \subseteq Places(Top.tx)
         /\ Top.depth \in 1 .. MaxDepth
<1>1. TypeOK /\ StackOK
  BY DEF ValidationIInv
<1>2. Top \in Frame /\ Top.tx \in TxId /\ CallOK(Top) /\ Len(stack) \in DOMAIN stack
        /\ Top.depth \in 1 .. MaxDepth
  BY <1>1, StackIs DEF Top
<1>3. Top.missed \cup Top.pending \subseteq Places(Top.tx)
  BY <1>1, <1>2 DEF TypeOK, Top, Places
<1>4. QED
  BY <1>2, <1>3

\* What the innermost call still owes.
LEMMA TopLost ==
  ASSUME ValidationIInv, stack # << >>
  PROVE  /\ Whole => /\ Top.missed = {}
                     /\ \A t \in DOMAIN results : results[t].conserved = Verdict(t, {})
         /\ Promised => /\ Top.tx \in Provable[Top.depth] /\ Top.backed
                        /\ \A t \in DOMAIN results : results[t].proven
BY TopIs, LostIs DEF ValidationIInv, Top

LEMMA RecallStep ==
  ASSUME ValidationIInv, Recall
  PROVE  ValidationIInv'
<1> DEFINE outcome == results[Top.tx]
<1>1. /\ stack # << >> /\ Top.tx \in DOMAIN results /\ Return(outcome)
      /\ UNCHANGED <<read, fetches, results, asked, missing>>
  BY DEF Recall, InPhase, budget
<1>2. /\ outcome.proven \in BOOLEAN
      /\ read \subseteq TxId /\ fetches \in 0 .. MaxFetches
  BY <1>1 DEF ValidationIInv, TypeOK
<1>3. Grows /\ (outcome.proven => NowProven(Top.tx))
  BY <1>1 DEF Grows, NowProven
<1>4. /\ Whole => outcome.conserved = Verdict(Top.tx, {})
      /\ Promised => outcome.proven
  BY <1>1, TopLost
<1> HIDE DEF outcome
<1>5. QED
  BY <1>1, <1>2, <1>3, <1>4, EndStep

LEMMA MissTransactionStep ==
  ASSUME ValidationIInv, MissTransaction
  PROVE  ValidationIInv'
<1>1. /\ stack # << >> /\ Return(Thrown) /\ Refuse(Top.tx)
      /\ missing' = TRUE /\ UNCHANGED <<results, asked>>
  BY DEF MissTransaction, InPhase
<1>2. TypeOK /\ StackOK /\ ResultsOK /\ BackedSoFar
  BY DEF ValidationIInv
<1>3. /\ Thrown.proven \in BOOLEAN /\ (Thrown.proven => NowProven(Top.tx))
      /\ Grows /\ asked' = asked
  BY <1>1 DEF Thrown, Outcome, Grows
<1>4. StackOK' /\ BackedSoFar' /\ StackPlaced'
  BY <1>1, <1>2, <1>3, ReturnKeeps
<1>5. ResultsOK'
  BY <1>1, <1>2, <1>3, ResultsKeep
<1>6. NothingLost'
  BY <1>1 DEF NothingLost
<1>7. TypeOK'
  <2>1. read' \subseteq TxId /\ fetches' \in 0 .. MaxFetches
    BY <1>1, <1>2, TopIs, BudgetAgain
  <2>2. QED
    BY <1>1, <1>2, <1>4, <2>1, TypeAgain DEF TypeOK
<1>8. QED
  BY <1>4, <1>5, <1>6, <1>7 DEF ValidationIInv

\* A call goes on, and nothing is remembered.
LEMMA GoStep ==
  ASSUME ValidationIInv, stack # << >>,
         NEW call \in Frame, call.tx = Top.tx, call.depth = Top.depth, CallOK(call),
         call.missed \cup call.pending \subseteq Places(Top.tx),
         call.phase = "backing" /\ call.backed =>
           \A i \in Sources(call.tx, call.missed) :
             i \in call.pending \/ IsProven(SourceOf(call.tx, i)),
         Becomes(call), UNCHANGED <<results, answer, asked>>,
         missing' \in BOOLEAN,
         \/ missing' = TRUE
         \/ /\ missing' = missing
            /\ Whole => call.missed = Top.missed
            /\ Promised /\ Top.backed => call.backed,
         read' \subseteq TxId, fetches' \in 0 .. MaxFetches
  PROVE  ValidationIInv'
<1>1. TypeOK /\ StackOK /\ ResultsOK /\ BackedSoFar /\ NothingLost
  BY DEF ValidationIInv
<1>2. StackOK' /\ BackedSoFar' /\ StackPlaced'
  BY <1>1, BecomesKeeps
<1>3. NothingLost'
  <2>1. CASE missing' = TRUE
    BY <2>1 DEF NothingLost
  <2>2. CASE missing' = missing /\ (Whole => call.missed = Top.missed)
               /\ (Promised /\ Top.backed => call.backed)
    BY <1>1, <2>2, BecomesLosesNothing
  <2>3. QED
    BY <2>1, <2>2
<1>4. TypeOK'
  BY <1>1, <1>2, TypeAgain DEF TypeOK
<1>5. ResultsOK'
  BY <1>1 DEF ResultsOK, IsProven
<1>6. QED
  BY <1>2, <1>3, <1>4, <1>5 DEF ValidationIInv

\* The changes a call makes to itself.
LEMMA FrameIs ==
  ASSUME NEW call \in Frame
  PROVE  /\ call.tx \in TxId /\ call.depth \in 1 .. MaxDepth /\ call.next \in Nat \ {0}
         /\ call.missed \in SUBSET Nat /\ call.pending \in SUBSET Nat
         /\ call.backed \in BOOLEAN /\ call.phase \in {"fetch", "inputs", "backing"}
BY DEF Frame

LEMMA ReadTransactionStep ==
  ASSUME ValidationIInv, ReadTransaction
  PROVE  ValidationIInv'
<1>1. /\ stack # << >> /\ Top.phase = "fetch" /\ Top.tx \notin DOMAIN results /\ Obtain(Top.tx)
      /\ UNCHANGED <<results, asked, missing>>
  BY DEF ReadTransaction, InPhase
<1>2. read' \subseteq TxId /\ fetches' \in 0 .. MaxFetches /\ missing \in BOOLEAN
  <2>1. TypeOK
    BY DEF ValidationIInv
  <2>2. QED
    BY <1>1, <2>1, TopIs, BudgetAgain DEF TypeOK
<1>3. CASE TokenOutputs(Top.tx) = {}
  <2>1. Return(Nothing)
    BY <1>3 DEF ReadTransaction
  <2>2. /\ Nothing.proven \in BOOLEAN /\ (Nothing.proven => NowProven(Top.tx))
        /\ Nothing.conserved \notin {"yes", "no"}
    BY DEF Nothing, Outcome
  <2>3. ~Promised
    <3>1. stack[1].tx = asked[1]
      BY <1>1 DEF ValidationIInv, StackOK
    <3>2. CASE Len(stack) = 1
      BY <1>3, <3>1, <3>2 DEF Promised, Top
    <3>3. CASE Len(stack) # 1
      <4>1. StackOK
        BY DEF ValidationIInv
      <4>2. Len(stack) \in Nat /\ Len(stack) # 0
        BY <1>1, <4>1, StackIs
      <4> DEFINE n == Len(stack) - 1
      <4>3. n \in 1 .. Len(stack) - 1 /\ n \in DOMAIN stack /\ n + 1 = Len(stack)
        BY <3>3, <4>1, <4>2, StackIs
      <4> HIDE DEF n
      <4>4. PICK i \in Sources(stack[n].tx, stack[n].missed) :
              SourceOf(stack[n].tx, i) = Top.tx
        <5>1. \E i \in Sources(stack[n].tx, stack[n].missed) :
                SourceOf(stack[n].tx, i) = stack[n + 1].tx
          BY <4>1, <4>3 DEF StackOK
        <5>2. QED
          BY <4>3, <5>1 DEF Top
      <4>5. stack[n].tx \in TxId
        BY <4>1, <4>3, StackIs
      <4>6. QED
        BY <1>3, <4>4, <4>5, SourceHasTokens
    <3>4. QED
      BY <3>2, <3>3
  <2>4. Grows
    BY <1>1 DEF Grows
  <2>5. QED
    BY <1>1, <1>2, <2>1, <2>2, <2>3, <2>4, EndStep
<1>4. CASE TokenOutputs(Top.tx) # {}
  <2> DEFINE call == [Top EXCEPT !.phase = "inputs"]
  <2>1. Becomes(call) /\ UNCHANGED answer
    BY <1>4 DEF ReadTransaction
  <2>2. /\ call \in Frame /\ call.tx = Top.tx /\ call.depth = Top.depth
        /\ call.missed = Top.missed /\ call.pending = Top.pending /\ call.backed = Top.backed
        /\ call.phase = "inputs"
    BY <1>1, TopIs DEF Frame
  <2>3. CallOK(call) /\ call.missed \cup call.pending \subseteq Places(Top.tx)
    BY <1>1, <1>4, <2>2, TopIs DEF CallOK
  <2> HIDE DEF call
  <2>4. QED
    BY <1>1, <1>2, <2>1, <2>2, <2>3, GoStep
<1>5. QED
  BY <1>3, <1>4

LEMMA InputStep ==
  ASSUME ValidationIInv, ReadInput \/ MissInput
  PROVE  ValidationIInv'
<1>1. /\ stack # << >> /\ Top.phase = "inputs" /\ Top.next <= Len(TxOf[Top.tx].inputs)
      /\ UNCHANGED <<results, answer, asked>>
  BY DEF ReadInput, MissInput, Reading, InPhase
<1>2. Top.next \in Places(Top.tx) /\ Top.next \in Nat /\ Source \in TxId
  <2>1. Top.tx \in TxId /\ Top.next \in Nat \ {0}
    BY <1>1, TopIs, FrameIs
  <2>2. Top.next \in Places(Top.tx)
    BY <1>1, <2>1, ChainIs
  <2>3. QED
    BY <2>1, <2>2, SourceIs DEF Source, SourceOf
<1>3. read' \subseteq TxId /\ fetches' \in 0 .. MaxFetches /\ missing \in BOOLEAN
  <2>1. TypeOK /\ (Obtain(Source) \/ Refuse(Source))
    BY DEF ValidationIInv, ReadInput, MissInput
  <2>2. QED
    BY <1>2, <2>1, BudgetAgain DEF TypeOK
<1>4. CASE ReadInput
  <2> DEFINE call == [Top EXCEPT !.next = @ + 1]
  <2>1. Becomes(call) /\ UNCHANGED missing
    BY <1>4 DEF ReadInput
  <2>2. /\ call \in Frame /\ call.tx = Top.tx /\ call.depth = Top.depth
        /\ call.missed = Top.missed /\ call.pending = Top.pending /\ call.backed = Top.backed
        /\ call.phase = "inputs"
    BY <1>1, TopIs DEF Frame
  <2>3. CallOK(call) /\ call.missed \cup call.pending \subseteq Places(Top.tx)
    BY <1>1, <2>2, TopIs DEF CallOK
  <2> HIDE DEF call
  <2>4. QED
    BY <1>1, <1>3, <2>1, <2>2, <2>3, GoStep
<1>5. CASE MissInput
  <2> DEFINE seen == Top.missed \cup {Top.next}
             call == [Top EXCEPT !.next = @ + 1, !.missed = @ \cup {Top.next}]
  <2>1. Becomes(call) /\ missing' = TRUE /\ missing' \in BOOLEAN
    BY <1>5 DEF MissInput
  <2>2. /\ call \in Frame /\ call.tx = Top.tx /\ call.depth = Top.depth
        /\ call.missed = Top.missed \cup {Top.next}
        /\ call.pending = Top.pending /\ call.backed = Top.backed
        /\ call.phase = "inputs"
    <3>1. call = [[Top EXCEPT !.next = @ + 1] EXCEPT !.missed = seen]
      BY <1>1, TopIs DEF Frame
    <3>2. seen \in SUBSET Nat
      BY <1>1, <1>2, TopIs, FrameIs
    <3> HIDE DEF seen
    <3>3. [Top EXCEPT !.next = @ + 1] \in Frame
      BY <1>1, TopIs DEF Frame
    <3>4. [[Top EXCEPT !.next = @ + 1] EXCEPT !.missed = seen] \in Frame
      BY <3>2, <3>3 DEF Frame
    <3> HIDE DEF call
    <3>5. /\ call.tx = Top.tx /\ call.depth = Top.depth /\ call.missed = seen
          /\ call.pending = Top.pending /\ call.backed = Top.backed /\ call.phase = "inputs"
      BY <1>1, <3>1, TopIs DEF Frame
    <3>6. QED
      BY <3>1, <3>4, <3>5 DEF seen
  <2>3. CallOK(call) /\ call.missed \cup call.pending \subseteq Places(Top.tx)
    BY <1>1, <1>2, <2>2, TopIs DEF CallOK
  <2> HIDE DEF call
  <2>4. call.phase = "backing" /\ call.backed =>
          \A i \in Sources(call.tx, call.missed) :
            i \in call.pending \/ IsProven(SourceOf(call.tx, i))
    BY <2>2
  <2>5. QED
    BY <1>1, <1>3, <2>1, <2>2, <2>3, <2>4, GoStep
<1>6. QED
  BY <1>4, <1>5

LEMMA RememberIs ==
  ASSUME Top.tx \notin DOMAIN results, NEW outcome, Remember(outcome)
  PROVE  /\ Return(outcome) /\ Grows /\ results'[Top.tx] = outcome
         /\ outcome.proven => NowProven(Top.tx)
BY DEF Remember, Grows, NowProven

\* What is concluded of a call is remembered.
LEMMA RememberStep ==
  ASSUME ValidationIInv, stack # << >>, Top.phase # "fetch",
         NEW proven \in BOOLEAN, NEW outcome,
         outcome = Outcome(Verdict(Top.tx, Top.missed), proven), Remember(outcome),
         UNCHANGED <<read, fetches, asked, missing>>,
         proven =>
           /\ Verdict(Top.tx, Top.missed) = "yes"
           /\ \/ SelfContained(Top.tx)
              \/ \A i \in Sources(Top.tx, Top.missed) : IsProven(SourceOf(Top.tx, i)),
         Promised => proven
  PROVE  ValidationIInv'
<1>1. Top.tx \notin DOMAIN results
  BY TopIs DEF CallOK
<1>2. /\ Return(outcome) /\ Grows /\ results'[Top.tx] = outcome
      /\ outcome.proven => NowProven(Top.tx)
  BY <1>1, RememberIs
<1>3. /\ outcome.proven = proven /\ outcome.conserved = Verdict(Top.tx, Top.missed)
      /\ outcome \in [conserved : {"yes", "no", "open"}, proven : BOOLEAN]
  BY VerdictIs DEF Outcome
<1>4. Justified(Top.tx, outcome)
  BY <1>2, <1>3, TopIs, ProvenStays DEF Justified
<1>5. Whole => outcome.conserved = Verdict(Top.tx, {})
  BY <1>3, TopLost
<1>6. read' \subseteq TxId /\ fetches' \in 0 .. MaxFetches
  BY DEF ValidationIInv, TypeOK
<1>7. QED
  BY <1>2, <1>3, <1>4, <1>5, <1>6, EndStep

LEMMA ConcludeStep ==
  ASSUME ValidationIInv, Conclude
  PROVE  ValidationIInv'
<1>1. /\ stack # << >> /\ Top.phase = "inputs"
      /\ UNCHANGED <<read, fetches, asked, missing>>
  BY DEF Conclude, InPhase, budget
<1>2. read' \subseteq TxId /\ fetches' \in 0 .. MaxFetches /\ missing' \in BOOLEAN
  BY <1>1 DEF ValidationIInv, TypeOK
<1>3. Promised => /\ Verdict(Top.tx, {}) = "yes" /\ ~Unreadable(Top.tx) /\ Top.missed = {}
                  /\ SelfContained(Top.tx) \/ Top.depth > 1
  <2>1. Top.depth \in 0 .. MaxDepth
    BY <1>1, TopIs, DepthAssumption
  <2>2. Promised => Top.tx \in Provable[Top.depth] /\ Top.missed = {}
    BY <1>1, TopLost DEF Promised, Whole
  <2>3. QED
    BY <2>1, <2>2, ProvableIs
<1>4. CASE Unreadable(Top.tx)
  <2>1. Return(Thrown) /\ UNCHANGED results
    BY <1>4 DEF Conclude
  <2>2. /\ Thrown.proven \in BOOLEAN /\ (Thrown.proven => NowProven(Top.tx))
        /\ Thrown.conserved \notin {"yes", "no"}
    BY DEF Thrown, Outcome
  <2>3. Grows /\ ~Promised
    BY <1>3, <1>4, <2>1 DEF Grows
  <2>4. QED
    BY <1>1, <1>2, <2>1, <2>2, <2>3, EndStep
<1>5. CASE ~Unreadable(Top.tx) /\ ~SelfContained(Top.tx) /\ Deep
  <2> DEFINE sources == Sources(Top.tx, Top.missed)
             call == [Top EXCEPT !.phase = "backing", !.pending = sources]
  <2>1. Becomes(call) /\ UNCHANGED <<results, answer>>
    BY <1>5 DEF Conclude
  <2>2. sources \in SUBSET Places(Top.tx) /\ sources \in SUBSET Nat
    BY <1>1, NoInputMissed, TopIs, ChainIs
  <2>3. /\ call \in Frame /\ call.tx = Top.tx /\ call.depth = Top.depth
        /\ call.missed = Top.missed /\ call.pending = sources /\ call.backed = Top.backed
        /\ call.phase = "backing"
    <3>1. Top \in Frame
      BY <1>1, TopIs
    <3> HIDE DEF sources
    <3>2. [Top EXCEPT !.phase = "backing"] \in Frame
      BY <3>1 DEF Frame
    <3>3. call = [[Top EXCEPT !.phase = "backing"] EXCEPT !.pending = sources]
      BY <3>1 DEF Frame
    <3>4. [[Top EXCEPT !.phase = "backing"] EXCEPT !.pending = sources] \in Frame
      BY <2>2, <3>2 DEF Frame
    <3>5. /\ call.tx = Top.tx /\ call.depth = Top.depth
          /\ call.missed = Top.missed /\ call.pending = sources /\ call.backed = Top.backed
          /\ call.phase = "backing"
      BY <3>1 DEF Frame
    <3>6. QED
      BY <3>3, <3>4, <3>5
  <2>4. CallOK(call) /\ call.missed \cup call.pending \subseteq Places(Top.tx)
    BY <1>1, <1>5, <2>2, <2>3, TopIs DEF CallOK, Deep
  <2>5. \A i \in Sources(call.tx, call.missed) : i \in call.pending
    BY <2>3
  <2> HIDE DEF call, sources
  <2>6. QED
    BY <1>1, <1>2, <2>1, <2>3, <2>4, <2>5, GoStep
<1>6. CASE ~Unreadable(Top.tx) /\ ~ (~SelfContained(Top.tx) /\ Deep)
  <2> DEFINE proven == SelfContained(Top.tx) /\ Verdict(Top.tx, Top.missed) = "yes"
  <2>1. Remember(Outcome(Verdict(Top.tx, Top.missed), proven))
    BY <1>6 DEF Conclude
  <2>2. proven \in BOOLEAN
    BY DEF SelfContained
  <2>3. Promised => proven
    BY <1>3, <1>6 DEF Deep
  <2>4. proven => Verdict(Top.tx, Top.missed) = "yes" /\ SelfContained(Top.tx)
    OBVIOUS
  <2> HIDE DEF proven
  <2>5. QED
    BY <1>1, <2>1, <2>2, <2>3, <2>4, RememberStep
<1>7. QED
  BY <1>4, <1>5, <1>6

LEMMA FinishStep ==
  ASSUME ValidationIInv, Finish
  PROVE  ValidationIInv'
<1>1. /\ stack # << >> /\ Top.phase = "backing" /\ Top.pending = {}
      /\ UNCHANGED <<read, fetches, asked, missing>>
      /\ Remember(Outcome(Verdict(Top.tx, Top.missed), Conclusion))
  BY DEF Finish, InPhase, budget
<1>2. Conclusion \in BOOLEAN
  <2>1. Top.backed \in BOOLEAN
    BY <1>1, TopIs, FrameIs
  <2>2. QED
    BY <2>1 DEF Conclusion
<1>3. Top.backed => \A i \in Sources(Top.tx, Top.missed) : IsProven(SourceOf(Top.tx, i))
  <2>1. BackedSoFar /\ Len(stack) \in DOMAIN stack /\ ~ (Len(stack) < Len(stack))
    <3>1. StackOK
      BY DEF ValidationIInv
    <3>2. Len(stack) \in Nat
      BY <3>1, StackIs
    <3>3. QED
      BY <1>1, <3>2, TopIs DEF ValidationIInv
  <2>2. QED
    BY <1>1, <2>1 DEF BackedSoFar, Top
<1>4. Promised => Conclusion
  <2>1. Top.depth \in 0 .. MaxDepth
    BY <1>1, TopIs, DepthAssumption
  <2>2. Promised => Top.tx \in Provable[Top.depth] /\ Top.missed = {} /\ Top.backed
    BY <1>1, TopLost DEF Promised, Whole
  <2>3. Promised => Verdict(Top.tx, {}) = "yes"
    BY <2>1, <2>2, ProvableIs
  <2>4. QED
    BY <2>2, <2>3 DEF Conclusion
<1>5. Conclusion => /\ Verdict(Top.tx, Top.missed) = "yes"
                    /\ \A i \in Sources(Top.tx, Top.missed) : IsProven(SourceOf(Top.tx, i))
  BY <1>3 DEF Conclusion
<1>6. QED
  BY <1>1, <1>2, <1>4, <1>5, RememberStep

\* The next source is validated in its turn.
LEMMA DescendStep ==
  ASSUME ValidationIInv, Descend
  PROVE  ValidationIInv'
<1> DEFINE next == Min(Top.pending)
           source == SourceOf(Top.tx, next)
           others == {i \in Top.pending : SourceOf(Top.tx, i) # source}
           waiting == [Top EXCEPT !.pending = others]
           call == Call(source, Top.depth - 1)
           last == Len(stack)
<1>1. /\ TypeOK /\ StackOK /\ ResultsOK /\ BackedSoFar /\ NothingLost
      /\ stack # << >> /\ Top.phase = "backing" /\ Top.pending # {}
      /\ UNCHANGED <<read, fetches, results, answer, asked, missing>>
  BY DEF ValidationIInv, Descend, InPhase, budget
<1>2. /\ Top \in Frame /\ Top.tx \in TxId /\ Top.depth > 1 /\ Top.depth \in 1 .. MaxDepth
      /\ ~SelfContained(Top.tx)
      /\ Top.pending \subseteq Sources(Top.tx, Top.missed) /\ Top.pending \in SUBSET Nat
      /\ Top.missed \cup Top.pending \subseteq Places(Top.tx)
  BY <1>1, TopIs, FrameIs DEF CallOK
<1>3. next \in Top.pending /\ next \in Sources(Top.tx, Top.missed)
  BY <1>1, <1>2, MinIsLeast
<1>4. /\ source \in TxId /\ source < Top.tx /\ TokenOutputs(source) # {}
      /\ source \in Nat /\ Top.tx \in Nat
  BY <1>2, <1>3, SourceHasTokens
<1>5. /\ last \in Nat /\ last # 0 /\ DOMAIN stack = 1 .. last /\ last \in 1 .. last
      /\ Top = stack[last] /\ stack \in Seq(Frame)
  BY <1>1, StackIs DEF Top, StackOK
<1>6. stack' = Append([stack EXCEPT ![last] = waiting], call)
  <2>1. stack' = Append([stack EXCEPT ![last].pending = others], call)
    BY DEF Descend, SourceOf, DepthBehind
  <2>2. [stack EXCEPT ![last].pending = others] = [stack EXCEPT ![last] = waiting]
    BY <1>5
  <2>3. QED
    BY <2>1, <2>2
<1>7. /\ waiting \in Frame /\ SameBut([waiting EXCEPT !.pending = Top.pending], Top)
      /\ waiting.tx = Top.tx /\ waiting.depth = Top.depth /\ waiting.phase = "backing"
      /\ waiting.missed = Top.missed /\ waiting.pending = others
      /\ waiting.backed = Top.backed
  <2>1. others \in SUBSET Nat
    BY <1>2
  <2> HIDE DEF others
  <2>2. QED
    BY <1>1, <1>2, <2>1 DEF Frame, SameBut
<1>8. /\ call \in Frame /\ call.tx = source /\ call.depth = Top.depth - 1 /\ call.phase = "fetch"
      /\ call.missed = {} /\ call.pending = {} /\ call.backed = TRUE
  <2> HIDE DEF source
  <2>1. Top.depth - 1 \in 1 .. MaxDepth
    BY <1>2, DepthAssumption
  <2>2. QED
    BY <1>4, <2>1 DEF Call, Frame
<1> HIDE DEF waiting, call
<1>9. /\ stack' \in Seq(Frame) /\ Len(stack') = last + 1 /\ DOMAIN stack' = 1 .. last + 1
      /\ stack'[last + 1] = call
      /\ \A n \in 1 .. last : stack'[n] = IF n = last THEN waiting ELSE stack[n]
  <2> HIDE DEF last
  <2> DEFINE base == [stack EXCEPT ![last] = waiting]
  <2>1. /\ base \in Seq(Frame) /\ Len(base) = last /\ DOMAIN base = 1 .. last
        /\ \A n \in 1 .. last : base[n] = IF n = last THEN waiting ELSE stack[n]
    BY <1>5, <1>7 DEF last
  <2> HIDE DEF base
  <2>2. QED
    BY <1>5, <1>6, <1>8, <2>1 DEF base
<1> HIDE DEF last
<1>10. ASSUME NEW n \in 1 .. last
       PROVE  /\ stack'[n].tx = stack[n].tx /\ stack'[n].depth = stack[n].depth
              /\ stack'[n].missed = stack[n].missed /\ stack'[n].backed = stack[n].backed
              /\ stack'[n].phase = stack[n].phase
              /\ stack'[n].pending \subseteq stack[n].pending
  BY <1>1, <1>5, <1>7, <1>9
<1>11. ASSUME NEW n \in 1 .. last
       PROVE  /\ stack'[n].phase = "backing"
              /\ \E i \in Sources(stack'[n].tx, stack'[n].missed) :
                   SourceOf(stack'[n].tx, i) = stack'[n + 1].tx
  <2>1. CASE n = last
    BY <1>3, <1>7, <1>8, <1>9, <2>1
  <2>2. CASE n # last
    <3>1. n \in 1 .. last - 1 /\ n + 1 \in 1 .. last
      BY <1>5, <2>2
    <3>2. /\ stack[n].phase = "backing"
          /\ \E i \in Sources(stack[n].tx, stack[n].missed) :
               SourceOf(stack[n].tx, i) = stack[n + 1].tx
      BY <1>1, <3>1 DEF StackOK, last
    <3>3. QED
      BY <1>10, <3>1, <3>2
  <2>3. QED
    BY <2>1, <2>2
<1>12. StackOK'
  <2>1. stack'[1].tx = asked'[1]
    BY <1>1, <1>5, <1>10 DEF StackOK
  <2>2. ASSUME NEW n \in 1 .. last + 1
        PROVE  CallOK(stack[n])'
    <3>1. CASE n = last + 1
      BY <1>8, <1>9, <3>1 DEF CallOK
    <3>2. CASE n # last + 1
      <4>1. n \in 1 .. last
        BY <1>5, <3>2
      <4>2. CallOK(stack[n])
        BY <1>1, <1>5, <4>1, StackIs
      <4>3. QED
        BY <1>1, <1>10, <4>1, <4>2 DEF CallOK
    <3>3. QED
      BY <3>1, <3>2
  <2>3. Len(stack') - 1 = last
    BY <1>5, <1>9
  <2>4. QED
    BY <1>9, <1>11, <2>1, <2>2, <2>3 DEF StackOK
<1>13. BackedSoFar'
  <2> SUFFICES ASSUME NEW n \in 1 .. last + 1, stack'[n].phase = "backing", stack'[n].backed,
                      NEW i \in Sources(stack'[n].tx, stack'[n].missed)
               PROVE  \/ i \in stack'[n].pending
                      \/ IsProven(SourceOf(stack'[n].tx, i))
                      \/ n < last + 1 /\ SourceOf(stack'[n].tx, i) = stack'[n + 1].tx
    BY <1>1, <1>9 DEF BackedSoFar, IsProven
  <2>1. n # last + 1
    BY <1>8, <1>9
  <2>2. n \in 1 .. last /\ n < last + 1
    BY <1>5, <2>1
  <2>3. \/ i \in stack[n].pending
        \/ IsProven(SourceOf(stack[n].tx, i))
        \/ n < last /\ SourceOf(stack[n].tx, i) = stack[n + 1].tx
    <3>1. /\ stack[n].phase = "backing" /\ stack[n].backed
          /\ i \in Sources(stack[n].tx, stack[n].missed) /\ n \in DOMAIN stack
      BY <1>5, <1>10, <2>2
    <3>2. QED
      BY <1>1, <3>1 DEF BackedSoFar, last
  <2>4. CASE n = last
    <3>1. i \in Top.pending => i \in others \/ SourceOf(Top.tx, i) = source
      OBVIOUS
    <3>2. ~ (n < last)
      BY <1>5, <2>4
    <3>3. stack[n] = Top /\ stack'[n] = waiting /\ stack'[n + 1].tx = source
      BY <1>5, <1>8, <1>9, <2>4
    <3>4. QED
      BY <1>7, <2>2, <2>3, <3>1, <3>2, <3>3
  <2>5. CASE n # last
    <3>1. n + 1 \in 1 .. last /\ stack'[n] = stack[n]
      BY <1>5, <1>9, <2>2, <2>5
    <3>2. QED
      BY <1>10, <2>2, <2>3, <3>1
  <2>6. QED
    BY <2>4, <2>5
<1>14. StackPlaced'
  <2>1. ASSUME NEW n \in 1 .. last
        PROVE  /\ stack[n].depth = asked[2] + 1 - n /\ stack[n].depth >= 1
               /\ n > 1 => n - 1 \in 1 .. last /\ stack[n].tx < stack[n - 1].tx
               /\ stack[n].missed \cup stack[n].pending \subseteq Places(stack[n].tx)
    <3>1. n > 1 => n - 1 \in 1 .. last
      BY <1>5
    <3>2. n \in DOMAIN stack
      BY <1>5
    <3>3. QED
      BY <1>1, <3>1, <3>2 DEF TypeOK, Places
  <2>2. ASSUME NEW n \in 1 .. last + 1
        PROVE  /\ stack'[n].depth = asked[2] + 1 - n /\ stack'[n].depth >= 1
               /\ n > 1 => stack'[n].tx < stack'[n - 1].tx
               /\ stack'[n].missed \cup stack'[n].pending \subseteq Places(stack'[n].tx)
    <3>1. CASE n = last + 1
      <4>1. stack'[n] = call /\ n > 1 /\ n - 1 = last /\ asked[2] \in Int
        BY <1>1, <1>5, <1>9, <3>1 DEF TypeOK
      <4>2. stack'[n - 1].tx = Top.tx
        BY <1>5, <1>10, <4>1
      <4>3. Top.depth = asked[2] + 1 - last
        BY <1>5, <2>1
      <4>4. call.depth = asked[2] + 1 - n /\ call.depth >= 1
        BY <1>2, <1>5, <1>8, <3>1, <4>1, <4>3
      <4>5. QED
        BY <1>4, <1>8, <4>1, <4>2, <4>4
    <3>2. CASE n # last + 1
      <4>1. n \in 1 .. last
        BY <1>5, <3>2
      <4>2. QED
        BY <1>10, <2>1, <4>1
    <3>3. QED
      BY <3>1, <3>2
  <2>3. QED
    BY <1>1, <1>9, <2>2 DEF StackPlaced
<1>15. NothingLost'
  <2>1. Whole => \A n \in 1 .. last + 1 : stack'[n].missed = {}
    <3>1. Whole => \A n \in 1 .. last : stack[n].missed = {}
      BY <1>1, <1>5, LostIs
    <3>2. \A n \in 1 .. last + 1 : n \in 1 .. last \/ n = last + 1
      BY <1>5
    <3>3. QED
      BY <1>8, <1>9, <1>10, <3>1, <3>2
  <2>2. Promised => source \in Provable[Top.depth - 1]
    <3>1. Top.depth \in 0 .. MaxDepth
      BY <1>2, DepthAssumption
    <3>2. Promised => Top.tx \in Provable[Top.depth] /\ Top.missed = {}
      BY <1>1, TopLost DEF Promised, Whole
    <3>3. QED
      BY <1>2, <1>3, <3>1, <3>2, ProvableIs
  <2>3. Promised => \A n \in 1 .. last + 1 : stack'[n].tx \in Provable[stack'[n].depth] /\ stack'[n].backed
    <3>1. Promised => \A n \in 1 .. last : stack[n].tx \in Provable[stack[n].depth] /\ stack[n].backed
      BY <1>1, <1>5, LostIs
    <3>2. \A n \in 1 .. last + 1 : n \in 1 .. last \/ n = last + 1
      BY <1>5
    <3>3. QED
      BY <1>8, <1>9, <1>10, <2>2, <3>1, <3>2
  <2>4. (Whole' <=> Whole) /\ (Promised' <=> Promised)
    BY <1>1 DEF Whole, Promised
  <2>5. QED
    BY <1>1, <1>9, <2>1, <2>3, <2>4, LostIs DEF NothingLost, Whole, Promised
<1>16. TypeOK'
  BY <1>1, <1>14, TypeAgain DEF TypeOK
<1>17. ResultsOK'
  BY <1>1 DEF ResultsOK, IsProven
<1>18. QED
  BY <1>12, <1>13, <1>15, <1>16, <1>17 DEF ValidationIInv

-----------------------------------------------------------------------------
(* The theorems. *)

LEMMA InitOK == Init => ValidationIInv
<1> SUFFICES ASSUME Init
             PROVE  ValidationIInv
  OBVIOUS
<1> DEFINE call == Call(asked[1], asked[2])
<1>1. /\ asked \in TxId \X (1 .. MaxDepth) /\ stack = <<call>>
      /\ read = {} /\ fetches = 0 /\ results = << >> /\ answer = None /\ missing = FALSE
  BY DEF Init
<1>2. asked[1] \in TxId /\ asked[2] \in 1 .. MaxDepth
  BY <1>1
<1>3. /\ call \in Frame /\ call.tx = asked[1] /\ call.depth = asked[2] /\ call.phase = "fetch"
      /\ call.missed = {} /\ call.pending = {} /\ call.backed = TRUE
  BY <1>2 DEF Call, Frame
<1> HIDE DEF call
<1>4. /\ stack \in Seq(Frame) /\ Len(stack) = 1 /\ DOMAIN stack = {1} /\ stack[1] = call
  BY <1>1, <1>3
<1>5. TypeOK
  <2>1. asked[2] + 1 - 1 = asked[2] /\ asked[2] >= 1
    BY <1>2, DepthAssumption
  <2>2. StackPlaced
    BY <1>3, <1>4, <2>1 DEF StackPlaced, Places
  <2>3. fetches \in 0 .. MaxFetches /\ DOMAIN results = {}
    BY <1>1, FetchAssumption
  <2>4. QED
    BY <1>1, <2>2, <2>3 DEF TypeOK, StackPlaced, Places
<1>6. StackOK
  BY <1>3, <1>4 DEF StackOK, CallOK
<1>7. ResultsOK /\ BackedSoFar
  BY <1>1, <1>3, <1>4 DEF ResultsOK, BackedSoFar
<1>8. NothingLost
  BY <1>1, <1>3, <1>4 DEF NothingLost
<1>9. QED
  BY <1>5, <1>6, <1>7, <1>8 DEF ValidationIInv

LEMMA StepsKeep == ValidationIInv /\ [Next]_vars => ValidationIInv'
<1> SUFFICES ASSUME ValidationIInv, [Next]_vars
             PROVE  ValidationIInv'
  OBVIOUS
<1>1. CASE Recall
  BY <1>1, RecallStep
<1>2. CASE ReadTransaction
  BY <1>2, ReadTransactionStep
<1>3. CASE MissTransaction
  BY <1>3, MissTransactionStep
<1>4. CASE ReadInput \/ MissInput
  BY <1>4, InputStep
<1>5. CASE Conclude
  BY <1>5, ConcludeStep
<1>6. CASE Descend
  BY <1>6, DescendStep
<1>7. CASE Finish
  BY <1>7, FinishStep
<1>8. CASE UNCHANGED vars
  <2>1. UNCHANGED <<stack, read, fetches, results, answer, asked, missing>>
    BY <1>8 DEF vars, budget
  <2>2. QED
    BY <2>1 DEF ValidationIInv, TypeOK, StackOK, CallOK, ResultsOK, BackedSoFar, NothingLost, IsProven
<1>9. QED
  BY <1>1, <1>2, <1>3, <1>4, <1>5, <1>6, <1>7, <1>8 DEF Next, Step, Done

\* The strengthening holds of every state of a validation.
THEOREM ValidationInductive == Spec => []ValidationIInv
<1>1. QED
  BY InitOK, StepsKeep, PTL DEF Spec

\* What is said of what a transaction moves, on the inputs that happened to be
\* read, is what reading every input would say. (tokenValidate.js:128-151)
THEOREM VerdictsStand == Spec => []VerdictStands
<1>1. ValidationIInv => VerdictStands
  <2> SUFFICES ASSUME ValidationIInv, NEW t \in DOMAIN results,
                      results[t].conserved # "open", ~Unsettled(t)
               PROVE  results[t].conserved = Verdict(t, {})
    BY DEF ValidationIInv, VerdictStands
  <2>1. t \in TxId
    BY DEF ValidationIInv, TypeOK
  <2>2. PICK missed \in SUBSET Places(t) : results[t].conserved = Verdict(t, missed)
    BY DEF ValidationIInv, ResultsOK, Places
  <2>3. QED
    BY <2>1, <2>2, DecidedIsFinal
<1>2. QED
  BY <1>1, ValidationInductive, PTL

\* What a transaction called proven moves was created behind it, whatever was
\* missed, remembered or walked twice on the way. (tokenValidate.js:228-251)
THEOREM ProvenMovesWhatExists == Spec => []ProvenIsBacked
<1>1. ValidationIInv => ProvenIsBacked
  <2> SUFFICES ASSUME ValidationIInv, NEW t \in DOMAIN results, results[t].proven,
                      NEW key \in Keys(t)
               PROVE  Made(t, Moved(t, key)) <= Supply(t, key)
    BY DEF ProvenIsBacked
  <2> DEFINE P == {u \in DOMAIN results : results[u].proven}
  <2>1. P \in SUBSET TxId /\ t \in P
    BY DEF ValidationIInv, TypeOK
  <2>2. ASSUME NEW u \in P
        PROVE  Sourced(P, u)
    <3>1. PICK missed \in SUBSET Places(u) :
                 /\ Verdict(u, missed) = "yes"
                 /\ SelfContained(u) \/ \A i \in Sources(u, missed) : IsProven(SourceOf(u, i))
      BY DEF ValidationIInv, ResultsOK, Places
    <3>2. \A w : IsProven(w) => w \in P
      BY DEF IsProven
    <3> HIDE DEF P
    <3>3. QED
      BY <3>1, <3>2 DEF Sourced
  <2>3. key # None
    BY DEF Keys
  <2> HIDE DEF P
  <2>4. QED
    BY <2>1, <2>2, <2>3, FlowIsBacked
<1>2. QED
  BY <1>1, ValidationInductive, PTL

\* When nothing was missed, the memo costs no answer. (tokenValidate.js:196, 232-250)
THEOREM MemoIsSound == Spec => []MemoLosesNothing
<1>1. ValidationIInv => MemoLosesNothing
  BY DEF ValidationIInv, NothingLost, MemoLosesNothing
<1>2. QED
  BY <1>1, ValidationInductive, PTL

=============================================================================
