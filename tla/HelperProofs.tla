---------------------------- MODULE HelperProofs ----------------------------
(* What the operators the models are built from do: least and greatest        *)
(* elements, lists that are filtered, sums over finite sets, and apply, its    *)
(* captured values and revert of src/indexer/store.js, for every store and     *)
(* every list of writes.                                                      *)
EXTENDS Store, Lists, SequenceTheorems, FiniteSetTheorems, WellFoundedInduction, TLAPS

\* A non-empty set of naturals has a least element, and Min is it.
LEMMA MinIsLeast ==
  ASSUME NEW S \in SUBSET Nat, S # {}
  PROVE  Min(S) \in S /\ \A n \in S : Min(S) <= n
<1>1. \E m \in S : \A n \in S : ~ (<<n, m>> \in OpToRel(<, Nat))
  BY NatLessThanWellFounded, WFMin
<1>2. ASSUME NEW m \in S, NEW n \in S, n < m
      PROVE  <<n, m>> \in OpToRel(<, Nat)
  BY <1>2 DEF OpToRel
<1>3. \E m \in S : \A n \in S : ~ (n < m)
  BY <1>1, <1>2
<1>4. \E m \in S : \A n \in S : m <= n
  BY <1>3
<1>5. QED
  BY <1>4 DEF Min

\* The greater of two integers, and the greatest of a bounded set of naturals.
LEMMA MaxOfTwo ==
  ASSUME NEW a \in Int, NEW b \in Int
  PROVE  Max({a, b}) = IF a >= b THEN a ELSE b
<1>1. \E x \in {a, b} : \A y \in {a, b} : x >= y
  OBVIOUS
<1>2. Max({a, b}) \in {a, b} /\ \A y \in {a, b} : Max({a, b}) >= y
  BY <1>1 DEF Max
<1>3. QED
  BY <1>2

LEMMA MaxIsGreatest ==
  ASSUME NEW n \in Nat, NEW S \in SUBSET (1 .. n), S # {}
  PROVE  Max(S) \in S /\ \A y \in S : Max(S) >= y
<1> DEFINE T == {n - x : x \in S}
<1>1. \A x \in S : n - x \in T /\ n - x \in Nat /\ x \in Int
  OBVIOUS
<1>2. T \in SUBSET Nat /\ T # {}
  BY <1>1
<1>3. Min(T) \in T /\ \A m \in T : Min(T) <= m
  BY <1>2, MinIsLeast
<1>4. PICK x \in S : Min(T) = n - x
  BY <1>3
<1>5. ASSUME NEW y \in S
      PROVE  x >= y
  <2>1. n - x <= n - y
    BY <1>1, <1>3, <1>4
  <2>2. QED
    BY <1>1, <2>1
<1>6. \E z \in S : \A y \in S : z >= y
  BY <1>5
<1>7. QED
  BY <1>6 DEF Max

-----------------------------------------------------------------------------
(* Induction over a set of numbers, and what is defined step by step.          *)

LEMMA StepByStep ==
  ASSUME NEW N \in Nat, NEW P, 0 \in P, \A n \in 1 .. N : n - 1 \in P => n \in P
  PROVE  \A n \in 0 .. N : n \in P
<1> DEFINE Bad == {n \in Nat : n <= N /\ n \notin P}
<1>1. ASSUME Bad # {}
      PROVE  FALSE
  <2> DEFINE m == Min(Bad)
  <2>1. m \in Nat /\ m \in Bad /\ \A k \in Bad : m <= k
    BY <1>1, MinIsLeast
  <2> HIDE DEF m
  <2>2. m # 0 /\ m <= N
    BY <2>1
  <2>3. m - 1 \in Nat /\ m - 1 \notin Bad /\ m \in 1 .. N /\ m - 1 <= N
    BY <2>1, <2>2
  <2>4. m - 1 \in P
    BY <2>3
  <2>5. QED
    BY <2>1, <2>3, <2>4
<1>2. QED
  BY <1>1

LEMMA FromBelow ==
  ASSUME NEW S \in SUBSET Nat, NEW P,
         \A n \in S : (\A m \in S : m < n => m \in P) => n \in P
  PROVE  \A n \in S : n \in P
<1> DEFINE Bad == S \ P
<1>1. ASSUME Bad # {}
      PROVE  FALSE
  <2> DEFINE m == Min(Bad)
  <2>1. m \in Bad /\ \A k \in Bad : m <= k
    BY <1>1, MinIsLeast
  <2> HIDE DEF m
  <2>2. \A k \in S : k < m => k \in P
    BY <2>1
  <2>3. QED
    BY <2>1, <2>2
<1>2. QED
  BY <1>1

\* A function defined from each number to the next has a solution, as long as
\* the steps stay in a set.
Iteration(g, N, base, next) ==
  g = [n \in 0 .. N |-> IF n = 0 THEN base ELSE next[n][g[n - 1]]]

LEMMA Iterates ==
  ASSUME NEW N \in Nat, NEW S, NEW base \in S, NEW next \in [1 .. N -> [S -> S]]
  PROVE  \E g \in [0 .. N -> S] : Iteration(g, N, base, next)
<1> DEFINE P == {m \in 0 .. N : \E g \in [0 .. m -> S] : Iteration(g, m, base, next)}
<1>1. 0 \in P
  <2> DEFINE g == [n \in 0 .. 0 |-> base]
  <2>1. g \in [0 .. 0 -> S] /\ Iteration(g, 0, base, next)
    BY DEF Iteration
  <2>2. QED
    BY <2>1
<1>2. ASSUME NEW m \in 1 .. N, m - 1 \in P
      PROVE  m \in P
  <2>1. PICK g \in [0 .. m - 1 -> S] : Iteration(g, m - 1, base, next)
    BY <1>2
  <2> DEFINE h == [n \in 0 .. m |-> IF n = 0 THEN base ELSE next[n][g[n - 1]]]
  <2>2. \A n \in 0 .. m - 1 : h[n] = g[n]
    <3>1. ASSUME NEW n \in 0 .. m - 1
          PROVE  h[n] = g[n]
      <4>1. n \in 0 .. m
        OBVIOUS
      <4>2. g[n] = IF n = 0 THEN base ELSE next[n][g[n - 1]]
        BY <2>1 DEF Iteration
      <4>3. QED
        BY <4>1, <4>2
    <3>2. QED
      BY <3>1
  <2>3. ASSUME NEW n \in 0 .. m, n # 0
        PROVE  /\ h[n - 1] = g[n - 1] /\ g[n - 1] \in S
               /\ next[n] \in [S -> S]
    <3>1. n - 1 \in 0 .. m - 1 /\ n \in 1 .. N
      BY <2>3
    <3>2. QED
      BY <2>1, <2>2, <3>1
  <2>4. h \in [0 .. m -> S]
    BY <2>3
  <2>5. h = [n \in 0 .. m |-> IF n = 0 THEN base ELSE next[n][h[n - 1]]]
    BY <2>3
  <2> HIDE DEF h
  <2>6. Iteration(h, m, base, next)
    BY <2>5 DEF Iteration
  <2>7. QED
    BY <2>4, <2>6
<1> HIDE DEF P
<1>3. \A n \in 0 .. N : n \in P
  BY <1>1, <1>2, StepByStep
<1>4. N \in 0 .. N
  OBVIOUS
<1>5. QED
  BY <1>3, <1>4 DEF P

-----------------------------------------------------------------------------
(* Lists that are filtered.                                                   *)

\* Where each element of what is kept of the first n comes from: at rises, and
\* leaves out nothing that is to be kept.
KeptFrom(s, S, n, kept, at) ==
  /\ at \in [1 .. Len(kept) -> 1 .. n]
  /\ \A i \in 1 .. Len(kept) : kept[i] = s[at[i]] /\ kept[i] \in S
  /\ \A i, j \in 1 .. Len(kept) : i < j => at[i] < at[j]
  /\ \A m \in 1 .. n : s[m] \in S => \E i \in 1 .. Len(kept) : at[i] = m

LEMMA KeptSteps ==
  ASSUME NEW X, NEW s \in Seq(X), NEW S
  PROVE  \E g :
           /\ g[0] = << >> /\ Kept(s, S) = g[Len(s)]
           /\ \A n \in 1 .. Len(s) :
                g[n] = IF s[n] \in S THEN Append(g[n - 1], s[n]) ELSE g[n - 1]
<1> DEFINE N == Len(s)
           next == [n \in 1 .. N |-> [x \in Seq(X) |->
                      IF s[n] \in S THEN Append(x, s[n]) ELSE x]]
           Filters(g) == g = [n \in 0 .. N |->
                                IF n = 0 THEN << >>
                                ELSE IF s[n] \in S THEN Append(g[n - 1], s[n]) ELSE g[n - 1]]
           it == CHOOSE g : Filters(g)
<1>1. N \in Nat /\ << >> \in Seq(X) /\ \A n \in 1 .. N : s[n] \in X
  OBVIOUS
<1>2. next \in [1 .. N -> [Seq(X) -> Seq(X)]]
  <2>1. ASSUME NEW n \in 1 .. N, NEW x \in Seq(X)
        PROVE  (IF s[n] \in S THEN Append(x, s[n]) ELSE x) \in Seq(X)
    BY <1>1
  <2>2. QED
    BY <2>1
<1> HIDE DEF N
<1>3. PICK g \in [0 .. N -> Seq(X)] : Iteration(g, N, << >>, next)
  <2> HIDE DEF next
  <2>1. QED
    BY <1>1, <1>2, Iterates
<1>4. ASSUME NEW n \in 0 .. N, n # 0
      PROVE  g[n] = IF s[n] \in S THEN Append(g[n - 1], s[n]) ELSE g[n - 1]
  <2>1. n \in 1 .. N /\ n - 1 \in 0 .. N
    BY <1>1, <1>4
  <2>2. g[n] = next[n][g[n - 1]]
    BY <1>3, <1>4 DEF Iteration
  <2>3. g[n - 1] \in Seq(X)
    BY <2>1
  <2>4. QED
    BY <2>1, <2>2, <2>3
<1>5. g[0] = << >> /\ DOMAIN g = 0 .. N
  BY <1>1, <1>3 DEF Iteration
<1> DEFINE h == [n \in 0 .. N |->
                   IF n = 0 THEN << >>
                   ELSE IF s[n] \in S THEN Append(g[n - 1], s[n]) ELSE g[n - 1]]
<1>6. g = h
  <2>1. \A n \in 0 .. N : g[n] = h[n]
    BY <1>4, <1>5
  <2>2. DOMAIN h = 0 .. N /\ h = [n \in 0 .. N |-> h[n]]
    OBVIOUS
  <2> HIDE DEF h
  <2>3. g = [n \in 0 .. N |-> g[n]]
    BY <1>3
  <2>4. QED
    BY <2>1, <2>2, <2>3
<1>7. Filters(it)
  BY <1>6
<1> HIDE DEF it
<1>8. Kept(s, S) = it[N]
  BY DEF Kept, N, it
<1>9. /\ it[0] = << >>
      /\ \A n \in 1 .. N : it[n] = IF s[n] \in S THEN Append(it[n - 1], s[n]) ELSE it[n - 1]
  <2>1. 0 \in 0 .. N /\ \A n \in 1 .. N : n \in 0 .. N /\ n # 0
    BY <1>1
  <2>2. it = [n \in 0 .. N |->
                IF n = 0 THEN << >>
                ELSE IF s[n] \in S THEN Append(it[n - 1], s[n]) ELSE it[n - 1]]
    BY <1>7
  <2>3. it[0] = << >>
    BY <2>1, <2>2
  <2>4. QED
    BY <2>1, <2>2, <2>3
<1> HIDE DEF Filters
<1>10. QED
  BY <1>8, <1>9 DEF N

LEMMA KeptIs ==
  ASSUME NEW X, NEW s \in Seq(X), NEW S
  PROVE  /\ Kept(s, S) \in Seq(X)
         /\ \E at : KeptFrom(s, S, Len(s), Kept(s, S), at)
<1>1. PICK g :
        /\ g[0] = << >> /\ Kept(s, S) = g[Len(s)]
        /\ \A n \in 1 .. Len(s) :
             g[n] = IF s[n] \in S THEN Append(g[n - 1], s[n]) ELSE g[n - 1]
  BY KeptSteps
<1> DEFINE P == {n \in 0 .. Len(s) : g[n] \in Seq(X) /\ \E at : KeptFrom(s, S, n, g[n], at)}
<1>2. Len(s) \in Nat /\ Len(s) \in 0 .. Len(s)
  OBVIOUS
<1>3. 0 \in P
  <2> DEFINE at == [i \in 1 .. 0 |-> 0]
  <2>1. KeptFrom(s, S, 0, << >>, at)
    BY DEF KeptFrom
  <2>2. << >> \in Seq(X) /\ 0 \in 0 .. Len(s)
    BY <1>2
  <2> HIDE DEF at
  <2>3. QED
    BY <1>1, <2>1, <2>2
<1>4. ASSUME NEW n \in 1 .. Len(s), n - 1 \in P
      PROVE  n \in P
  <2>1. n - 1 \in 0 .. Len(s) /\ n - 1 \in Nat /\ n \in 0 .. Len(s)
    BY <1>2
  <2>2. PICK at : KeptFrom(s, S, n - 1, g[n - 1], at)
    BY <1>4
  <2> DEFINE kept == g[n - 1]
             L == Len(kept)
  <2>3. kept \in Seq(X) /\ L \in Nat
    BY <1>4
  <2>4. /\ at \in [1 .. L -> 1 .. n - 1]
        /\ \A i \in 1 .. L : kept[i] = s[at[i]] /\ kept[i] \in S
        /\ \A i, j \in 1 .. L : i < j => at[i] < at[j]
        /\ \A m \in 1 .. n - 1 : s[m] \in S => \E i \in 1 .. L : at[i] = m
    BY <2>2 DEF KeptFrom
  <2> HIDE DEF kept, L
  <2>5. CASE s[n] \in S
    <3> DEFINE more == Append(kept, s[n])
               to == [i \in 1 .. L + 1 |-> IF i = L + 1 THEN n ELSE at[i]]
    <3>1. g[n] = more
      BY <1>1, <2>5 DEF kept
    <3>2. Len(more) = L + 1 /\ more[L + 1] = s[n] /\ \A i \in 1 .. L : more[i] = kept[i]
      BY <2>3 DEF L
    <3>3. \A i \in 1 .. L + 1 : i = L + 1 \/ i \in 1 .. L
      BY <2>3
    <3>4. \A i \in 1 .. L : i # L + 1 /\ i \in 1 .. L + 1
      BY <2>3
    <3>5. to[L + 1] = n /\ \A i \in 1 .. L : to[i] = at[i]
      BY <2>3, <3>4
    <3>6. to \in [1 .. L + 1 -> 1 .. n]
      BY <2>1, <2>4, <3>3
    <3> HIDE DEF to, more
    <3>7. \A i \in 1 .. L + 1 : more[i] = s[to[i]] /\ more[i] \in S
      BY <2>4, <2>5, <3>2, <3>3, <3>5
    <3>8. ASSUME NEW i \in 1 .. L + 1, NEW j \in 1 .. L + 1, i < j
          PROVE  to[i] < to[j]
      <4>1. i \in 1 .. L
        BY <2>3, <3>8
      <4>2. to[i] = at[i] /\ at[i] \in 1 .. n - 1
        BY <2>4, <3>5, <4>1
      <4>3. CASE j = L + 1
        BY <2>1, <3>5, <4>2, <4>3
      <4>4. CASE j \in 1 .. L
        BY <2>4, <3>5, <3>8, <4>1, <4>4
      <4>5. QED
        BY <3>3, <4>3, <4>4
    <3>9. ASSUME NEW m \in 1 .. n, s[m] \in S
          PROVE  \E i \in 1 .. L + 1 : to[i] = m
      <4>1. CASE m = n
        <5>1. L + 1 \in 1 .. L + 1
          BY <2>3
        <5>2. QED
          BY <3>5, <4>1, <5>1
      <4>2. CASE m # n
        <5>1. m \in 1 .. n - 1
          BY <2>1, <4>2
        <5>2. QED
          BY <2>4, <3>4, <3>5, <3>9, <5>1
      <4>3. QED
        BY <4>1, <4>2
    <3>10. KeptFrom(s, S, n, more, to)
      BY <3>2, <3>6, <3>7, <3>8, <3>9 DEF KeptFrom
    <3>11. more \in Seq(X)
      BY <2>3 DEF more
    <3>12. QED
      BY <2>1, <3>1, <3>10, <3>11
  <2>6. CASE s[n] \notin S
    <3>1. g[n] = kept
      BY <1>1, <2>6 DEF kept
    <3>2. at \in [1 .. L -> 1 .. n]
      BY <2>1, <2>4
    <3>3. ASSUME NEW m \in 1 .. n, s[m] \in S
          PROVE  \E i \in 1 .. L : at[i] = m
      <4>1. m \in 1 .. n - 1
        BY <2>1, <2>6, <3>3
      <4>2. QED
        BY <2>4, <3>3, <4>1
    <3>4. KeptFrom(s, S, n, kept, at)
      BY <2>4, <3>2, <3>3 DEF KeptFrom, L
    <3>5. QED
      BY <2>1, <2>3, <3>1, <3>4
  <2>7. QED
    BY <2>5, <2>6
<1> HIDE DEF P
<1>5. \A n \in 0 .. Len(s) : n \in P
  BY <1>2, <1>3, <1>4, StepByStep
<1>6. QED
  BY <1>1, <1>2, <1>5 DEF P

\* What is kept is what was there and in S, each as often as it was there.
LEMMA KeptGives ==
  ASSUME NEW X, NEW s \in Seq(X), NEW S
  PROVE  LET kept == Kept(s, S)
         IN  /\ kept \in Seq(X) /\ Len(kept) \in Nat /\ DOMAIN kept = 1 .. Len(kept)
             /\ \A i \in DOMAIN kept : kept[i] \in S /\ \E m \in DOMAIN s : s[m] = kept[i]
             /\ \A m \in DOMAIN s : s[m] \in S => \E i \in DOMAIN kept : kept[i] = s[m]
             /\ IsInjective(s) => IsInjective(kept)
<1> DEFINE kept == Kept(s, S)
<1>1. kept \in Seq(X)
  BY KeptIs
<1>2. PICK at : KeptFrom(s, S, Len(s), kept, at)
  BY KeptIs
<1> HIDE DEF kept
<1>3. Len(kept) \in Nat /\ DOMAIN kept = 1 .. Len(kept) /\ DOMAIN s = 1 .. Len(s)
  BY <1>1
<1>4. /\ at \in [1 .. Len(kept) -> 1 .. Len(s)]
      /\ \A i \in 1 .. Len(kept) : kept[i] = s[at[i]] /\ kept[i] \in S
      /\ \A i, j \in 1 .. Len(kept) : i < j => at[i] < at[j]
      /\ \A m \in 1 .. Len(s) : s[m] \in S => \E i \in 1 .. Len(kept) : at[i] = m
  BY <1>2 DEF KeptFrom
<1>5. ASSUME IsInjective(s), NEW i \in DOMAIN kept, NEW j \in DOMAIN kept, kept[i] = kept[j]
      PROVE  i = j
  <2>1. at[i] = at[j]
    BY <1>3, <1>4, <1>5 DEF IsInjective
  <2>2. at[i] \in Int /\ at[j] \in Int /\ i \in Int /\ j \in Int
    BY <1>3, <1>4
  <2>3. ~ (i < j) /\ ~ (j < i)
    BY <1>3, <1>4, <2>1, <2>2
  <2>4. QED
    BY <2>2, <2>3
<1>6. IsInjective(s) => IsInjective(kept)
  BY <1>5 DEF IsInjective
<1>7. \A i \in DOMAIN kept : kept[i] \in S /\ \E m \in DOMAIN s : s[m] = kept[i]
  BY <1>3, <1>4
<1>8. \A m \in DOMAIN s : s[m] \in S => \E i \in DOMAIN kept : kept[i] = s[m]
  BY <1>3, <1>4
<1>9. QED
  BY <1>1, <1>3, <1>6, <1>7, <1>8 DEF kept

\* way goes through I from the least to the greatest.
Through(way, n, I) ==
  /\ way \in [1 .. n -> I]
  /\ \A i, j \in 1 .. n : i < j => way[i] < way[j]
  /\ \A m \in I : \E i \in 1 .. n : way[i] = m

LEMMA ChosenIs ==
  ASSUME NEW X, NEW s \in Seq(X), NEW I \in SUBSET (1 .. Len(s))
  PROVE  /\ Chosen(s, I) \in Seq(X)
         /\ \E way : /\ Through(way, Len(Chosen(s, I)), I)
                    /\ \A n \in 1 .. Len(Chosen(s, I)) : Chosen(s, I)[n] = s[way[n]]
<1> DEFINE ids == [i \in 1 .. Len(s) |-> i]
           places == Kept(ids, I)
           chosen == [n \in DOMAIN places |-> s[places[n]]]
<1>are. Chosen(s, I) = chosen
  BY DEF Chosen
<1>1. Len(s) \in Nat /\ ids \in Seq(Nat) /\ Len(ids) = Len(s) /\ \A i \in 1 .. Len(s) : ids[i] = i
  OBVIOUS
<1> HIDE DEF ids
<1>2. places \in Seq(Nat)
  BY <1>1, KeptIs
<1>3. PICK way : KeptFrom(ids, I, Len(s), places, way)
  BY <1>1, KeptIs
<1> HIDE DEF places
<1>4. Len(places) \in Nat /\ DOMAIN places = 1 .. Len(places)
  BY <1>2
<1>5. /\ way \in [1 .. Len(places) -> 1 .. Len(s)]
      /\ \A i \in 1 .. Len(places) : places[i] = ids[way[i]] /\ places[i] \in I
      /\ \A i, j \in 1 .. Len(places) : i < j => way[i] < way[j]
      /\ \A m \in 1 .. Len(s) : ids[m] \in I => \E i \in 1 .. Len(places) : way[i] = m
  BY <1>3 DEF KeptFrom
<1>6. \A i \in 1 .. Len(places) : places[i] = way[i]
  BY <1>1, <1>5
<1>7. Through(places, Len(places), I)
  <2>1. places \in [1 .. Len(places) -> I]
    BY <1>2, <1>4, <1>5
  <2>2. ASSUME NEW m \in I
        PROVE  \E i \in 1 .. Len(places) : places[i] = m
    BY <1>1, <1>5, <1>6
  <2>3. QED
    BY <1>5, <1>6, <2>1, <2>2 DEF Through
<1>8. /\ chosen \in Seq(X) /\ Len(chosen) = Len(places)
      /\ \A n \in 1 .. Len(places) : chosen[n] = s[places[n]]
  <2>1. \A n \in 1 .. Len(places) : s[places[n]] \in X
    BY <1>1, <1>5
  <2>2. chosen = [n \in 1 .. Len(places) |-> s[places[n]]]
    BY <1>4
  <2>3. QED
    BY <1>4, <2>1, <2>2
<1> HIDE DEF chosen
<1>9. QED
  BY <1>are, <1>7, <1>8

-----------------------------------------------------------------------------
(* The sum of f[x] over the x in a finite set, which MapThenSumSet folds        *)
(* together in an order of its own.                                            *)

\* A family that has the empty set, and every one of its members extended, has
\* every finite set.
LEMMA FamilyInduction ==
  ASSUME NEW S, IsFiniteSet(S), NEW F, {} \in F,
         \A T \in SUBSET S : T \in F => \A x \in S \ T : T \cup {x} \in F
  PROVE  S \in F
<1> DEFINE Bad == {n \in Nat : \E T \in SUBSET S : Cardinality(T) = n /\ T \notin F}
<1>1. ASSUME Bad # {}
      PROVE  FALSE
  <2> DEFINE n == Min(Bad)
  <2>1. n \in Nat /\ n \in Bad /\ \A k \in Bad : n <= k
    BY <1>1, MinIsLeast
  <2>2. PICK T \in SUBSET S : Cardinality(T) = n /\ T \notin F
    BY <2>1
  <2> HIDE DEF n
  <2>3. PICK x \in T : TRUE
    BY <2>2
  <2> DEFINE U == T \ {x}
  <2>4. IsFiniteSet(T)
    BY FS_Subset
  <2>5. U \in SUBSET S /\ x \in S \ U /\ T = U \cup {x}
    OBVIOUS
  <2>6. Cardinality(U) = n - 1 /\ Cardinality(U) \in Nat
    BY <2>2, <2>3, <2>4, FS_RemoveElement, FS_CardinalityType
  <2> HIDE DEF U
  <2>7. U \in F
    <3>1. n - 1 \in Nat /\ n - 1 \notin Bad
      BY <2>1, <2>6
    <3>2. QED
      BY <2>5, <2>6, <3>1
  <2>8. QED
    BY <2>2, <2>5, <2>7
<1>2. IsFiniteSet(S) /\ Cardinality(S) \in Nat
  BY FS_CardinalityType
<1>3. QED
  BY <1>1, <1>2

\* The element a sum over a set takes first.
Picked(S) == CHOOSE o \in S : TRUE

\* g gives every set of the family its total, each from a smaller one.
Sums(f, family, g) ==
  g = [S \in family |-> IF S = {} THEN 0
                        ELSE f[Picked(S)] + g[S \ {Picked(S)}]]
UpTo(S, n) == {T \in SUBSET S : Cardinality(T) <= n}

LEMMA PickedIs ==
  ASSUME NEW S, IsFiniteSet(S), S # {}
  PROVE  /\ Picked(S) \in S
         /\ Cardinality(S) \in Nat /\ Cardinality(S) > 0
         /\ IsFiniteSet(S \ {Picked(S)})
         /\ Cardinality(S \ {Picked(S)}) = Cardinality(S) - 1
<1>1. Picked(S) \in S
  BY DEF Picked
<1>2. Cardinality(S) \in Nat /\ Cardinality(S) # 0
  BY FS_CardinalityType, FS_EmptySet
<1>3. QED
  BY <1>1, <1>2, FS_RemoveElement

\* There are such sums, for the subsets of a finite set.
LEMMA SumsExist ==
  ASSUME NEW f, NEW S, IsFiniteSet(S)
  PROVE  \E g : Sums(f, SUBSET S, g)
<1> DEFINE Bad == {n \in Nat : ~ \E g : Sums(f, UpTo(S, n), g)}
<1>1. ASSUME NEW T \in SUBSET S
      PROVE  IsFiniteSet(T) /\ Cardinality(T) \in Nat
                /\ Cardinality(T) <= Cardinality(S)
  BY FS_Subset, FS_CardinalityType
<1>2. Cardinality(S) \in Nat
  BY FS_CardinalityType
<1>3. ASSUME Bad # {}
      PROVE  FALSE
  <2> DEFINE n == Min(Bad)
  <2>1. n \in Nat /\ n \in Bad /\ \A k \in Bad : n <= k
    BY <1>3, MinIsLeast
  <2>2. CASE n = 0
    <3>1. ASSUME NEW T \in UpTo(S, 0)
          PROVE  T = {}
      BY <1>1, FS_EmptySet DEF UpTo
    <3> DEFINE g == [T \in UpTo(S, 0) |-> 0]
    <3>2. Sums(f, UpTo(S, 0), g)
      BY <3>1 DEF Sums
    <3>3. QED
      BY <2>1, <2>2, <3>2
  <2>3. CASE n # 0
    <3>1. n - 1 \in Nat /\ n - 1 \notin Bad
      BY <2>1, <2>3
    <3>2. PICK g : Sums(f, UpTo(S, n - 1), g)
      BY <3>1
    <3> DEFINE h == [T \in UpTo(S, n) |->
                       IF T = {} THEN 0
                       ELSE f[Picked(T)] + g[T \ {Picked(T)}]]
    <3>3. ASSUME NEW T \in UpTo(S, n), T # {}
          PROVE  h[T \ {Picked(T)}] = g[T \ {Picked(T)}]
      <4> DEFINE U == T \ {Picked(T)}
      <4>1. T \in SUBSET S /\ IsFiniteSet(T) /\ Cardinality(T) <= n
        BY <1>1 DEF UpTo
      <4>2. U \in SUBSET S /\ Cardinality(U) = Cardinality(T) - 1 /\ Cardinality(T) \in Nat
        BY <3>3, <4>1, PickedIs
      <4>3. U \in UpTo(S, n - 1) /\ U \in UpTo(S, n)
        BY <2>1, <4>1, <4>2 DEF UpTo
      <4> HIDE DEF U
      <4>4. QED
        BY <3>2, <4>3 DEF Sums, U
    <3>4. Sums(f, UpTo(S, n), h)
      BY <3>3 DEF Sums
    <3>5. QED
      BY <2>1, <3>4
  <2>4. QED
    BY <2>2, <2>3
<1>4. \E g : Sums(f, UpTo(S, Cardinality(S)), g)
  BY <1>2, <1>3
<1>5. UpTo(S, Cardinality(S)) = SUBSET S
  BY <1>1 DEF UpTo
<1>6. QED
  BY <1>4, <1>5

\* The sums of two finite sets agree wherever both are given.
LEMMA SumsAgree ==
  ASSUME NEW f, NEW S, IsFiniteSet(S), NEW T \in SUBSET S, NEW g, NEW h,
         Sums(f, SUBSET S, g), Sums(f, SUBSET T, h)
  PROVE  g[T] = h[T]
<1> DEFINE Bad == {n \in Nat : \E U \in SUBSET T : Cardinality(U) = n /\ g[U] # h[U]}
<1>1. ASSUME Bad # {}
      PROVE  FALSE
  <2> DEFINE n == Min(Bad)
  <2>1. n \in Nat /\ n \in Bad /\ \A k \in Bad : n <= k
    BY <1>1, MinIsLeast
  <2>2. PICK U \in SUBSET T : Cardinality(U) = n /\ g[U] # h[U]
    BY <2>1
  <2>3. IsFiniteSet(U) /\ U \in SUBSET S
    BY FS_Subset
  <2>4. U # {}
    BY <2>2 DEF Sums
  <2> DEFINE V == U \ {Picked(U)}
  <2> HIDE DEF n
  <2>5. V \in SUBSET T /\ V \in SUBSET S /\ Cardinality(V) = n - 1 /\ n - 1 \in Nat
    <3>1. n > 0 /\ Cardinality(V) = n - 1
      BY <2>2, <2>3, <2>4, PickedIs
    <3>2. QED
      BY <2>1, <3>1
  <2>6. g[V] = h[V]
    BY <2>1, <2>5
  <2>7. g[U] = f[Picked(U)] + g[V] /\ h[U] = f[Picked(U)] + h[V]
    BY <2>3, <2>4 DEF Sums
  <2>8. QED
    BY <2>2, <2>6, <2>7
<1>2. IsFiniteSet(T) /\ Cardinality(T) \in Nat
  BY FS_Subset, FS_CardinalityType
<1>3. QED
  BY <1>1, <1>2

\* Any outpoint may be taken from a total first.
LEMMA SumsTake ==
  ASSUME NEW f, NEW S, IsFiniteSet(S), NEW g, Sums(f, SUBSET S, g),
         \A o \in S : f[o] \in Nat
  PROVE  \A T \in SUBSET S : /\ g[T] \in Nat
                             /\ \A o \in T : g[T] = f[o] + g[T \ {o}]
<1> DEFINE Wrong(T) == ~ (/\ g[T] \in Nat
                          /\ \A o \in T : g[T] = f[o] + g[T \ {o}])
           Bad == {n \in Nat : \E T \in SUBSET S : Cardinality(T) = n /\ Wrong(T)}
<1>1. ASSUME Bad # {}
      PROVE  FALSE
  <2> DEFINE n == Min(Bad)
  <2>1. n \in Nat /\ n \in Bad /\ \A k \in Bad : n <= k
    BY <1>1, MinIsLeast
  <2>2. PICK T \in SUBSET S : Cardinality(T) = n /\ Wrong(T)
    BY <2>1
  <2> HIDE DEF n
  <2>3. IsFiniteSet(T)
    BY FS_Subset
  <2>4. T # {}
    BY <2>2 DEF Sums
  <2> DEFINE c == Picked(T)
  <2>5. /\ c \in T /\ g[T] = f[c] + g[T \ {c}]
        /\ n > 0 /\ Cardinality(T \ {c}) = n - 1
    <3>1. c \in T /\ n > 0 /\ Cardinality(T \ {c}) = n - 1
      BY <2>2, <2>3, <2>4, PickedIs
    <3>2. g[T] = f[c] + g[T \ {c}]
      BY <2>4 DEF Sums
    <3>3. QED
      BY <3>1, <3>2
  <2> HIDE DEF c
  <2>6. ASSUME NEW U \in SUBSET S, Cardinality(U) < n
        PROVE  ~ Wrong(U)
    <3>1. Cardinality(U) \in Nat
      BY FS_Subset, FS_CardinalityType
    <3>2. Cardinality(U) \notin Bad
      <4> HIDE DEF Bad
      <4>1. QED
        BY <2>1, <2>6, <3>1
    <3>3. QED
      BY <3>1, <3>2
  <2>7. T \ {c} \in SUBSET S /\ ~ Wrong(T \ {c})
    <3>1. Cardinality(T \ {c}) < n
      BY <2>1, <2>5
    <3>2. QED
      BY <2>6, <3>1
  <2>8. f[c] \in Nat /\ g[T \ {c}] \in Nat
    BY <2>5, <2>7
  <2>9. g[T] \in Nat
    BY <2>5, <2>8
  <2>10. ASSUME NEW o \in T
         PROVE  g[T] = f[o] + g[T \ {o}]
    <3>1. CASE o = c
      BY <2>5, <3>1
    <3>2. CASE o # c
      <4> DEFINE U == T \ {o}
                 R == (T \ {c}) \ {o}
      <4>1. Cardinality(U) < n /\ U \in SUBSET S
        <5>1. Cardinality(U) = n - 1
          BY <2>2, <2>3, FS_RemoveElement
        <5>2. QED
          BY <2>1, <5>1
      <4>2. ~ Wrong(U)
        BY <2>6, <4>1
      <4>3. c \in U /\ U \ {c} = R
        BY <2>5, <3>2
      <4>4. g[U] = f[c] + g[R]
        BY <4>2, <4>3
      <4>5. g[T \ {c}] = f[o] + g[R]
        BY <2>7, <3>2
      <4>6. R \in SUBSET (T \ {c}) /\ f[o] \in Nat
        OBVIOUS
      <4>7. g[R] \in Nat
        <5>1. R \in SUBSET S /\ R \in SUBSET T /\ c \notin R
          OBVIOUS
        <5>2. Cardinality(R) <= Cardinality(T \ {c})
          BY <2>3, FS_Subset
        <5>3. Cardinality(R) \in Nat
          BY <2>3, FS_Subset, FS_CardinalityType
        <5>4. Cardinality(R) < n
          BY <2>1, <2>5, <5>2, <5>3
        <5>5. ~ Wrong(R)
          BY <2>6, <5>1, <5>4
        <5>6. QED
          BY <5>5
      <4> HIDE DEF U, R
      <4>8. g[T] = f[c] + (f[o] + g[R])
        BY <2>5, <4>5
      <4>9. f[o] + g[U] = f[o] + (f[c] + g[R])
        BY <4>4
      <4>10. QED
        BY <2>8, <4>6, <4>7, <4>8, <4>9 DEF U
    <3>3. QED
      BY <3>1, <3>2
  <2>11. QED
    BY <2>2, <2>9, <2>10
<1>2. ASSUME NEW T \in SUBSET S
      PROVE  Cardinality(T) \in Nat
  BY FS_Subset, FS_CardinalityType
<1>3. ASSUME NEW T \in SUBSET S
      PROVE  ~ Wrong(T)
  BY <1>1, <1>2
<1>4. QED
  BY <1>3

\* What MapThenSumSet adds up.
Sum(f, S) == (CHOOSE g : Sums(f, SUBSET S, g))[S]

LEMMA SumIs ==
  ASSUME NEW f, NEW S, IsFiniteSet(S)
  PROVE  \E g : Sums(f, SUBSET S, g) /\ Sum(f, S) = g[S]
<1> DEFINE iter == CHOOSE g : Sums(f, SUBSET S, g)
<1>1. Sums(f, SUBSET S, iter)
  BY SumsExist
<1>2. QED
  BY <1>1 DEF Sum

\* However the sums are given, they are Sum.
LEMMA SumIsOnly ==
  ASSUME NEW f, NEW S, IsFiniteSet(S), NEW g, Sums(f, SUBSET S, g)
  PROVE  g[S] = Sum(f, S)
<1>1. PICK h : Sums(f, SUBSET S, h) /\ Sum(f, S) = h[S]
  BY SumIs
<1>2. QED
  BY <1>1, SumsAgree

LEMMA SumOfNone == ASSUME NEW f PROVE Sum(f, {}) = 0
<1>1. PICK g : Sums(f, SUBSET {}, g) /\ Sum(f, {}) = g[{}]
  BY SumIs, FS_EmptySet
<1>2. QED
  BY <1>1 DEF Sums

LEMMA SumTake ==
  ASSUME NEW f, NEW S, IsFiniteSet(S), \A o \in S : f[o] \in Nat
  PROVE  /\ Sum(f, S) \in Nat
         /\ \A o \in S : /\ Sum(f, S \ {o}) \in Nat
                         /\ Sum(f, S) = f[o] + Sum(f, S \ {o})
<1>1. PICK g : Sums(f, SUBSET S, g) /\ Sum(f, S) = g[S]
  BY SumIs
<1>2. \A T \in SUBSET S : /\ g[T] \in Nat
                          /\ \A o \in T : g[T] = f[o] + g[T \ {o}]
  <2>1. Sums(f, SUBSET S, g)
    BY <1>1
  <2>2. IsFiniteSet(S) /\ \A o \in S : f[o] \in Nat
    OBVIOUS
  <2>3. ASSUME NEW T \in SUBSET S PROVE g[T] \in Nat
    BY <2>1, <2>2, SumsTake
  <2>4. ASSUME NEW T \in SUBSET S, NEW o \in T PROVE g[T] = f[o] + g[T \ {o}]
    BY <2>1, <2>2, SumsTake
  <2>5. QED
    BY <2>3, <2>4
<1>3. ASSUME NEW o \in S
      PROVE  Sum(f, S \ {o}) = g[S \ {o}]
  <2> DEFINE T == S \ {o}
  <2>1. IsFiniteSet(T) /\ T \in SUBSET S
    BY FS_Subset
  <2> HIDE DEF T
  <2>2. PICK h : Sums(f, SUBSET T, h) /\ Sum(f, T) = h[T]
    BY <2>1, SumIs
  <2>3. g[T] = h[T]
    BY <1>1, <2>1, <2>2, SumsAgree
  <2>4. QED
    BY <2>2, <2>3 DEF T
<1>4. QED
  BY <1>1, <1>2, <1>3

\* Only the values on the set count.
LEMMA SumSame ==
  ASSUME NEW f, NEW h, NEW S, IsFiniteSet(S), \A o \in S : f[o] = h[o]
  PROVE  Sum(f, S) = Sum(h, S)
<1>1. PICK g : Sums(f, SUBSET S, g) /\ Sum(f, S) = g[S]
  BY SumIs
<1>2. PICK k : Sums(h, SUBSET S, k) /\ Sum(h, S) = k[S]
  BY SumIs
<1>3. ASSUME NEW T \in SUBSET S, T # {}
      PROVE  f[Picked(T)] = h[Picked(T)]
  BY <1>3 DEF Picked
<1>4. Sums(h, SUBSET S, g)
  BY <1>1, <1>3 DEF Sums
<1>5. QED
  BY <1>1, <1>2, <1>4, SumsAgree

\* Another element, another summand.
LEMMA SumAdd ==
  ASSUME NEW f, NEW S, IsFiniteSet(S), NEW o, o \notin S,
         \A p \in S \cup {o} : f[p] \in Nat
  PROVE  /\ IsFiniteSet(S \cup {o}) /\ Sum(f, S) \in Nat
         /\ Sum(f, S \cup {o}) = f[o] + Sum(f, S)
<1> DEFINE T == S \cup {o}
<1>1. IsFiniteSet(T) /\ o \in T /\ T \ {o} = S /\ \A p \in T : f[p] \in Nat
  BY FS_AddElement
<1> HIDE DEF T
<1>2. Sum(f, T) = f[o] + Sum(f, T \ {o}) /\ Sum(f, T \ {o}) \in Nat
  BY <1>1, SumTake
<1>3. QED
  BY <1>1, <1>2 DEF T

\* Two sets with nothing in common.
LEMMA SumOfBoth ==
  ASSUME NEW f, NEW S, IsFiniteSet(S), NEW T, IsFiniteSet(T), S \cap T = {},
         \A o \in S \cup T : f[o] \in Nat
  PROVE  /\ IsFiniteSet(S \cup T) /\ Sum(f, S) \in Nat /\ Sum(f, T) \in Nat
         /\ Sum(f, S \cup T) = Sum(f, S) + Sum(f, T)
<1> DEFINE F == {U \in SUBSET T : Sum(f, S \cup U) = Sum(f, S) + Sum(f, U)}
<1>1. Sum(f, S) \in Nat /\ Sum(f, T) \in Nat /\ IsFiniteSet(S \cup T)
  BY SumTake, FS_Union
<1>2. {} \in F
  BY <1>1, SumOfNone
<1>3. ASSUME NEW U \in SUBSET T, U \in F, NEW x \in T \ U
      PROVE  U \cup {x} \in F
  <2>1. IsFiniteSet(U) /\ IsFiniteSet(S \cup U)
    BY FS_Subset, FS_Union
  <2>2. Sum(f, U \cup {x}) = f[x] + Sum(f, U) /\ Sum(f, U) \in Nat
    BY <2>1, SumAdd
  <2> DEFINE V == S \cup U
  <2>3. x \notin V /\ \A p \in V \cup {x} : f[p] \in Nat
    OBVIOUS
  <2>4. IsFiniteSet(V)
    BY <2>1
  <2> HIDE DEF V
  <2>5. Sum(f, V \cup {x}) = f[x] + Sum(f, V)
    BY <2>3, <2>4, SumAdd
  <2>6. S \cup (U \cup {x}) = V \cup {x} /\ Sum(f, V) = Sum(f, S) + Sum(f, U)
    BY <1>3 DEF V
  <2>7. f[x] \in Nat
    OBVIOUS
  <2>8. Sum(f, S \cup (U \cup {x})) = Sum(f, S) + Sum(f, U \cup {x})
    BY <1>1, <2>2, <2>5, <2>6, <2>7
  <2>9. QED
    BY <2>8
<1> HIDE DEF F
<1>4. T \in F
  BY <1>2, <1>3, FamilyInduction
<1>5. QED
  BY <1>1, <1>4 DEF F

\* A part is no more than the whole.
LEMMA SumOfPart ==
  ASSUME NEW f, NEW S, IsFiniteSet(S), NEW T \in SUBSET S, \A o \in S : f[o] \in Nat
  PROVE  /\ IsFiniteSet(T) /\ Sum(f, T) \in Nat /\ Sum(f, S) \in Nat
         /\ Sum(f, T) <= Sum(f, S)
<1> DEFINE R == S \ T
<1>1. IsFiniteSet(T) /\ IsFiniteSet(R) /\ T \cap R = {} /\ S = T \cup R
  BY FS_Subset
<1> HIDE DEF R
<1>2. /\ Sum(f, T) \in Nat /\ Sum(f, R) \in Nat
      /\ Sum(f, T \cup R) = Sum(f, T) + Sum(f, R)
  BY <1>1, SumOfBoth
<1>3. QED
  BY <1>1, <1>2

\* The summands under other names, each under one.
Renames(f, h, name, S) ==
  /\ IsFiniteSet(S) /\ \A o, p \in S : name[o] = name[p] => o = p
  /\ \A o \in S : h[o] \in Nat /\ h[o] = f[name[o]]
Renamed(f, h, name, S) ==
  IsFiniteSet({name[o] : o \in S}) /\ Sum(h, S) = Sum(f, {name[o] : o \in S})

LEMMA SumRenamed ==
  ASSUME NEW f, NEW h, NEW name, NEW S, Renames(f, h, name, S)
  PROVE  Renamed(f, h, name, S)
<1>0. /\ IsFiniteSet(S) /\ \A o, p \in S : name[o] = name[p] => o = p
      /\ \A o \in S : h[o] \in Nat /\ h[o] = f[name[o]]
  BY DEF Renames
<1> DEFINE Names(U) == {name[o] : o \in U}
           F == {U \in SUBSET S : IsFiniteSet(Names(U)) /\ Sum(h, U) = Sum(f, Names(U))}
<1>1. {} \in F
  <2>1. Names({}) = {}
    BY <1>0
  <2>2. QED
    BY <2>1, SumOfNone, FS_EmptySet
<1>2. ASSUME NEW U \in SUBSET S, U \in F, NEW x \in S \ U
      PROVE  U \cup {x} \in F
  <2> DEFINE N == Names(U)
  <2>1. IsFiniteSet(U) /\ h[x] = f[name[x]] /\ \A o \in U \cup {x} : h[o] \in Nat
    BY <1>0, FS_Subset
  <2>2. Sum(h, U \cup {x}) = h[x] + Sum(h, U)
    BY <2>1, SumAdd
  <2>3. Names(U \cup {x}) = N \cup {name[x]} /\ name[x] \notin N
    BY <1>0
  <2>4. \A p \in N \cup {name[x]} : f[p] \in Nat
    BY <1>0
  <2>5. IsFiniteSet(N) /\ Sum(h, U) = Sum(f, N)
    BY <1>2
  <2> HIDE DEF N
  <2>6. IsFiniteSet(N \cup {name[x]}) /\ Sum(f, N \cup {name[x]}) = f[name[x]] + Sum(f, N)
    BY <2>3, <2>4, <2>5, SumAdd
  <2>7. QED
    BY <2>1, <2>2, <2>3, <2>5, <2>6
<1> HIDE DEF F
<1>3. S \in F
  BY <1>0, <1>1, <1>2, FamilyInduction
<1>4. QED
  BY <1>3 DEF F, Renamed

\* Smaller summands, a smaller sum.
LEMMA SumNoMore ==
  ASSUME NEW f, NEW h, NEW S, IsFiniteSet(S),
         \A o \in S : f[o] \in Nat /\ h[o] \in Nat /\ f[o] <= h[o]
  PROVE  Sum(f, S) <= Sum(h, S)
<1> DEFINE F == {U \in SUBSET S : Sum(f, U) <= Sum(h, U)}
<1>1. {} \in F
  BY SumOfNone
<1>2. ASSUME NEW U \in SUBSET S, U \in F, NEW x \in S \ U
      PROVE  U \cup {x} \in F
  <2>1. IsFiniteSet(U)
    BY FS_Subset
  <2>2. Sum(f, U \cup {x}) = f[x] + Sum(f, U) /\ Sum(f, U) \in Nat
    <3>1. \A o \in U \cup {x} : f[o] \in Nat
      OBVIOUS
    <3>2. QED
      BY <2>1, <3>1, SumAdd
  <2>3. Sum(h, U \cup {x}) = h[x] + Sum(h, U) /\ Sum(h, U) \in Nat
    <3>1. \A o \in U \cup {x} : h[o] \in Nat
      OBVIOUS
    <3>2. QED
      BY <2>1, <3>1, SumAdd
  <2>4. Sum(f, U) <= Sum(h, U) /\ f[x] <= h[x] /\ f[x] \in Nat /\ h[x] \in Nat
    BY <1>2
  <2>5. Sum(f, U \cup {x}) <= Sum(h, U \cup {x})
    BY <2>2, <2>3, <2>4
  <2>6. QED
    BY <2>5
<1> HIDE DEF F
<1>3. S \in F
  BY <1>1, <1>2, FamilyInduction
<1>4. QED
  BY <1>3 DEF F

\* A set in parts is summed part by part.
Together(part, U) == UNION {part[u] : u \in U}

InParts(f, A, part, g) ==
  /\ IsFiniteSet(A) /\ \A u \in A : IsFiniteSet(part[u]) /\ g[u] = Sum(f, part[u])
  /\ \A u, w \in A : u # w => part[u] \cap part[w] = {}
  /\ \A u \in A : \A o \in part[u] : f[o] \in Nat
SummedInParts(f, A, part, g) ==
  /\ IsFiniteSet(Together(part, A)) /\ \A u \in A : g[u] \in Nat
  /\ Sum(f, Together(part, A)) = Sum(g, A)

LEMMA SumOfParts ==
  ASSUME NEW f, NEW A, NEW part, NEW g, InParts(f, A, part, g)
  PROVE  SummedInParts(f, A, part, g)
<1>0. /\ IsFiniteSet(A) /\ \A u \in A : IsFiniteSet(part[u]) /\ g[u] = Sum(f, part[u])
      /\ \A u, w \in A : u # w => part[u] \cap part[w] = {}
      /\ \A u \in A : \A o \in part[u] : f[o] \in Nat
  BY DEF InParts
<1> DEFINE Whole(U) == UNION {part[u] : u \in U}
           F == {U \in SUBSET A : IsFiniteSet(Whole(U)) /\ Sum(f, Whole(U)) = Sum(g, U)}
<1>1. \A u \in A : g[u] \in Nat
  BY <1>0, SumTake
<1>2. {} \in F
  <2>1. Whole({}) = {}
    OBVIOUS
  <2>2. QED
    BY <2>1, SumOfNone, FS_EmptySet
<1>3. ASSUME NEW U \in SUBSET A, U \in F, NEW x \in A \ U
      PROVE  U \cup {x} \in F
  <2> DEFINE W == Whole(U)
             P == part[x]
             V == Whole(U \cup {x})
  <2>1. IsFiniteSet(U) /\ \A u \in U \cup {x} : g[u] \in Nat
    BY <1>0, <1>1, FS_Subset
  <2>2. Sum(g, U \cup {x}) = g[x] + Sum(g, U) /\ Sum(g, U) \in Nat
    BY <2>1, SumAdd
  <2>3. V = W \cup P /\ W \cap P = {}
    BY <1>0
  <2>4. \A o \in W \cup P : f[o] \in Nat
    BY <1>0
  <2>5. IsFiniteSet(W) /\ IsFiniteSet(P) /\ Sum(f, W) = Sum(g, U)
    BY <1>0, <1>3
  <2>6. g[x] = Sum(f, P) /\ g[x] \in Nat
    BY <1>0, <1>1
  <2> HIDE DEF W, P, V
  <2>7. IsFiniteSet(W \cup P) /\ Sum(f, W \cup P) = Sum(f, W) + Sum(f, P)
    BY <2>3, <2>4, <2>5, SumOfBoth
  <2>8. IsFiniteSet(V) /\ Sum(f, V) = Sum(g, U \cup {x})
    BY <2>2, <2>3, <2>5, <2>6, <2>7
  <2>9. QED
    BY <2>8 DEF V
<1> HIDE DEF F
<1>4. A \in F
  BY <1>0, <1>2, <1>3, FamilyInduction
<1>5. QED
  BY <1>1, <1>4 DEF F, Together, SummedInParts

-----------------------------------------------------------------------------
(* Apply, captured values and revert.                                          *)

\* The positions that name a key in two lists, one behind the other.
LEMMA TouchesBoth ==
  ASSUME NEW W, NEW first \in Seq(W), NEW second \in Seq(W), NEW k
  PROVE  Touches(first \o second, k)
           = Touches(first, k) \cup {Len(first) + i : i \in Touches(second, k)}
<1> DEFINE both == first \o second
<1>1. /\ both \in Seq(W)
      /\ Len(both) = Len(first) + Len(second)
      /\ Len(first) \in Nat /\ Len(second) \in Nat
      /\ \A i \in 1 .. Len(first) : both[i] = first[i]
      /\ \A i \in 1 .. Len(second) : both[Len(first) + i] = second[i]
  OBVIOUS
<1>2. /\ DOMAIN both = 1 .. Len(first) + Len(second)
      /\ DOMAIN first = 1 .. Len(first) /\ DOMAIN second = 1 .. Len(second)
  BY <1>1
<1> HIDE DEF both
<1>3. ASSUME NEW i \in Touches(both, k)
      PROVE  i \in Touches(first, k) \cup {Len(first) + j : j \in Touches(second, k)}
  <2>1. i \in 1 .. Len(first) + Len(second) /\ both[i].key = k
    BY <1>2 DEF Touches
  <2>2. CASE i <= Len(first)
    BY <1>1, <1>2, <2>1, <2>2 DEF Touches
  <2>3. CASE i > Len(first)
    <3>1. i - Len(first) \in 1 .. Len(second) /\ i = Len(first) + (i - Len(first))
      BY <1>1, <2>1, <2>3
    <3>2. second[i - Len(first)].key = k
      BY <1>1, <2>1, <3>1
    <3>3. i - Len(first) \in Touches(second, k)
      BY <1>2, <3>1, <3>2 DEF Touches
    <3>4. QED
      BY <3>1, <3>3
  <2>4. QED
    BY <1>1, <2>1, <2>2, <2>3
<1>4. ASSUME NEW i \in Touches(first, k)
      PROVE  i \in Touches(both, k)
  <2>1. i \in 1 .. Len(first) /\ first[i].key = k
    BY <1>2 DEF Touches
  <2>2. i \in 1 .. Len(first) + Len(second) /\ both[i].key = k
    BY <1>1, <2>1
  <2>3. QED
    BY <1>2, <2>2 DEF Touches
<1>5. ASSUME NEW j \in Touches(second, k)
      PROVE  Len(first) + j \in Touches(both, k)
  <2>1. j \in 1 .. Len(second) /\ second[j].key = k
    BY <1>2 DEF Touches
  <2>2. Len(first) + j \in 1 .. Len(first) + Len(second) /\ both[Len(first) + j].key = k
    BY <1>1, <2>1
  <2>3. QED
    BY <1>2, <2>2 DEF Touches
<1>6. QED
  BY <1>3, <1>4, <1>5 DEF both

\* Two lists of writes, one behind the other, are applied one after the other.
LEMMA ApplyTwice ==
  ASSUME NEW rec, NEW W, NEW first \in Seq(W), NEW second \in Seq(W)
  PROVE  Apply(rec, first \o second) = Apply(Apply(rec, first), second)
<1> DEFINE both == first \o second
           mid == Apply(rec, first)
<1>1. /\ Len(first) \in Nat /\ Len(second) \in Nat
      /\ DOMAIN first = 1 .. Len(first) /\ DOMAIN second = 1 .. Len(second)
      /\ \A i \in 1 .. Len(first) : both[i] = first[i]
      /\ \A i \in 1 .. Len(second) : both[Len(first) + i] = second[i]
  OBVIOUS
<1>2. DOMAIN mid = DOMAIN rec
  BY DEF Apply
<1>3. ASSUME NEW k \in DOMAIN rec
      PROVE  Apply(rec, both)[k] = Apply(mid, second)[k]
  <2> DEFINE late == Touches(second, k)
             all == Touches(both, k)
  <2>1. all = Touches(first, k) \cup {Len(first) + i : i \in late}
    BY TouchesBoth
  <2>2. late \in SUBSET (1 .. Len(second)) /\ Touches(first, k) \in SUBSET (1 .. Len(first))
    BY <1>1 DEF Touches
  <2> HIDE DEF late, all, both
  <2>3. CASE late = {}
    <3>1. all = Touches(first, k)
      BY <2>1, <2>3
    <3>2. CASE all = {}
      BY <1>2, <2>3, <3>1, <3>2 DEF Apply, late, all
    <3>3. CASE all # {}
      <4>1. Max(all) \in 1 .. Len(first)
        BY <1>1, <2>2, <3>1, <3>3, MaxIsGreatest
      <4>2. both[Max(all)] = first[Max(all)]
        BY <1>1, <4>1
      <4>3. Apply(rec, both)[k] = both[Max(all)].value
        BY <3>3 DEF Apply, all
      <4>4. mid[k] = first[Max(all)].value
        BY <3>1, <3>3 DEF Apply
      <4>5. Apply(mid, second)[k] = mid[k]
        BY <1>2, <2>3 DEF Apply, late
      <4>6. QED
        BY <4>2, <4>3, <4>4, <4>5
    <3>4. QED
      BY <3>2, <3>3
  <2>4. CASE late # {}
    <3> DEFINE m == Max(late)
    <3>1. m \in late /\ \A i \in late : m >= i
      BY <1>1, <2>2, <2>4, MaxIsGreatest
    <3>2. m \in 1 .. Len(second)
      BY <2>2, <3>1
    <3> HIDE DEF m
    <3>3. Len(first) + m \in all
      BY <2>1, <3>1
    <3>4. all \in SUBSET (1 .. Len(first) + Len(second))
      BY <1>1, <2>1, <2>2
    <3>5. Max(all) \in all /\ \A y \in all : Max(all) >= y
      <4>1. Len(first) + Len(second) \in Nat
        BY <1>1
      <4>2. QED
        BY <3>3, <3>4, <4>1, MaxIsGreatest
    <3>6. \A y \in all : Len(first) + m >= y
      <4>1. ASSUME NEW y \in Touches(first, k)
            PROVE  Len(first) + m >= y
        BY <1>1, <2>2, <3>2
      <4>2. ASSUME NEW i \in late
            PROVE  Len(first) + m >= Len(first) + i
        BY <1>1, <2>2, <3>1, <3>2
      <4>3. QED
        BY <2>1, <4>1, <4>2
    <3>7. Max(all) = Len(first) + m
      <4>1. Max(all) \in Int /\ Len(first) + m \in Int
        <5>1. Max(all) \in 1 .. Len(first) + Len(second)
          BY <3>4, <3>5
        <5>2. QED
          BY <1>1, <3>2, <5>1
      <4>2. Len(first) + m >= Max(all) /\ Max(all) >= Len(first) + m
        BY <3>3, <3>5, <3>6
      <4>3. QED
        BY <4>1, <4>2
    <3>8. both[Len(first) + m] = second[m]
      BY <1>1, <3>2
    <3>9. Apply(rec, both)[k] = both[Max(all)].value
      BY <3>3 DEF Apply, all
    <3>10. Apply(mid, second)[k] = second[m].value
      BY <1>2, <2>4 DEF Apply, late, m
    <3>11. QED
      BY <3>7, <3>8, <3>9, <3>10
  <2>5. QED
    BY <2>3, <2>4 DEF both
<1> HIDE DEF both, mid
<1>4. Apply(rec, both) = [k \in DOMAIN rec |-> Apply(rec, both)[k]]
  BY DEF Apply
<1>5. Apply(mid, second) = [k \in DOMAIN rec |-> Apply(mid, second)[k]]
  BY <1>2 DEF Apply
<1>6. QED
  BY <1>3, <1>4, <1>5 DEF both, mid

\* No writes change nothing, and one write sets one key.
LEMMA ApplyNone ==
  ASSUME NEW rec, rec = [k \in DOMAIN rec |-> rec[k]]
  PROVE  Apply(rec, << >>) = rec
BY DEF Apply, Touches

LEMMA ApplyOne ==
  ASSUME NEW rec, NEW write
  PROVE  Apply(rec, <<write>>)
           = [k \in DOMAIN rec |-> IF k = write.key THEN write.value ELSE rec[k]]
<1>1. ASSUME NEW k
      PROVE  Touches(<<write>>, k) = IF k = write.key THEN {1} ELSE {}
  BY DEF Touches
<1>2. Max({1}) = 1
  BY MaxOfTwo
<1>3. ASSUME NEW k \in DOMAIN rec
      PROVE  Apply(rec, <<write>>)[k] = IF k = write.key THEN write.value ELSE rec[k]
  <2>1. CASE k = write.key
    BY <1>1, <1>2, <2>1 DEF Apply
  <2>2. CASE k # write.key
    BY <1>1, <2>2 DEF Apply
  <2>3. QED
    BY <2>1, <2>2
<1>4. Apply(rec, <<write>>) = [k \in DOMAIN rec |-> Apply(rec, <<write>>)[k]]
  BY DEF Apply
<1>5. QED
  BY <1>3, <1>4

\* The captured values are a list as long as the writes, of the same keys.
LEMMA BeforeIsList ==
  ASSUME NEW rec, NEW W, NEW writes \in Seq(W)
  PROVE  /\ Before(rec, writes) \in Seq({Before(rec, writes)[i] : i \in 1 .. Len(writes)})
         /\ Len(Before(rec, writes)) = Len(writes)
         /\ DOMAIN Before(rec, writes) = 1 .. Len(writes)
         /\ \A i \in 1 .. Len(writes) : Before(rec, writes)[i].key = writes[i].key
<1>1. DOMAIN Before(rec, writes) = 1 .. Len(writes)
  BY DEF Before
<1>2. \A i \in 1 .. Len(writes) : Before(rec, writes)[i].key = writes[i].key
  BY DEF Before
<1>3. Before(rec, writes) = [i \in 1 .. Len(writes) |-> Before(rec, writes)[i]]
  BY <1>1 DEF Before
<1>4. Len(writes) \in Nat
  OBVIOUS
<1>5. QED
  BY <1>1, <1>2, <1>3, <1>4

\* What is captured for the first write to a key is what the store held.
LEMMA FirstCapture ==
  ASSUME NEW rec, NEW W, NEW writes \in Seq(W),
         NEW k \in DOMAIN rec,
         NEW i \in 1 .. Len(writes),
         writes[i].key = k,
         \A j \in 1 .. Len(writes) : writes[j].key = k => i <= j
  PROVE  Before(rec, writes)[i].value = rec[k]
<1> DEFINE earlier == SubSeq(writes, 1, i - 1)
<1>1. /\ Len(earlier) = i - 1
      /\ DOMAIN earlier = 1 .. i - 1
      /\ \A j \in 1 .. i - 1 : earlier[j] = writes[j]
  OBVIOUS
<1>2. Touches(earlier, k) = {}
  BY <1>1 DEF Touches
<1>3. Apply(rec, earlier)[k] = rec[k]
  BY <1>2 DEF Apply
<1>4. QED
  BY <1>3 DEF Before

\* Undoing the captured values of a list of writes, on top of those captured
\* earlier, is undoing the earlier ones: it takes the writes back exactly,
\* whichever keys they repeat, create or delete.
THEOREM RevertUndoesApply ==
  ASSUME NEW rec, NEW W, NEW writes \in Seq(W), NEW B, NEW before \in Seq(B)
  PROVE  Revert(Apply(rec, writes), before \o Before(rec, writes))
           = Revert(rec, before)
<1> DEFINE captured == Before(rec, writes)
           both == before \o captured
           left == Apply(rec, writes)
<1>1. /\ DOMAIN both = 1 .. Len(before) + Len(writes)
      /\ Len(before) \in Nat /\ Len(writes) \in Nat
      /\ DOMAIN before = 1 .. Len(before) /\ DOMAIN writes = 1 .. Len(writes)
      /\ \A i \in 1 .. Len(before) : both[i] = before[i]
      /\ \A i \in 1 .. Len(writes) : both[Len(before) + i] = captured[i]
      /\ \A i \in 1 .. Len(writes) : captured[i].key = writes[i].key
  <2> DEFINE C == {captured[i] : i \in 1 .. Len(writes)}
  <2>1. /\ captured \in Seq(C) /\ Len(captured) = Len(writes)
        /\ \A i \in 1 .. Len(writes) : captured[i].key = writes[i].key
    <3>1. Before(rec, writes) \in Seq({Before(rec, writes)[i] : i \in 1 .. Len(writes)})
      BY BeforeIsList
    <3>2. Len(Before(rec, writes)) = Len(writes)
      BY BeforeIsList
    <3>3. \A i \in 1 .. Len(writes) : Before(rec, writes)[i].key = writes[i].key
      BY DEF Before
    <3>4. QED
      BY <3>1, <3>2, <3>3
  <2>2. captured \in Seq(B \cup C) /\ before \in Seq(B \cup C)
    BY <2>1, SeqMonotonic
  <2>3. Len(before) \in Nat /\ Len(writes) \in Nat
        /\ DOMAIN before = 1 .. Len(before) /\ DOMAIN writes = 1 .. Len(writes)
    OBVIOUS
  <2> HIDE DEF C, captured
  <2>4. /\ both \in Seq(B \cup C)
        /\ Len(both) = Len(before) + Len(captured)
        /\ \A i \in 1 .. Len(before) + Len(captured) :
             both[i] = IF i <= Len(before) THEN before[i]
                       ELSE captured[i - Len(before)]
    BY <2>2, ConcatProperties
  <2>5. DOMAIN both = 1 .. Len(both)
    BY <2>4, LenProperties
  <2>6. QED
    BY <2>1, <2>3, <2>4, <2>5
<1>2. DOMAIN left = DOMAIN rec
  BY DEF Apply
<1> HIDE DEF both, captured
<1>3. ASSUME NEW k \in DOMAIN rec
      PROVE  Revert(left, both)[k] = Revert(rec, before)[k]
  <2>1. Touches(before, k) \in SUBSET Nat /\ Touches(both, k) \in SUBSET Nat
        /\ Touches(writes, k) \in SUBSET Nat
    BY <1>1 DEF Touches
  <2>2. CASE Touches(before, k) # {}
    <3> DEFINE m == Min(Touches(before, k))
    <3>1. m \in Touches(before, k) /\ \A n \in Touches(before, k) : m <= n
      BY <2>1, <2>2, MinIsLeast
    <3>2. m \in Touches(both, k) /\ \A n \in Touches(both, k) : m <= n
      <4>1. m \in 1 .. Len(before) /\ before[m].key = k
        BY <3>1, <1>1 DEF Touches
      <4>2. m \in Touches(both, k)
        BY <4>1, <1>1 DEF Touches
      <4>3. ASSUME NEW n \in Touches(both, k)
            PROVE  m <= n
        <5>1. n \in 1 .. Len(before) + Len(writes) /\ both[n].key = k
          BY <1>1 DEF Touches
        <5>2. CASE n \in 1 .. Len(before)
          BY <1>1, <3>1, <5>1, <5>2 DEF Touches
        <5>3. CASE n \notin 1 .. Len(before)
          BY <1>1, <4>1, <5>1, <5>3
        <5>4. QED
          BY <5>2, <5>3
      <4>4. QED
        BY <4>2, <4>3
    <3>3. Min(Touches(both, k)) \in Touches(both, k)
          /\ \A n \in Touches(both, k) : Min(Touches(both, k)) <= n
      BY <2>1, <3>2, MinIsLeast
    <3>4. Min(Touches(both, k)) = m
      BY <2>1, <3>2, <3>3
    <3>5. both[m] = before[m]
      BY <3>1, <1>1 DEF Touches
    <3>6. QED
      BY <1>2, <2>2, <3>2, <3>4, <3>5 DEF Revert
  <2>3. CASE Touches(before, k) = {} /\ Touches(writes, k) # {}
    <3> DEFINE m == Min(Touches(writes, k))
    <3>1. m \in Touches(writes, k) /\ \A n \in Touches(writes, k) : m <= n
      BY <2>1, <2>3, MinIsLeast
    <3>2. m \in 1 .. Len(writes) /\ writes[m].key = k
          /\ \A j \in 1 .. Len(writes) : writes[j].key = k => m <= j
      BY <3>1 DEF Touches
    <3>3. captured[m].value = rec[k]
      BY <3>2, FirstCapture DEF captured
    <3>4. both[Len(before) + m].key = k /\ Len(before) + m \in DOMAIN both
      BY <1>1, <3>2
    <3>5. Len(before) + m \in Touches(both, k)
          /\ \A n \in Touches(both, k) : Len(before) + m <= n
      <4>1. ASSUME NEW n \in Touches(both, k)
            PROVE  Len(before) + m <= n
        <5>1. n \in 1 .. Len(before) + Len(writes) /\ both[n].key = k
          BY <1>1 DEF Touches
        <5>2. CASE n \in 1 .. Len(before)
          BY <1>1, <2>3, <5>1, <5>2 DEF Touches
        <5>3. CASE n \notin 1 .. Len(before)
          <6>1. n - Len(before) \in 1 .. Len(writes) /\ n = Len(before) + (n - Len(before))
            BY <1>1, <5>1, <5>3
          <6>2. writes[n - Len(before)].key = k
            BY <1>1, <5>1, <6>1
          <6>3. m <= n - Len(before)
            BY <3>2, <6>1, <6>2
          <6>4. QED
            BY <1>1, <3>2, <6>1, <6>3
        <5>4. QED
          BY <5>2, <5>3
      <4>2. QED
        BY <3>4, <4>1 DEF Touches
    <3>6. Min(Touches(both, k)) = Len(before) + m
      BY <2>1, <3>2, <3>5, MinIsLeast
    <3>7. Revert(left, both)[k] = both[Len(before) + m].value
      BY <1>2, <3>5, <3>6 DEF Revert
    <3>8. both[Len(before) + m].value = rec[k]
      BY <1>1, <3>2, <3>3
    <3>9. Revert(rec, before)[k] = rec[k]
      BY <2>3 DEF Revert
    <3>10. QED
      BY <3>7, <3>8, <3>9
  <2>4. CASE Touches(before, k) = {} /\ Touches(writes, k) = {}
    <3>1. ASSUME NEW n \in Touches(both, k)
          PROVE  FALSE
      <4>1. n \in 1 .. Len(before) + Len(writes) /\ both[n].key = k
        BY <1>1 DEF Touches
      <4>2. CASE n \in 1 .. Len(before)
        BY <1>1, <2>4, <4>1, <4>2 DEF Touches
      <4>3. CASE n \notin 1 .. Len(before)
        <5>1. n - Len(before) \in 1 .. Len(writes) /\ n = Len(before) + (n - Len(before))
          BY <1>1, <4>1, <4>3
        <5>2. writes[n - Len(before)].key = k
          BY <1>1, <4>1, <5>1
        <5>3. QED
          BY <1>1, <2>4, <5>1, <5>2 DEF Touches
      <4>4. QED
        BY <4>2, <4>3
    <3>2. Touches(both, k) = {}
      BY <3>1
    <3>3. left[k] = rec[k]
      BY <2>4 DEF Apply
    <3>4. QED
      BY <1>2, <2>4, <3>2, <3>3 DEF Revert
  <2>5. QED
    BY <2>2, <2>3, <2>4
<1>4. QED
  BY <1>2, <1>3 DEF Revert, both, captured

\* With nothing captured before: revert takes one list of writes back.
COROLLARY RevertUndoesOne ==
  ASSUME NEW rec, rec = [k \in DOMAIN rec |-> rec[k]],
         NEW W, NEW writes \in Seq(W)
  PROVE  Revert(Apply(rec, writes), Before(rec, writes)) = rec
<1>1. << >> \o Before(rec, writes) = Before(rec, writes)
  BY BeforeIsList, ConcatEmptySeq
<1>2. Revert(rec, << >>) = rec
  BY DEF Revert, Touches
<1>3. << >> \in Seq(W)
  OBVIOUS
<1>4. Revert(Apply(rec, writes), << >> \o Before(rec, writes)) = Revert(rec, << >>)
  BY ZenonT(30), <1>3, RevertUndoesApply
<1>5. QED
  BY <1>1, <1>2, <1>4

=============================================================================
