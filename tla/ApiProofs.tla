----------------------------- MODULE ApiProofs -----------------------------
(* The rate limiter keeps its promises to every client at every rate, and the *)
(* answers of the index routes hold together whatever the writer commits in   *)
(* between their reads.                                                       *)
EXTENDS Api, SequenceTheorems, FiniteSetTheorems, TLAPS

-----------------------------------------------------------------------------
(* Arithmetic.                                                                *)

LEMMA MinOfTwo ==
  ASSUME NEW a \in Int, NEW b \in Int
  PROVE  Min({a, b}) = IF a <= b THEN a ELSE b
<1> DEFINE m == Min({a, b})
<1>1. \E x \in {a, b} : \A y \in {a, b} : x <= y
  OBVIOUS
<1>2. m \in {a, b} /\ \A y \in {a, b} : m <= y
  BY <1>1 DEF Min
<1>3. QED
  BY <1>2

LEMMA MaxOfTwo ==
  ASSUME NEW a \in Int, NEW b \in Int
  PROVE  Max({a, b}) \in Int /\ Max({a, b}) >= a /\ Max({a, b}) >= b
<1> DEFINE m == Max({a, b})
<1>1. \E x \in {a, b} : \A y \in {a, b} : x >= y
  OBVIOUS
<1>2. m \in {a, b} /\ \A y \in {a, b} : m >= y
  BY <1>1 DEF Max
<1>3. QED
  BY <1>2

\* Rounded up: what flows in over the quotient covers the dividend.
LEMMA QuotientCovers ==
  ASSUME NEW d \in Nat \ {0}, NEW x \in Nat
  PROVE  (x + d - 1) \div d \in Int /\ d * ((x + d - 1) \div d) >= x
<1> DEFINE n == x + d - 1
<1>1. n \in Nat
  OBVIOUS
<1>2. n \div d \in Int /\ (n % d) \in 0 .. d - 1 /\ n = d * (n \div d) + (n % d)
  <2> HIDE DEF n
  <2>1. QED
    BY <1>1
<1>3. d * (n \div d) \in Int
  BY <1>2
<1>4. \A q, r \in Int : n = q + r /\ r <= d - 1 => q >= x
  OBVIOUS
<1> HIDE DEF n
<1>5. QED
  BY <1>2, <1>3, <1>4 DEF n

-----------------------------------------------------------------------------
(* The rate limit.                                                            *)

Full == Burst * Cost

LEMMA Numbers ==
  /\ Burst \in Nat \ {0} /\ Cost \in Nat \ {0} /\ Rate \in Nat \ {0}
  /\ Second \in Nat \ {0} /\ Idle \in Nat
  /\ Full \in Nat /\ Cost <= Full /\ Full <= Rate * Idle
<1>1. Burst \in Nat \ {0} /\ Cost \in Nat \ {0} /\ Rate \in Nat \ {0} /\ Second \in Nat \ {0}
  BY RateAssumption
<1>2. \A b, c \in Nat \ {0} : b * c \in Nat /\ c <= b * c
  OBVIOUS
<1>3. QED
  BY <1>1, <1>2, RateAssumption DEF Full

\* A bucket holds at most what it is filled up to, and no less than nothing.
LEMMA RefilledIs ==
  ASSUME LimiterTypeOK, NEW c \in Client
  PROVE  /\ now \in Nat
         /\ Refilled(c) \in 0 .. Full
         /\ buckets[c] = None => Refilled(c) = Full
         /\ buckets[c] # None =>
              LET flowed == buckets[c].tokens + (now - buckets[c].updated) * Rate
              IN  /\ buckets[c].tokens \in 0 .. Full
                  /\ buckets[c].updated \in 0 .. now
                  /\ (now - buckets[c].updated) * Rate \in Nat
                  /\ Refilled(c) = IF Full <= flowed THEN Full ELSE flowed
<1>1. now \in Nat /\ Full \in Nat
  BY Numbers DEF LimiterTypeOK
<1>2. CASE buckets[c] = None
  BY <1>1, <1>2 DEF Refilled, Full
<1>3. CASE buckets[c] # None
  <2> DEFINE t == buckets[c].tokens
             u == buckets[c].updated
             flowed == t + (now - u) * Rate
  <2>1. t \in 0 .. Full /\ u \in 0 .. now
    BY <1>3 DEF LimiterTypeOK, Full
  <2>2. Refilled(c) = Min({Full, flowed})
    BY <1>3 DEF Refilled, Full
  <2> HIDE DEF t, u
  <2>3. \A a, b \in Nat : a * b \in Nat
    OBVIOUS
  <2>4. now - u \in Nat
    BY <1>1, <2>1
  <2>5. (now - u) * Rate \in Nat
    BY <2>3, <2>4, Numbers
  <2>6. flowed \in Nat
    BY <2>1, <2>5
  <2> HIDE DEF flowed
  <2>7. Refilled(c) = IF Full <= flowed THEN Full ELSE flowed
    BY <1>1, <2>2, <2>6, MinOfTwo
  <2>8. Refilled(c) \in 0 .. Full
    BY <1>1, <2>6, <2>7
  <2>9. QED
    BY <1>1, <1>3, <2>1, <2>5, <2>7, <2>8 DEF t, u, flowed
<1>4. QED
  BY <1>2, <1>3

\* A bucket written now holds now what was written; the others are as they were.
LEMMA LeftIs ==
  ASSUME LimiterTypeOK, NEW c \in Client, NEW tokens \in 0 .. Full,
         buckets' = Left(c, tokens), now' = now
  PROVE  /\ buckets' \in [Client -> {None} \cup [tokens : 0 .. Burst * Cost, updated : 0 .. now']]
         /\ Refilled(c)' = tokens
         /\ \A d \in Client : d # c => Refilled(d)' = Refilled(d)
<1> DEFINE b == [tokens |-> tokens, updated |-> now]
<1>1. now \in Nat /\ now \in 0 .. now
  BY DEF LimiterTypeOK
<1>2. b \in [tokens : 0 .. Burst * Cost, updated : 0 .. now]
  BY <1>1 DEF Full
<1>3. b # None
  <2>1. b \in [tokens : Nat, updated : Nat]
    BY <1>1, Numbers
  <2>2. QED
    BY <2>1, RateAssumption
<1>4. buckets' = [buckets EXCEPT ![c] = b]
  BY DEF Left
<1>5. buckets'[c] = b /\ \A d \in Client : d # c => buckets'[d] = buckets[d]
  BY <1>4 DEF LimiterTypeOK
<1>6. buckets' \in [Client -> {None} \cup [tokens : 0 .. Burst * Cost, updated : 0 .. now']]
  BY <1>2, <1>4 DEF LimiterTypeOK
<1>7. Refilled(c)' = Min({Full, tokens + (now - now) * Rate})
  BY <1>3, <1>5 DEF Refilled, Full
<1>8. (now - now) * Rate = 0
  BY <1>1, Numbers
<1>9. Refilled(c)' = tokens
  BY <1>7, <1>8, Numbers, MinOfTwo
<1>10. \A d \in Client : d # c => Refilled(d)' = Refilled(d)
  BY <1>5 DEF Refilled
<1>11. QED
  BY <1>6, <1>9, <1>10

\* What lets nothing through and leaves what the buckets hold alone.
LEMMA LimiterQuiet ==
  ASSUME LimiterIInv, UNCHANGED <<now, granted>>,
         buckets' \in [Client -> {None} \cup [tokens : 0 .. Burst * Cost, updated : 0 .. now']],
         \A c \in Client : Refilled(c)' = Refilled(c),
         promise' \in [Client -> {None} \cup Int],
         PromiseCovered'
  PROVE  LimiterIInv'
<1>1. LimiterTypeOK'
  BY DEF LimiterIInv, LimiterTypeOK
<1>2. Paid'
  BY DEF LimiterIInv, Paid
<1>3. AdmittedWithinRate'
  BY DEF LimiterIInv, AdmittedWithinRate
<1>4. QED
  BY <1>1, <1>2, <1>3 DEF LimiterIInv

LEMMA LimiterInitIInv == LimiterInit => LimiterIInv
<1> SUFFICES ASSUME LimiterInit PROVE LimiterIInv
  OBVIOUS
<1>1. << >> \in Seq(0 .. now) /\ now \in Nat
  BY DEF LimiterInit
<1>2. LimiterTypeOK
  BY <1>1 DEF LimiterInit, LimiterTypeOK
<1>3. \A c \in Client : DOMAIN granted[c] = {}
  <2>1. DOMAIN << >> = {}
    OBVIOUS
  <2>2. QED
    BY <2>1 DEF LimiterInit
<1>4. Paid /\ AdmittedWithinRate
  BY <1>3 DEF Paid, AdmittedWithinRate
<1>5. PromiseCovered
  BY DEF LimiterInit, PromiseCovered
<1>6. QED
  BY <1>2, <1>4, <1>5 DEF LimiterIInv

LEMMA RefuseStep ==
  ASSUME LimiterIInv, NEW c \in Client, Refuse(c)
  PROVE  LimiterIInv'
<1> DEFINE missing == Cost - Refilled(c)
           wait == RetryAfter(missing)
<1>1. LimiterTypeOK /\ PromiseCovered
  BY DEF LimiterIInv
<1>2. Refilled(c) \in 0 .. Full /\ now \in Nat
  BY <1>1, RefilledIs
<1>3. /\ buckets' \in [Client -> {None} \cup [tokens : 0 .. Burst * Cost, updated : 0 .. now']]
      /\ Refilled(c)' = Refilled(c)
      /\ \A d \in Client : d # c => Refilled(d)' = Refilled(d)
  BY <1>1, <1>2, LeftIs DEF Refuse
<1>4. missing \in Nat /\ missing > 0
  BY <1>2, Numbers DEF Refuse
<1>5. wait \in Int /\ wait >= 1 /\ Rate * (wait * Second) >= missing
  <2> DEFINE d == Rate * Second
             w == (missing + d - 1) \div d
  <2>1. d \in Nat \ {0}
    <3>1. \A a, b \in Nat \ {0} : a * b \in Nat \ {0}
      OBVIOUS
    <3>2. QED
      BY <3>1, Numbers
  <2>2. wait = Max({1, w})
    BY DEF RetryAfter
  <2> HIDE DEF missing, d
  <2>3. w \in Int /\ d * w >= missing
    BY <1>4, <2>1, QuotientCovers
  <2> HIDE DEF w, wait
  <2>4. wait \in Int /\ wait >= 1 /\ wait >= w
    <3>1. 1 \in Int /\ w \in Int
      BY <2>3
    <3>2. Max({1, w}) \in Int /\ Max({1, w}) >= 1 /\ Max({1, w}) >= w
      BY <3>1, MaxOfTwo, Zenon
    <3>3. QED
      BY <2>2, <3>2
  <2>5. \A x, y \in Int : x >= y => d * x >= d * y
    <3>1. \A n \in Nat : \A x, y \in Int : x >= y => n * (x - y) >= 0 /\ n * (x - y) = n * x - n * y
      OBVIOUS
    <3>2. \A n \in Nat : \A x \in Int : n * x \in Int
      OBVIOUS
    <3>3. QED
      BY <2>1, <3>1, <3>2
  <2>6. d * wait >= d * w /\ d * wait \in Int /\ d * w \in Int
    BY <2>1, <2>3, <2>4, <2>5
  <2>7. d * wait >= missing
    BY <1>4, <2>3, <2>6
  <2>8. \A x, y, z \in Int : (x * y) * z = x * (z * y)
    OBVIOUS
  <2>9. d * wait = Rate * (wait * Second)
    BY <2>4, <2>8, Numbers DEF d
  <2>10. QED
    BY <2>4, <2>7, <2>9
<1>6. /\ promise' = [promise EXCEPT ![c] = now + wait * Second]
      /\ UNCHANGED <<now, granted>>
  BY DEF Refuse
<1> HIDE DEF wait
<1>7. wait * Second \in Nat /\ wait * Second > 0
  <2>1. \A a, b \in Nat \ {0} : a * b \in Nat \ {0}
    OBVIOUS
  <2>2. wait \in Nat \ {0}
    BY <1>5
  <2>3. QED
    BY <2>1, <2>2, Numbers
<1>8. promise' \in [Client -> {None} \cup Int]
  BY <1>1, <1>2, <1>6, <1>7 DEF LimiterTypeOK
<1>9. PromiseCovered'
  <2>1. ASSUME NEW d \in Client, d # c, promise'[d] # None
        PROVE  \/ Refilled(d)' >= Cost
               \/ now' < promise'[d] /\ Refilled(d)' + Rate * (promise'[d] - now') >= Cost
    BY <1>1, <1>3, <1>6, <2>1 DEF PromiseCovered, LimiterTypeOK
  <2>2. now' < promise'[c] /\ Refilled(c)' + Rate * (promise'[c] - now') >= Cost
    <3>1. promise'[c] = now + wait * Second /\ now' = now
      BY <1>1, <1>6 DEF LimiterTypeOK
    <3>2. now < promise'[c] /\ promise'[c] - now = wait * Second
      BY <1>2, <1>7, <3>1
    <3>3. Rate * (promise'[c] - now) >= Cost - Refilled(c)
      BY <1>5, <3>2
    <3>4. Rate * (promise'[c] - now) \in Int
      BY <1>7, <3>2, Numbers
    <3>5. QED
      BY <1>2, <1>3, <3>1, <3>2, <3>3, <3>4, Numbers
  <2>3. QED
    BY <2>1, <2>2 DEF PromiseCovered
<1>10. QED
  BY <1>3, <1>6, <1>8, <1>9, LimiterQuiet

\* A bucket idle for so long has filled up: forgetting it changes nothing.
LEMMA SweepStep ==
  ASSUME LimiterIInv, Sweep
  PROVE  LimiterIInv'
<1>1. LimiterTypeOK /\ PromiseCovered
  BY DEF LimiterIInv
<1>2. /\ UNCHANGED <<now, granted, promise>>
      /\ \A c \in Client : buckets'[c] =
           IF buckets[c] # None /\ buckets[c].updated < now - Idle THEN None ELSE buckets[c]
  BY DEF Sweep
<1>3. buckets' \in [Client -> {None} \cup [tokens : 0 .. Burst * Cost, updated : 0 .. now']]
  BY <1>1, <1>2 DEF Sweep, LimiterTypeOK
<1>4. ASSUME NEW c \in Client
      PROVE  Refilled(c)' = Refilled(c)
  <2>1. CASE buckets[c] # None /\ buckets[c].updated < now - Idle
    <3> DEFINE u == buckets[c].updated
               t == buckets[c].tokens
    <3>1. /\ t \in 0 .. Full /\ u \in 0 .. now /\ now \in Nat
          /\ (now - u) * Rate \in Nat
          /\ Refilled(c) = IF Full <= t + (now - u) * Rate THEN Full ELSE t + (now - u) * Rate
      BY <1>1, <2>1, RefilledIs
    <3>2. now - u >= Idle /\ now - u \in Nat
      BY <2>1, <3>1, Numbers
    <3>3. \A x, y, r \in Nat : x >= y => x * r >= r * y /\ r * y \in Nat
      OBVIOUS
    <3>4. (now - u) * Rate >= Rate * Idle /\ Rate * Idle \in Nat
      BY <3>2, <3>3, Numbers
    <3> HIDE DEF u, t
    <3>5. Full <= t + (now - u) * Rate
      BY <3>1, <3>4, Numbers
    <3>6. Refilled(c) = Full
      BY <3>1, <3>5
    <3>7. buckets'[c] = None
      BY <1>2, <2>1
    <3>8. QED
      BY <3>6, <3>7 DEF Refilled, Full
  <2>2. CASE ~ (buckets[c] # None /\ buckets[c].updated < now - Idle)
    <3>1. buckets'[c] = buckets[c] /\ now' = now
      BY <1>2, <2>2
    <3>2. QED
      BY <3>1 DEF Refilled
  <2>3. QED
    BY <2>1, <2>2
<1>5. PromiseCovered'
  BY <1>1, <1>2, <1>4 DEF PromiseCovered
<1>6. promise' \in [Client -> {None} \cup Int]
  BY <1>1, <1>2 DEF LimiterTypeOK
<1>7. QED
  BY <1>2, <1>3, <1>4, <1>5, <1>6, LimiterQuiet

\* A request let through is paid for out of the bucket.
LEMMA AdmitStep ==
  ASSUME LimiterIInv, NEW c \in Client, Admit(c)
  PROVE  LimiterIInv'
<1> DEFINE s == granted[c]
           t == granted'[c]
<1>1. LimiterTypeOK /\ Paid /\ AdmittedWithinRate /\ PromiseCovered
  BY DEF LimiterIInv
<1>2. Refilled(c) \in 0 .. Full /\ Refilled(c) >= Cost /\ now \in Nat
  BY <1>1, RefilledIs DEF Admit
<1>3. Refilled(c) - Cost \in 0 .. Full
  BY <1>2, Numbers
<1>4. /\ buckets' \in [Client -> {None} \cup [tokens : 0 .. Burst * Cost, updated : 0 .. now']]
      /\ Refilled(c)' = Refilled(c) - Cost
      /\ \A d \in Client : d # c => Refilled(d)' = Refilled(d)
  BY <1>1, <1>3, LeftIs DEF Admit
<1>5. /\ granted' = [granted EXCEPT ![c] = Append(s, now)]
      /\ promise' = [promise EXCEPT ![c] = None]
      /\ now' = now
  BY DEF Admit
<1>6. /\ s \in Seq(0 .. now)
      /\ t = Append(s, now)
      /\ \A d \in Client : d # c => granted'[d] = granted[d]
      /\ granted' \in [Client -> Seq(0 .. now')]
  <2>1. s \in Seq(0 .. now) /\ now \in 0 .. now
    BY <1>1, <1>2 DEF LimiterTypeOK
  <2>2. Append(s, now) \in Seq(0 .. now)
    BY <2>1, AppendProperties
  <2>3. QED
    BY <1>1, <1>5, <2>1, <2>2 DEF LimiterTypeOK
<1>7. LimiterTypeOK'
  BY <1>1, <1>2, <1>4, <1>5, <1>6 DEF LimiterTypeOK
<1> HIDE DEF t
<1>8. \E n \in Nat : /\ n = Len(s) /\ Len(t) = n + 1
                     /\ DOMAIN s = 1 .. n /\ DOMAIN t = 1 .. n + 1
                     /\ \A i \in 1 .. n : t[i] = s[i] /\ s[i] \in 0 .. now
                     /\ t[n + 1] = now
  <2>1. /\ t \in Seq(0 .. now) /\ Len(t) = Len(s) + 1 /\ Len(s) \in Nat
        /\ \A i \in 1 .. Len(s) : t[i] = s[i]
        /\ t[Len(s) + 1] = now
    BY <1>2, <1>6, AppendProperties, LenProperties
  <2>2. QED
    BY <1>6, <2>1, LenProperties, ElementOfSeq
<1>9. PICK n \in Nat : /\ n = Len(s) /\ Len(t) = n + 1
                       /\ DOMAIN s = 1 .. n /\ DOMAIN t = 1 .. n + 1
                       /\ \A i \in 1 .. n : t[i] = s[i] /\ s[i] \in 0 .. now
                       /\ t[n + 1] = now
  BY <1>8
\* What holds of the bucket and the requests before, instantiated.
<1>10. ASSUME NEW i \in 1 .. n
       PROVE  (n - i + 1) * Cost + Refilled(c) <= Full + Rate * (now - s[i])
  BY <1>1, <1>9 DEF Paid, Full
<1>11. ASSUME NEW i \in 1 .. n
       PROVE  /\ Rate * (now - s[i]) \in Int
              /\ (n - i + 1) * Cost \in Int
              /\ (n + 1 - i + 1) * Cost = (n - i + 1) * Cost + Cost
  <2>1. now - s[i] \in Int
    BY <1>2, <1>9
  <2>2. \A a, b \in Int : a * b \in Int /\ (a + 1) * b = a * b + b
    OBVIOUS
  <2>3. n - i + 1 \in Int /\ n + 1 - i + 1 = (n - i + 1) + 1
    OBVIOUS
  <2>4. QED
    BY <2>1, <2>2, <2>3, Numbers
<1>12. /\ (n + 1 - (n + 1) + 1) * Cost = Cost
       /\ Rate * (now - now) = 0
  BY <1>2, Numbers
<1>13. \A i \in 1 .. n + 1 : i \in 1 .. n \/ i = n + 1
  OBVIOUS
<1>14. Paid'
  <2>1. ASSUME NEW i \in 1 .. n
        PROVE  (n + 1 - i + 1) * Cost + (Refilled(c) - Cost) <= Full + Rate * (now - s[i])
    BY <1>2, <1>10, <1>11, Numbers
  <2>2. (n + 1 - (n + 1) + 1) * Cost + (Refilled(c) - Cost) <= Full + Rate * (now - now)
    BY <1>2, <1>12, Numbers
  <2>3. ASSUME NEW i \in DOMAIN t
        PROVE  (Len(t) - i + 1) * Cost + Refilled(c)' <= Full + Rate * (now' - t[i])
    <3>1. CASE i \in 1 .. n
      BY SMTT(20), <1>4, <1>5, <1>9, <2>1, <3>1
    <3>2. CASE i = n + 1
      BY <1>4, <1>5, <1>9, <2>2, <3>2
    <3>3. QED
      BY <1>9, <1>13, <3>1, <3>2
  <2>4. ASSUME NEW d \in Client, d # c
        PROVE  \A i \in DOMAIN granted'[d] :
                 (Len(granted'[d]) - i + 1) * Cost + Refilled(d)'
                   <= Full + Rate * (now' - granted'[d][i])
    BY <1>1, <1>4, <1>5, <1>6, <2>4 DEF Paid, Full
  <2>5. QED
    BY <2>3, <2>4 DEF Paid, Full, t
<1>15. AdmittedWithinRate'
  <2>1. ASSUME NEW i \in 1 .. n, NEW j \in 1 .. n, i <= j
        PROVE  (j - i + 1) * Cost <= Full + Rate * (s[j] - s[i])
    BY <1>1, <1>9, <2>1 DEF AdmittedWithinRate, Full
  <2>2. ASSUME NEW i \in 1 .. n
        PROVE  (n + 1 - i + 1) * Cost <= Full + Rate * (now - s[i])
    BY <1>2, <1>10, <1>11, Numbers
  <2>3. (n + 1 - (n + 1) + 1) * Cost <= Full + Rate * (now - now)
    BY <1>12, Numbers
  <2>4. ASSUME NEW i \in DOMAIN t, NEW j \in DOMAIN t, i <= j
        PROVE  (j - i + 1) * Cost <= Full + Rate * (t[j] - t[i])
    <3>1. CASE j \in 1 .. n
      <4>1. i \in 1 .. n
        BY <1>9, <2>4, <3>1
      <4>2. QED
        BY <1>9, <2>1, <2>4, <3>1, <4>1
    <3>2. CASE j = n + 1 /\ i \in 1 .. n
      BY <1>9, <2>2, <3>2
    <3>3. CASE j = n + 1 /\ i = n + 1
      BY <1>9, <2>3, <3>3
    <3>4. QED
      BY <1>9, <1>13, <3>1, <3>2, <3>3
  <2>5. ASSUME NEW d \in Client, d # c
        PROVE  \A i, j \in DOMAIN granted'[d] :
                 i <= j => (j - i + 1) * Cost
                             <= Full + Rate * (granted'[d][j] - granted'[d][i])
    BY <1>1, <1>6, <2>5 DEF AdmittedWithinRate, Full
  <2>6. QED
    BY <2>4, <2>5 DEF AdmittedWithinRate, Full, t
<1>16. PromiseCovered'
  BY <1>1, <1>4, <1>5 DEF PromiseCovered, LimiterTypeOK
<1>17. QED
  BY <1>7, <1>14, <1>15, <1>16 DEF LimiterIInv

\* A tick's inflow, as far as there is room for it.
LEMMA TickFlows ==
  ASSUME LimiterTypeOK, Tick, NEW c \in Client
  PROVE  /\ Refilled(c)' \in 0 .. Full
         /\ Refilled(c)' = IF Full <= Refilled(c) + Rate THEN Full ELSE Refilled(c) + Rate
<1>1. now \in Nat /\ now' = now + 1 /\ buckets' = buckets
  BY DEF Tick, LimiterTypeOK
<1>2. Refilled(c) \in 0 .. Full
  BY RefilledIs
<1>3. CASE buckets[c] = None
  <2>1. Refilled(c) = Full /\ Refilled(c)' = Full
    BY <1>1, <1>3 DEF Refilled, Full
  <2>2. QED
    BY <2>1, Numbers
<1>4. CASE buckets[c] # None
  <2> DEFINE u == buckets[c].updated
             t == buckets[c].tokens
             flowed == t + (now - u) * Rate
  <2>1. /\ t \in 0 .. Full /\ u \in 0 .. now
        /\ (now - u) * Rate \in Nat
        /\ Refilled(c) = IF Full <= flowed THEN Full ELSE flowed
    BY <1>4, RefilledIs
  <2>2. Refilled(c)' = Min({Full, t + (now' - u) * Rate})
    BY <1>1, <1>4 DEF Refilled, Full
  <2>3. (now' - u) * Rate = (now - u) * Rate + Rate
    <3>1. \A a, b \in Int : (a + 1) * b = a * b + b
      OBVIOUS
    <3>2. now' - u = (now - u) + 1 /\ now - u \in Int
      BY <1>1, <2>1
    <3>3. QED
      BY <3>1, <3>2, Numbers
  <2> DEFINE x == (now - u) * Rate
  <2>4. Refilled(c)' = Min({Full, t + (x + Rate)}) /\ x \in Nat
    BY <2>1, <2>2, <2>3
  <2>5. Refilled(c) = IF Full <= t + x THEN Full ELSE t + x
    BY <2>1
  <2> HIDE DEF x, t, u
  <2>6. t + (x + Rate) \in Nat
    BY <2>1, <2>4, Numbers
  <2>7. Refilled(c)' = IF Full <= t + (x + Rate) THEN Full ELSE t + (x + Rate)
    BY <2>4, <2>6, Numbers, MinOfTwo
  <2>8. QED
    BY <2>1, <2>4, <2>5, <2>7, Numbers
<1>5. QED
  BY <1>3, <1>4

LEMMA TickStep ==
  ASSUME LimiterIInv, Tick
  PROVE  LimiterIInv'
<1>1. LimiterTypeOK /\ Paid /\ AdmittedWithinRate /\ PromiseCovered
  BY DEF LimiterIInv
<1>2. now \in Nat /\ now' = now + 1 /\ UNCHANGED <<buckets, granted, promise>>
  BY <1>1 DEF Tick, LimiterTypeOK
<1>3. 0 .. now \subseteq 0 .. now'
  BY <1>2
<1>4. LimiterTypeOK'
  <2>1. \A c \in Client : granted[c] \in Seq(0 .. now')
    BY <1>1, <1>3, SeqMonotonic DEF LimiterTypeOK
  <2>2. granted' \in [Client -> Seq(0 .. now')]
    BY <1>1, <1>2, <2>1 DEF LimiterTypeOK
  <2>3. buckets' \in [Client -> {None} \cup [tokens : 0 .. Burst * Cost, updated : 0 .. now']]
    BY <1>1, <1>2, <1>3 DEF LimiterTypeOK
  <2>4. QED
    BY <1>1, <1>2, <2>2, <2>3 DEF LimiterTypeOK
<1>5. ASSUME NEW c \in Client
      PROVE  /\ Refilled(c) \in 0 .. Full /\ Refilled(c)' \in 0 .. Full
             /\ Refilled(c)' = IF Full <= Refilled(c) + Rate THEN Full ELSE Refilled(c) + Rate
  BY <1>1, RefilledIs, TickFlows
<1>6. \A x, r \in Int : r * (x + 1) = r * x + r /\ r * x \in Int
  OBVIOUS
<1>7. Paid'
  <2>1. SUFFICES ASSUME NEW c \in Client, NEW i \in DOMAIN granted[c]
                 PROVE  (Len(granted[c]) - i + 1) * Cost + Refilled(c)'
                          <= Full + Rate * (now' - granted[c][i])
    BY <1>2 DEF Paid, Full
  <2> DEFINE g == granted[c][i]
             spent == (Len(granted[c]) - i + 1) * Cost
  <2>2. granted[c] \in Seq(0 .. now)
    BY <1>1 DEF LimiterTypeOK
  <2>3. Len(granted[c]) \in Nat /\ i \in Nat /\ g \in 0 .. now
    <3>1. Len(granted[c]) \in Nat /\ i \in 1 .. Len(granted[c])
      BY <2>1, <2>2, LenProperties
    <3>2. g \in 0 .. now
      BY <2>2, <3>1, ElementOfSeq
    <3>3. QED
      BY <3>1, <3>2
  <2>4. spent + Refilled(c) <= Full + Rate * (now - g)
    BY <1>1 DEF Paid, Full
  <2>5. spent \in Int
    <3>1. Len(granted[c]) - i + 1 \in Int
      BY <2>3
    <3>2. \A a, b \in Int : a * b \in Int
      OBVIOUS
    <3>3. QED
      BY <3>1, <3>2, Numbers
  <2> HIDE DEF g, spent
  <2>6. now - g \in Int /\ now' - g = (now - g) + 1
    BY <1>2, <2>3
  <2>7. Rate * (now' - g) = Rate * (now - g) + Rate /\ Rate * (now - g) \in Int
    BY <1>6, <2>6, Numbers
  <2>8. Refilled(c)' <= Refilled(c) + Rate
    BY <1>5, Numbers
  <2>9. spent + Refilled(c)' <= Full + Rate * (now' - g)
    BY <1>5, <2>4, <2>5, <2>7, <2>8, Numbers
  <2>10. QED
    BY <2>9 DEF g, spent
<1>8. AdmittedWithinRate'
  BY <1>1, <1>2 DEF AdmittedWithinRate
<1>9. PromiseCovered'
  <2>1. SUFFICES ASSUME NEW c \in Client, promise[c] # None
                 PROVE  \/ Refilled(c)' >= Cost
                        \/ now' < promise[c] /\ Refilled(c)' + Rate * (promise[c] - now') >= Cost
    BY <1>2 DEF PromiseCovered
  <2>2. \/ Refilled(c) >= Cost
        \/ now < promise[c] /\ Refilled(c) + Rate * (promise[c] - now) >= Cost
    BY <1>1, <2>1 DEF PromiseCovered
  <2>3. CASE Full <= Refilled(c) + Rate
    BY <1>5, <2>3, Numbers
  <2>4. CASE ~ (Full <= Refilled(c) + Rate)
    <3>1. Refilled(c)' = Refilled(c) + Rate
      BY <1>5, <2>4
    <3>2. CASE Refilled(c) >= Cost
      BY <1>5, <3>1, <3>2, Numbers
    <3>3. CASE now < promise[c] /\ Refilled(c) + Rate * (promise[c] - now) >= Cost
      <4>1. promise[c] \in Int
        BY <1>1, <2>1 DEF LimiterTypeOK
      <4>2. promise[c] - now' \in Int /\ promise[c] - now = (promise[c] - now') + 1
        BY <1>2, <4>1
      <4>3. Rate * (promise[c] - now) = Rate * (promise[c] - now') + Rate
            /\ Rate * (promise[c] - now') \in Int
        BY <1>6, <4>2, Numbers
      <4>4. Refilled(c)' + Rate * (promise[c] - now') >= Cost
        BY <1>5, <3>1, <3>3, <4>3, Numbers
      <4>5. CASE now' < promise[c]
        BY <4>4, <4>5
      <4>6. CASE ~ (now' < promise[c])
        <5>1. promise[c] - now' = 0
          BY <1>2, <3>3, <4>1, <4>6
        <5>2. Rate * 0 = 0
          BY Numbers
        <5>3. QED
          BY <1>5, <4>4, <5>1, <5>2
      <4>7. QED
        BY <4>5, <4>6
    <3>4. QED
      BY <2>2, <3>2, <3>3
  <2>5. QED
    BY <2>3, <2>4
<1>10. QED
  BY <1>4, <1>7, <1>8, <1>9 DEF LimiterIInv

-----------------------------------------------------------------------------
(* The index routes.                                                          *)

\* What ReadsHoldTogether says of an answer a to the request r.
Together(r, a) ==
  /\ r.route = "token" /\ "notFound" \in DOMAIN a => \E s \in r.window : s.supply = 0
  /\ r.route # "token" /\ "notFound" \in DOMAIN a =>
       \E s \in r.window : ~s.utxo /\ s.spentIn = Nobody
  /\ a = [spent |-> FALSE] \/ ("unspent" \in DOMAIN a /\ a.unspent) =>
       \E s \in r.window : s.utxo
  /\ "spentIn" \in DOMAIN a => \E s \in r.window : s.spentIn = a.spentIn
  /\ Cardinality(r.window) = 1 =>
       /\ "supply" \in DOMAIN a => a.circulating <= a.supply
       /\ "unspent" \in DOMAIN a => (a.unspent <=> a.spentIn = Nobody)

LEMMA TogetherIs ==
  ASSUME NEW r, NEW a, ~ r.undone => Together(r, a),
         answers' = [request |-> r, answer |-> a]
  PROVE  ReadsHoldTogether'
BY DEF ReadsHoldTogether, Together

\* An answer told the caller stays what it was.
LEMMA AnswersSame ==
  ASSUME ReadsHoldTogether, answers' \in {answers, Nobody}
  PROVE  ReadsHoldTogether'
<1>1. CASE answers' = Nobody
  BY <1>1 DEF ReadsHoldTogether
<1>2. CASE answers' = answers
  BY <1>2 DEF ReadsHoldTogether
<1>3. QED
  BY <1>1, <1>2

LEMMA DatabaseIs ==
  ASSUME NEW s \in Database
  PROVE  /\ s \in [utxo : BOOLEAN, spentIn : Spender \cup {Nobody}, supply : Nat, held : Nat]
         /\ s.utxo => s.spentIn = Nobody
         /\ s.held <= s.supply
BY DEF Database

LEMMA ReaderInitIInv == ReaderInit => ReaderIInv
<1> SUFFICES ASSUME ReaderInit PROVE ReaderIInv
  OBVIOUS
<1>1. Empty \in Database
  BY DEF Empty, Database
<1>2. << >> \in Seq(Database)
  OBVIOUS
<1>3. QED
  BY <1>1, <1>2 DEF ReaderInit, ReaderIInv, ReadsHoldTogether

\* The writer moves the database while a request lasts.
LEMMA WriterMoves ==
  ASSUME ReaderIInv, NEW undone \in BOOLEAN,
         db' \in Database, past' \in Seq(Database),
         ~ undone /\ db.spentIn # Nobody => db'.spentIn = db.spentIn,
         reading' = Noticed(undone), answers' = answers
  PROVE  ReaderIInv'
<1>1. CASE reading = Nobody
  BY <1>1, AnswersSame DEF ReaderIInv, Noticed
<1>2. ASSUME reading # Nobody, NEW r, r = reading'
      PROVE  ReaderIInv'
  <2>1. ReadingOK(reading)
    BY <1>2 DEF ReaderIInv
  <2>2. r = [reading EXCEPT !.window = @ \cup {db'}, !.undone = @ \/ undone]
    BY <1>2 DEF Noticed
  <2>3. /\ DOMAIN r = {"route", "first", "window", "undone"}
        /\ r.route = reading.route /\ r.first = reading.first
        /\ r.window = reading.window \cup {db'}
        /\ r.undone = (reading.undone \/ undone)
    BY <2>1, <2>2 DEF ReadingOK
  <2>4. IsFiniteSet(r.window)
    BY <2>1, <2>3, FS_AddElement DEF ReadingOK
  <2>5. PICK s \in reading.window : FirstReadWas(reading, s)
    BY <2>1 DEF ReadingOK
  <2>6. s \in r.window /\ s \in Database /\ s[FirstRead(r.route)] = r.first
    BY <2>3, <2>5 DEF FirstReadWas
  <2>7. ~r.undone /\ s.spentIn # Nobody => db'.spentIn = s.spentIn
    BY <2>3, <2>5 DEF FirstReadWas
  <2>8. /\ db' \in r.window
        /\ r.route \in Routes
    BY <2>1, <2>3 DEF ReadingOK
  <2>9. ReadingOK(reading)'
    BY <1>2, <2>3, <2>4, <2>6, <2>7, <2>8 DEF ReadingOK, FirstReadWas
  <2>10. QED
    BY <2>9, AnswersSame DEF ReaderIInv
<1>3. QED
  BY <1>1, <1>2

\* A commit that forgets no spend.
LEMMA CommitsStep ==
  ASSUME ReaderIInv, NEW to \in Database,
         db.spentIn # Nobody => to.spentIn = db.spentIn, Commits(to)
  PROVE  ReaderIInv'
<1>1. /\ db' = to /\ past' = Append(past, db)
      /\ reading' = Noticed(FALSE) /\ answers' = answers
  BY DEF Commits
<1>2. past' \in Seq(Database)
  BY <1>1, AppendProperties DEF ReaderIInv
<1>3. QED
  BY <1>1, <1>2, WriterMoves

LEMMA WritesStep ==
  ASSUME ReaderIInv, Writes
  PROVE  ReaderIInv'
<1>1. /\ db \in Database
      /\ db \in [utxo : BOOLEAN, spentIn : Spender \cup {Nobody}, supply : Nat, held : Nat]
      /\ db.utxo => db.spentIn = Nobody
      /\ db.held <= db.supply
  BY DatabaseIs DEF ReaderIInv
<1>2. CASE Creates
  <2> DEFINE to == [db EXCEPT !.utxo = TRUE, !.supply = 1, !.held = 1]
  <2>1. db = Empty /\ Commits(to)
    BY <1>2 DEF Creates
  <2>2. db.spentIn = Nobody
    BY <2>1 DEF Empty
  <2>3. 1 \in Nat
    OBVIOUS
  <2>4. /\ to \in [utxo : BOOLEAN, spentIn : Spender \cup {Nobody}, supply : Nat, held : Nat]
        /\ to.spentIn = db.spentIn /\ to.held = 1 /\ to.supply = 1
    BY <1>1, <2>3
  <2> HIDE DEF to
  <2>5. to \in Database
    BY <2>2, <2>4 DEF Database
  <2>6. QED
    BY <2>1, <2>2, <2>5, CommitsStep
<1>3. ASSUME NEW tx \in Spender, NEW held \in {0, db.held}, Spends(tx, held)
      PROVE  ReaderIInv'
  <2> DEFINE to == [db EXCEPT !.utxo = FALSE, !.spentIn = tx, !.held = held]
  <2>1. Commits(to) /\ db.spentIn = Nobody
    BY <1>1, <1>3 DEF Spends
  <2>2. held \in Nat /\ held <= db.supply
    BY <1>1
  <2>3. to \in Database
    BY <1>1, <2>2 DEF Database
  <2> HIDE DEF to
  <2>4. QED
    BY <2>1, <2>3, CommitsStep
<1>4. CASE Mints
  <2> DEFINE to == [db EXCEPT !.supply = @ + 1, !.held = @ + 1]
  <2>1. Commits(to)
    BY <1>4 DEF Mints
  <2>2. to = [db EXCEPT !.supply = db.supply + 1, !.held = db.held + 1]
    OBVIOUS
  <2>3. db.supply + 1 \in Nat /\ db.held + 1 \in Nat /\ db.held + 1 <= db.supply + 1
    BY <1>1
  <2> HIDE DEF to
  <2>4. /\ to \in [utxo : BOOLEAN, spentIn : Spender \cup {Nobody}, supply : Nat, held : Nat]
        /\ to.utxo = db.utxo /\ to.spentIn = db.spentIn
        /\ to.held <= to.supply
    BY <1>1, <2>2, <2>3
  <2>5. to \in Database
    BY <1>1, <2>4 DEF Database
  <2>6. QED
    BY <2>1, <2>4, <2>5, CommitsStep
<1>5. ASSUME NEW n \in DOMAIN past, TakesBack(n)
      PROVE  ReaderIInv'
  <2>1. /\ db' = past[n] /\ past' = SubSeq(past, 1, n - 1)
        /\ reading' = Noticed(TRUE) /\ answers' = answers
    BY <1>5 DEF TakesBack
  <2>2. past \in Seq(Database) /\ n \in 1 .. Len(past) /\ Len(past) \in Nat
    BY LenProperties DEF ReaderIInv
  <2>3. past[n] \in Database
    BY <2>2, ElementOfSeq
  <2>4. SubSeq(past, 1, n - 1) \in Seq(Database)
    <3>1. \A i \in 1 .. n - 1 : past[i] \in Database
      BY <2>2, ElementOfSeq
    <3>2. 1 \in Int /\ n - 1 \in Int
      BY <2>2
    <3>3. QED
      BY <2>2, <3>1, <3>2, SubSeqProperties
  <2>5. QED
    BY <2>1, <2>3, <2>4, WriterMoves
<1>6. QED
  BY <1>2, <1>3, <1>4, <1>5 DEF Writes

LEMMA BeginStep ==
  ASSUME ReaderIInv, NEW route \in Routes, Begin(route)
  PROVE  ReaderIInv'
<1> SUFFICES ASSUME NEW r, r = [route |-> route, first |-> db[FirstRead(route)],
                                 window |-> {db}, undone |-> FALSE]
             PROVE  ReaderIInv'
  OBVIOUS
<1>1. reading' = r /\ answers' = Nobody /\ UNCHANGED <<db, past>>
  BY DEF Begin
<1>2. IsFiniteSet({db})
  BY FS_Singleton
<1>3. FirstReadWas(r, db)
  BY DEF FirstReadWas, ReaderIInv
<1>4. ReadingOK(r)
  BY <1>2, <1>3 DEF ReadingOK
<1>5. ReadingOK(reading)'
  BY <1>1, <1>4 DEF ReadingOK, FirstReadWas
<1>6. QED
  BY <1>1, <1>5, AnswersSame DEF ReaderIInv

\* The second read is of the database as it is when the answer is made.
LEMMA AnswersStep ==
  ASSUME ReaderIInv, Answers
  PROVE  ReaderIInv'
<1> DEFINE r == reading
           seen == [f \in Reads(r.route) |->
                      IF f = FirstRead(r.route) THEN r.first ELSE db[f]]
           a == Answer(r, seen)
<1>1. reading # Nobody /\ ReadingOK(r) /\ db \in Database
  BY DEF Answers, ReaderIInv
<1>2. /\ answers' = [request |-> r, answer |-> a]
      /\ reading' = Nobody
      /\ UNCHANGED <<db, past>>
  BY DEF Answers
<1>3. PICK s \in r.window : FirstReadWas(r, s)
  BY <1>1 DEF ReadingOK
<1>4. /\ s[FirstRead(r.route)] = r.first
      /\ s \in Database
      /\ s \in [utxo : BOOLEAN, spentIn : Spender \cup {Nobody}, supply : Nat, held : Nat]
      /\ db \in [utxo : BOOLEAN, spentIn : Spender \cup {Nobody}, supply : Nat, held : Nat]
      /\ db.held <= db.supply /\ (db.utxo => db.spentIn = Nobody)
  BY <1>1, <1>3, DatabaseIs DEF FirstReadWas
<1>5. SUFFICES ASSUME ~ r.undone
               PROVE  Together(r, a)
  <2>1. ReadsHoldTogether'
    <3> HIDE DEF a, seen
    <3>1. QED
      BY <1>2, <1>5, TogetherIs
  <2>2. QED
    BY <1>1, <1>2, <2>1 DEF ReaderIInv
<1>6. db \in r.window /\ (Cardinality(r.window) = 1 => s = db)
  <2>1. IsFiniteSet(r.window) /\ db \in r.window
    BY <1>1 DEF ReadingOK
  <2>2. Cardinality(r.window) = 1 => \E x : r.window = {x}
    BY <2>1, FS_Singleton
  <2>3. QED
    BY <1>3, <2>1, <2>2
<1>7. CASE r.route = "localSpend"
  <2>1. seen.spentIn = s.spentIn /\ seen.utxo = db.utxo
    BY <1>4, <1>7 DEF FirstRead, Reads
  <2> HIDE DEF seen
  <2>2. CASE seen.spentIn # Nobody
    <3>1. a = [spent |-> TRUE, spentIn |-> seen.spentIn]
      BY <1>7, <2>2 DEF Answer
    <3>2. DOMAIN a = {"spent", "spentIn"} /\ a # [spent |-> FALSE] /\ a.spentIn = s.spentIn
      BY <2>1, <3>1
    <3> HIDE DEF a
    <3>3. QED
      BY <1>7, <3>2 DEF Together
  <2>3. CASE seen.spentIn = Nobody /\ seen.utxo
    <3>1. a = [spent |-> FALSE]
      BY <1>7, <2>3 DEF Answer
    <3>2. DOMAIN a = {"spent"}
      BY <3>1
    <3> HIDE DEF a
    <3>3. QED
      BY <1>6, <1>7, <2>1, <2>3, <3>2 DEF Together
  <2>4. CASE seen.spentIn = Nobody /\ ~ seen.utxo
    <3>1. a = [unknown |-> TRUE]
      BY <1>7, <2>4 DEF Answer
    <3>2. DOMAIN a = {"unknown"} /\ a # [spent |-> FALSE]
      BY <3>1
    <3> HIDE DEF a
    <3>3. QED
      BY <1>7, <3>2 DEF Together
  <2>5. QED
    BY <2>2, <2>3, <2>4
<1>8. CASE r.route = "outpoint"
  <2>1. seen.utxo = s.utxo /\ seen.spentIn = db.spentIn
    BY <1>4, <1>8 DEF FirstRead, Reads
  <2> HIDE DEF seen
  <2>2. CASE ~seen.utxo /\ seen.spentIn = Nobody
    <3>1. a = [notFound |-> TRUE]
      BY <1>8, <2>2 DEF Answer
    <3>2. DOMAIN a = {"notFound"} /\ a # [spent |-> FALSE]
      BY <3>1
    <3>3. ~s.utxo /\ s.spentIn = Nobody
      BY <1>3, <1>5, <2>1, <2>2 DEF FirstReadWas
    <3> HIDE DEF a
    <3>4. QED
      BY <1>8, <3>2, <3>3 DEF Together
  <2>3. CASE ~ (~seen.utxo /\ seen.spentIn = Nobody)
    <3>1. a = [unspent |-> seen.utxo, spentIn |-> seen.spentIn]
      BY <1>8, <2>3 DEF Answer
    <3>2. DOMAIN a = {"unspent", "spentIn"} /\ a # [spent |-> FALSE]
          /\ a.unspent = s.utxo /\ a.spentIn = db.spentIn
      BY <2>1, <3>1
    <3>3. s = db => (a.unspent <=> a.spentIn = Nobody)
      BY <1>4, <2>1, <2>3, <3>2
    <3> HIDE DEF a
    <3>4. QED
      BY <1>6, <1>8, <3>2, <3>3 DEF Together
  <2>4. QED
    BY <2>2, <2>3
<1>9. CASE r.route = "token"
  <2>1. seen.supply = s.supply /\ seen.held = db.held
    BY <1>4, <1>9 DEF FirstRead, Reads
  <2> HIDE DEF seen
  <2>2. CASE seen.supply = 0
    <3>1. a = [notFound |-> TRUE]
      BY <1>9, <2>2 DEF Answer
    <3>2. DOMAIN a = {"notFound"} /\ a # [spent |-> FALSE]
      BY <3>1
    <3> HIDE DEF a
    <3>3. QED
      BY <1>9, <2>1, <2>2, <3>2 DEF Together
  <2>3. CASE seen.supply # 0
    <3>1. a = [supply |-> seen.supply, circulating |-> seen.held]
      BY <1>9, <2>3 DEF Answer
    <3>2. DOMAIN a = {"supply", "circulating"} /\ a # [spent |-> FALSE]
          /\ a.supply = s.supply /\ a.circulating = db.held
      BY <2>1, <3>1
    <3> HIDE DEF a
    <3>3. QED
      BY <1>4, <1>6, <1>9, <3>2 DEF Together
  <2>4. QED
    BY <2>2, <2>3
<1>10. QED
  BY <1>1, <1>7, <1>8, <1>9 DEF ReadingOK, Routes

-----------------------------------------------------------------------------
(* The theorems.                                                              *)

LEMMA LimiterSame ==
  ASSUME LimiterIInv, UNCHANGED limiter
  PROVE  LimiterIInv'
BY DEF LimiterIInv, LimiterTypeOK, Paid, AdmittedWithinRate, PromiseCovered, Refilled, limiter

LEMMA ReaderSame ==
  ASSUME ReaderIInv, UNCHANGED reader
  PROVE  ReaderIInv'
<1>1. db' = db /\ past' = past /\ reading' = reading /\ answers' = answers
  BY DEF reader
<1>2. ReadsHoldTogether'
  BY <1>1, AnswersSame DEF ReaderIInv
<1>3. QED
  BY <1>1, <1>2 DEF ReaderIInv, ReadingOK, FirstReadWas

LEMMA ApiNextIInv ==
  ASSUME ApiIInv, [Next]_apiVars
  PROVE  ApiIInv'
<1>1. LimiterIInv /\ ReaderIInv /\ waiting \in Routes \cup {Nobody}
  BY DEF ApiIInv
<1>2. ASSUME NEW c \in Client, NEW route \in Routes, LetsIn(c, route)
      PROVE  ApiIInv'
  BY <1>1, <1>2, AdmitStep, ReaderSame DEF LetsIn, ApiIInv
<1>3. ASSUME NEW c \in Client, TurnsAway(c)
      PROVE  ApiIInv'
  BY <1>1, <1>3, RefuseStep, ReaderSame DEF TurnsAway, ApiIInv
<1>4. CASE Handles
  <2>1. waiting \in Routes /\ Begin(waiting) /\ waiting' = Nobody /\ UNCHANGED limiter
    BY <1>1, <1>4 DEF Handles
  <2>2. ReaderIInv'
    BY <1>1, <2>1, BeginStep
  <2>3. QED
    BY <1>1, <2>1, <2>2, LimiterSame DEF ApiIInv
<1>5. CASE Replies
  BY <1>1, <1>5, AnswersStep, LimiterSame DEF Replies, ApiIInv
<1>6. CASE Writer
  BY <1>1, <1>6, WritesStep, LimiterSame DEF Writer, ApiIInv
<1>7. CASE Passes
  BY <1>1, <1>7, TickStep, SweepStep, ReaderSame DEF Passes, ApiIInv
<1>8. CASE UNCHANGED apiVars
  BY <1>1, <1>8, LimiterSame, ReaderSame DEF apiVars, ApiIInv
<1>9. QED
  BY <1>2, <1>3, <1>4, <1>5, <1>6, <1>7, <1>8 DEF Next

\* The invariant is inductive: what a client got through was paid for out of its
\* bucket, what a 429 promised is flowing in, and the first read of an answer
\* was of a state the request has seen. (rateLimit.js:20-60,
\* routes/index.js:53-60, 104-165)
THEOREM ApiInductive == Spec => []ApiIInv
<1>1. Init => ApiIInv
  BY LimiterInitIInv, ReaderInitIInv DEF Init, ApiIInv
<1>2. ApiIInv /\ [Next]_apiVars => ApiIInv'
  BY ApiNextIInv
<1>3. QED
  BY <1>1, <1>2, PTL DEF Spec

\* No client gets more through, over any stretch of time, than a full bucket and
\* what flowed in meanwhile pay for, whatever the rate, the burst and the idle
\* time after which it is forgotten. (rateLimit.js:7-10, 20-26)
THEOREM RateKept == Spec => []AdmittedWithinRate
<1>1. ApiIInv => AdmittedWithinRate
  BY DEF ApiIInv, LimiterIInv
<1>2. QED
  BY <1>1, ApiInductive, PTL

\* Unless a block is taken back during the request, each field of an answer was
\* true at some moment of it, and all of them at once if nothing was committed
\* between its two reads. (routes/index.js:53-60, 104-165)
THEOREM AnswersHoldTogether == Spec => []ReadsHoldTogether
<1>1. ApiIInv => ReadsHoldTogether
  BY DEF ApiIInv, ReaderIInv
<1>2. QED
  BY <1>1, ApiInductive, PTL

\* A client that comes back when a 429 told it to is let through.
\* (rateLimit.js:40-50)
THEOREM RetryAfterIsEnough == Spec => RetryAfterHolds
<1> DEFINE Kept == \A c \in Client :
       promise[c] # None /\ promise'[c] # None /\ promise'[c] # promise[c] => now < promise[c]
<1>1. ASSUME ApiIInv, [Next]_apiVars
      PROVE  [Kept]_limiter
  <2>1. LimiterTypeOK /\ PromiseCovered
    BY <1>1 DEF ApiIInv, LimiterIInv
  <2>2. ASSUME NEW c \in Client, Refuse(c)
        PROVE  Kept
    <3>1. \A d \in Client : d # c => promise'[d] = promise[d]
      BY <2>1, <2>2 DEF Refuse, LimiterTypeOK
    <3>2. Refilled(c) \in Int /\ Refilled(c) < Cost /\ Cost \in Int
      BY <2>1, <2>2, RefilledIs, Numbers DEF Refuse
    <3>3. promise[c] # None => now < promise[c]
      BY <2>1, <3>2 DEF PromiseCovered
    <3>4. QED
      BY <3>1, <3>3
  <2>3. ASSUME NEW c \in Client, Admit(c)
        PROVE  Kept
    BY <2>1, <2>3 DEF Admit, LimiterTypeOK
  <2>4. CASE UNCHANGED promise
    BY <2>4
  <2>5. CASE UNCHANGED limiter
    BY <2>5
  <2>6. QED
    <3>1. CASE \E c \in Client : (\E route \in Routes : LetsIn(c, route)) \/ TurnsAway(c)
      BY <2>2, <2>3, <3>1 DEF LetsIn, TurnsAway
    <3>2. CASE Handles \/ Replies \/ Writer \/ UNCHANGED apiVars
      BY <2>5, <3>2 DEF Handles, Replies, Writer, apiVars
    <3>3. CASE Passes
      BY <2>4, <3>3 DEF Passes, Tick, Sweep
    <3>4. QED
      BY <1>1, <3>1, <3>2, <3>3 DEF Next
<1>2. QED
  BY <1>1, ApiInductive, PTL DEF Spec, RetryAfterHolds

=============================================================================
