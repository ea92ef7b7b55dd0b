-------------------------- MODULE TxProviderProofs --------------------------
(* The limits of the transaction provider and what it serves, for every set   *)
(* of callers and keys, every number of slots and every size of the caches.   *)
EXTENDS TxProvider, SequenceTheorems, FiniteSetTheorems, TLAPS

\* A key is an item and a chain its mode allows.
LEMMA KeyIs ==
  ASSUME NEW k \in Key
  PROVE  /\ k.item \in Item
         /\ k.chain \in Seq(Provider)
         /\ k.chain # << >>
         /\ ModeOf[k.item] \in Mode
<1>1. PICK i \in Item : \E c \in Chains[ModeOf[i]] : k = [item |-> i, chain |-> c]
  BY DEF Key
<1>2. ModeOf[i] \in Mode
  BY ProviderAssumption
<1>3. QED
  BY <1>1, <1>2, ProviderAssumption

-----------------------------------------------------------------------------
(* Sequences: an element taken out, the first taken off.                      *)

LEMMA RemovedPlace ==
  ASSUME NEW S, NEW s \in Seq(S), NEW i \in DOMAIN s
  PROVE  /\ RemoveAt(s, i) \in Seq(S)
         /\ Len(RemoveAt(s, i)) = Len(s) - 1
         /\ \A j \in 1 .. Len(s) - 1 :
              RemoveAt(s, i)[j] = IF j < i THEN s[j] ELSE s[j + 1]
<1> DEFINE a == SubSeq(s, 1, i - 1)
           b == SubSeq(s, i + 1, Len(s))
<1>1. i \in 1 .. Len(s) /\ Len(s) \in Nat
  BY LenProperties
<1>2. /\ a \in Seq(S) /\ Len(a) = i - 1
      /\ \A j \in 1 .. i - 1 : a[j] = s[j]
  <2>1. \A j \in 1 .. i - 1 : j \in 1 .. Len(s)
    BY <1>1
  <2>2. 1 \in Int /\ i - 1 \in Int /\ \A j \in 1 .. i - 1 : s[j] \in S
    BY <1>1, <2>1, ElementOfSeq
  <2>3. QED
    BY <1>1, <2>1, <2>2, SubSeqProperties
<1>3. /\ b \in Seq(S) /\ Len(b) = Len(s) - i
      /\ \A j \in 1 .. Len(s) - i : b[j] = s[i + j]
  <2>1. \A j \in i + 1 .. Len(s) : j \in 1 .. Len(s)
    BY <1>1
  <2>2. QED
    BY <1>1, <2>1, SubSeqProperties
<1>4. /\ a \o b \in Seq(S)
      /\ Len(a \o b) = Len(s) - 1
      /\ \A j \in 1 .. Len(s) - 1 :
           (a \o b)[j] = IF j <= i - 1 THEN a[j] ELSE b[j - (i - 1)]
  <2> HIDE DEF a, b
  <2>1. QED
    BY SMTT(20), <1>1, <1>2, <1>3, ConcatProperties
<1>5. ASSUME NEW j \in 1 .. Len(s) - 1
      PROVE  (a \o b)[j] = IF j < i THEN s[j] ELSE s[j + 1]
  <2> HIDE DEF a, b
  <2>1. CASE j < i
    BY <1>1, <1>2, <1>4, <2>1
  <2>2. CASE ~ (j < i)
    <3>1. j - (i - 1) \in 1 .. Len(s) - i /\ i + (j - (i - 1)) = j + 1
      BY <1>1, <2>2
    <3>2. b[j - (i - 1)] = s[j + 1]
      BY <1>3, <3>1
    <3>3. ~ (j <= i - 1)
      BY <1>1, <2>2
    <3>4. QED
      BY <1>4, <2>2, <3>2, <3>3
  <2>3. QED
    BY <2>1, <2>2
<1>6. QED
  BY <1>4, <1>5 DEF RemoveAt

\* Every element at one place: the tail has all but the head, at one place.
LEMMA TailOnce ==
  ASSUME NEW S, NEW s \in Seq(S), s # << >>,
         \A i, j \in DOMAIN s : s[i] = s[j] => i = j
  PROVE  /\ Tail(s) \in Seq(S)
         /\ Head(s) \in ToSet(s)
         /\ ToSet(Tail(s)) = ToSet(s) \ {Head(s)}
         /\ \A i, j \in DOMAIN Tail(s) : Tail(s)[i] = Tail(s)[j] => i = j
<1>1. /\ Head(s) = s[1]
      /\ Tail(s) \in Seq(S)
      /\ Len(Tail(s)) = Len(s) - 1
      /\ \A i \in 1 .. Len(s) - 1 : Tail(s)[i] = s[i + 1]
      /\ Len(s) \in Nat /\ Len(s) # 0
  BY HeadTailProperties, LenProperties, EmptySeq
<1>2. DOMAIN s = 1 .. Len(s) /\ DOMAIN Tail(s) = 1 .. Len(s) - 1
  BY <1>1, LenProperties
<1>3. \A i \in 1 .. Len(s) - 1 : i + 1 \in 1 .. Len(s) /\ i + 1 # 1
  BY <1>1
<1>4. \A i \in 1 .. Len(s) : i # 1 => i - 1 \in 1 .. Len(s) - 1 /\ (i - 1) + 1 = i
  BY <1>1
<1>5. 1 \in 1 .. Len(s)
  BY <1>1
<1>6. ToSet(Tail(s)) \subseteq ToSet(s) \ {Head(s)}
  BY <1>1, <1>2, <1>3, <1>5 DEF ToSet
<1>7. ToSet(s) \ {Head(s)} \subseteq ToSet(Tail(s))
  <2>1. SUFFICES ASSUME NEW i \in 1 .. Len(s), s[i] # s[1]
                 PROVE  s[i] \in ToSet(Tail(s))
    BY <1>1, <1>2 DEF ToSet
  <2>2. i - 1 \in 1 .. Len(s) - 1 /\ Tail(s)[i - 1] = s[i]
    BY <1>1, <1>4, <2>1
  <2>3. QED
    BY <1>2, <2>2 DEF ToSet
<1>8. ASSUME NEW i \in 1 .. Len(s) - 1, NEW j \in 1 .. Len(s) - 1,
             Tail(s)[i] = Tail(s)[j]
      PROVE  i = j
  <2>1. i + 1 = j + 1
    BY <1>1, <1>2, <1>3, <1>8
  <2>2. QED
    BY <2>1
<1>9. QED
  BY <1>1, <1>2, <1>5, <1>6, <1>7, <1>8 DEF ToSet

\* A new element at the end.
LEMMA AppendOnce ==
  ASSUME NEW S, NEW s \in Seq(S), NEW e \in S, e \notin ToSet(s),
         \A i, j \in DOMAIN s : s[i] = s[j] => i = j
  PROVE  /\ Append(s, e) \in Seq(S)
         /\ ToSet(Append(s, e)) = ToSet(s) \cup {e}
         /\ \A i, j \in DOMAIN Append(s, e) : Append(s, e)[i] = Append(s, e)[j] => i = j
<1> DEFINE t == Append(s, e)
<1>1. /\ t \in Seq(S) /\ Len(t) = Len(s) + 1 /\ Len(s) \in Nat
      /\ \A i \in 1 .. Len(s) : t[i] = s[i]
      /\ t[Len(s) + 1] = e
  BY AppendProperties, LenProperties
<1>2. DOMAIN s = 1 .. Len(s) /\ DOMAIN t = 1 .. Len(s) + 1
  BY <1>1, LenProperties
<1>3. \A i \in 1 .. Len(s) : s[i] # e
  BY <1>2 DEF ToSet
<1> HIDE DEF t
<1>4. \A i \in 1 .. Len(s) + 1 : i \in 1 .. Len(s) \/ i = Len(s) + 1
  BY <1>1
<1>5. \A i \in 1 .. Len(s) : i \in 1 .. Len(s) + 1
  BY <1>1
<1>6. Len(s) + 1 \in 1 .. Len(s) + 1
  BY <1>1
<1>7. ToSet(t) = ToSet(s) \cup {e}
  BY <1>1, <1>2, <1>4, <1>5, <1>6 DEF ToSet
<1>8. \A i, j \in 1 .. Len(s) + 1 : t[i] = t[j] => i = j
  BY <1>1, <1>2, <1>3, <1>4
<1>9. QED
  BY <1>1, <1>2, <1>7, <1>8 DEF t

-----------------------------------------------------------------------------
(* The cache.                                                                 *)

\* A map of at most max entries, one for an item, the transactions genuine.
Map(s, max) ==
  /\ s \in Seq(Entry)
  /\ Len(s) <= max
  /\ \A i, j \in DOMAIN s : s[i].item = s[j].item => i = j
  /\ \A i \in DOMAIN s : ModeOf[s[i].item] = "tx" => s[i].genuine

\* The cache a step leaves is bounded and genuine if each of its maps is.
LEMMA MapsMakeCache ==
  ASSUME NEW C, C = [m \in Mode |-> C[m]], \A m \in Mode : Map(C[m], CacheMax[m])
  PROVE  /\ C \in [Mode -> Seq(Entry)]
         /\ \A m \in Mode :
              /\ Len(C[m]) <= CacheMax[m]
              /\ \A i, j \in DOMAIN C[m] : C[m][i].item = C[m][j].item => i = j
         /\ \A m \in Mode : \A i \in DOMAIN C[m] :
              ModeOf[C[m][i].item] = "tx" => C[m][i].genuine
<1>1. \A m \in Mode : C[m] \in Seq(Entry)
  BY DEF Map
<1>2. C \in [Mode -> Seq(Entry)]
  BY <1>1
<1>3. QED
  BY <1>2 DEF Map

LEMMA CacheOfMaps ==
  ASSUME ProviderIInv
  PROVE  /\ cache \in [Mode -> Seq(Entry)]
         /\ cache = [m \in Mode |-> cache[m]]
         /\ \A m \in Mode : Map(cache[m], CacheMax[m])
BY DEF ProviderIInv, TypeOK, CacheBounded, CacheGenuine, Map

\* What Map.delete(key) leaves: a map without the item, shorter if it had it.
LEMMA OthersIs ==
  ASSUME ProviderIInv, NEW item \in Item
  PROVE  LET m == ModeOf[item]
         IN  /\ Map(Others(item), CacheMax[m])
             /\ \A i \in DOMAIN Others(item) : Others(item)[i].item # item
             /\ Places(item) # {} => Len(Others(item)) + 1 <= CacheMax[m]
<1> DEFINE m == ModeOf[item]
           s == cache[m]
           max == CacheMax[m]
<1>1. m \in Mode /\ max \in Nat
  BY ProviderAssumption
<1>2. Map(s, max)
  BY <1>1, CacheOfMaps
<1>3. Places(item) = {i \in DOMAIN s : s[i].item = item}
  BY DEF Places
<1>4. CASE Places(item) = {}
  BY <1>2, <1>3, <1>4 DEF Others
<1>5. CASE Places(item) # {}
  <2> DEFINE p == CHOOSE i \in Places(item) : TRUE
             t == RemoveAt(s, p)
  <2>1. p \in DOMAIN s /\ s[p].item = item
    BY <1>3, <1>5
  <2>2. Others(item) = t
    BY <1>5 DEF Others
  <2> HIDE DEF p, s
  <2>3. /\ t \in Seq(Entry) /\ Len(t) = Len(s) - 1
        /\ \A j \in 1 .. Len(s) - 1 : t[j] = IF j < p THEN s[j] ELSE s[j + 1]
    BY <1>2, <2>1, RemovedPlace DEF Map
  <2>4. s \in Seq(Entry) /\ Len(s) \in Nat /\ DOMAIN s = 1 .. Len(s) /\ Len(s) <= max
    BY <1>2, LenProperties DEF Map
  <2>5. DOMAIN t = 1 .. Len(s) - 1
    BY <2>3, LenProperties
  <2> HIDE DEF t, m, max
  <2> DEFINE at(j) == IF j < p THEN j ELSE j + 1
  <2>6. \A j \in DOMAIN t : at(j) \in DOMAIN s /\ at(j) # p /\ t[j] = s[at(j)]
    BY <2>1, <2>3, <2>4, <2>5
  <2>7. \A i, j \in DOMAIN t : at(i) = at(j) => i = j
    BY <2>1, <2>4, <2>5
  <2> HIDE DEF at
  <2>8. \A i \in DOMAIN t : t[i].item # item
    BY <1>2, <2>1, <2>6 DEF Map
  <2>9. \A i, j \in DOMAIN t : t[i].item = t[j].item => i = j
    BY <1>2, <2>6, <2>7 DEF Map
  <2>10. \A i \in DOMAIN t : ModeOf[t[i].item] = "tx" => t[i].genuine
    BY <1>2, <2>6 DEF Map
  <2>11. Len(t) <= max /\ Len(t) + 1 <= max
    BY <1>1, <2>3, <2>4
  <2>12. Map(t, max)
    BY <2>3, <2>9, <2>10, <2>11 DEF Map
  <2>13. QED
    BY <2>2, <2>8, <2>11, <2>12 DEF m, max
<1>6. QED
  BY <1>4, <1>5

\* An entry put at the end of a map that has none for its item.
LEMMA EntryAppended ==
  ASSUME NEW max \in Int, NEW s, Map(s, max), NEW e \in Entry,
         \A i \in DOMAIN s : s[i].item # e.item,
         ModeOf[e.item] = "tx" => e.genuine
  PROVE  Map(Append(s, e), Len(s) + 1)
<1> DEFINE t == Append(s, e)
<1>1. /\ t \in Seq(Entry) /\ Len(t) = Len(s) + 1 /\ Len(s) \in Nat
      /\ \A i \in 1 .. Len(s) : t[i] = s[i]
      /\ t[Len(s) + 1] = e
  BY AppendProperties, LenProperties DEF Map
<1>2. DOMAIN s = 1 .. Len(s) /\ DOMAIN t = 1 .. Len(s) + 1
  BY <1>1, LenProperties DEF Map
<1> HIDE DEF t
<1>3. \A i \in 1 .. Len(s) + 1 : i \in 1 .. Len(s) \/ i = Len(s) + 1
  BY <1>1
<1>4. \A i, j \in DOMAIN t : t[i].item = t[j].item => i = j
  BY <1>1, <1>2, <1>3 DEF Map
<1>5. \A i \in DOMAIN t : ModeOf[t[i].item] = "tx" => t[i].genuine
  BY <1>1, <1>2, <1>3 DEF Map
<1>6. QED
  BY <1>1, <1>4, <1>5 DEF Map, t

\* The last entries of a map.
LEMMA SuffixIsMap ==
  ASSUME NEW n \in Nat, NEW max \in Nat, NEW s, Map(s, n), Len(s) > max
  PROVE  Map(SubSeq(s, Len(s) - max + 1, Len(s)), max)
<1> DEFINE d == Len(s) - max
           t == SubSeq(s, d + 1, Len(s))
<1>1. s \in Seq(Entry) /\ Len(s) \in Nat /\ DOMAIN s = 1 .. Len(s)
  BY LenProperties DEF Map
<1>2. d \in Nat /\ d + 1 \in Int /\ Len(s) - d = max /\ Len(s) \in Int
  BY <1>1
<1>3. \A i \in d + 1 .. Len(s) : i \in 1 .. Len(s)
  BY <1>1, <1>2
<1>4. t \in Seq(Entry) /\ Len(t) = max /\ \A i \in 1 .. max : t[i] = s[d + i]
  <2>1. \A i \in d + 1 .. Len(s) : s[i] \in Entry
    BY <1>1, <1>3, ElementOfSeq
  <2>2. t \in Seq(Entry)
        /\ Len(t) = (IF d + 1 <= Len(s) THEN Len(s) - (d + 1) + 1 ELSE 0)
        /\ \A i \in 1 .. Len(s) - (d + 1) + 1 : t[i] = s[(d + 1) + i - 1]
    <3> HIDE DEF d
    <3>1. QED
      BY <1>1, <1>2, <1>3, <2>1, SubSeqProperties
  <2>3. Len(s) - (d + 1) + 1 = max /\ (d + 1 <= Len(s) \/ max = 0)
    BY <1>1, <1>2
  <2>4. \A i \in 1 .. max : (d + 1) + i - 1 = d + i
    BY <1>2
  <2> HIDE DEF t, d
  <2>5. QED
    BY <2>2, <2>3, <2>4
<1>5. DOMAIN t = 1 .. max
  BY <1>4, LenProperties
<1>6. \A i \in 1 .. max : d + i \in 1 .. Len(s)
  BY <1>1, <1>2
<1>7. \A i, j \in 1 .. max : d + i = d + j => i = j
  BY <1>2
<1> HIDE DEF t, d
<1>8. \A i, j \in DOMAIN t : t[i].item = t[j].item => i = j
  BY <1>1, <1>4, <1>5, <1>6, <1>7 DEF Map
<1>9. \A i \in DOMAIN t : ModeOf[t[i].item] = "tx" => t[i].genuine
  BY <1>1, <1>4, <1>5, <1>6 DEF Map
<1>10. Map(t, max)
  BY <1>4, <1>8, <1>9 DEF Map
<1>11. QED
  BY <1>10 DEF t, d

\* get() leaves a map within the limit.
LEMMA LookedIs ==
  ASSUME ProviderIInv, NEW item \in Item
  PROVE  Map(Looked(item), CacheMax[ModeOf[item]])
<1> DEFINE m == ModeOf[item]
           hits == {e \in Cached(item) : e.fresh}
           e == CHOOSE x \in hits : TRUE
<1>1. m \in Mode /\ CacheMax[m] \in Nat
  BY ProviderAssumption
<1>2. CASE hits = {}
  BY <1>2, OthersIs DEF Looked
<1>3. CASE hits # {}
  <2>1. e \in Cached(item)
    BY <1>3
  <2> HIDE DEF e
  <2>2. PICK i \in Places(item) : e = cache[m][i]
    BY <2>1 DEF Cached
  <2>3. i \in DOMAIN cache[m] /\ e.item = item
    BY <2>2 DEF Places
  <2>4. Map(cache[m], CacheMax[m])
    BY <1>1, CacheOfMaps
  <2>5. e \in Entry /\ (ModeOf[e.item] = "tx" => e.genuine)
    BY <2>2, <2>3, <2>4, ElementOfSeq, LenProperties DEF Map
  <2>6. /\ Map(Others(item), CacheMax[m])
        /\ \A j \in DOMAIN Others(item) : Others(item)[j].item # e.item
        /\ Len(Others(item)) + 1 <= CacheMax[m]
    BY <2>2, <2>3, OthersIs
  <2>7. Map(Append(Others(item), e), Len(Others(item)) + 1)
    BY <1>1, <2>5, <2>6, EntryAppended
  <2>8. Map(Append(Others(item), e), CacheMax[m])
    <3>1. Others(item) \in Seq(Entry)
      BY <2>6 DEF Map
    <3>2. Append(Others(item), e) \in Seq(Entry)
      BY <2>7 DEF Map
    <3>3. Len(Others(item)) \in Nat /\ Len(Append(Others(item), e)) \in Nat
      BY <3>1, <3>2, LenProperties
    <3>4. QED
      BY <1>1, <2>6, <2>7, <3>3 DEF Map
  <2>9. QED
    BY <1>3, <2>8 DEF Looked, e
<1>4. QED
  BY <1>2, <1>3

\* set() leaves a map within the limit, a limit of none included.
LEMMA StoredIs ==
  ASSUME ProviderIInv, NEW entry \in Entry, ModeOf[entry.item] = "tx" => entry.genuine
  PROVE  Map(Stored(entry), CacheMax[ModeOf[entry.item]])
<1> DEFINE m == ModeOf[entry.item]
           longer == Append(Others(entry.item), entry)
<1>1. entry.item \in Item
  BY DEF Entry
<1>2. m \in Mode /\ CacheMax[m] \in Nat
  BY <1>1, ProviderAssumption
<1>3. /\ Map(Others(entry.item), CacheMax[m])
      /\ \A j \in DOMAIN Others(entry.item) : Others(entry.item)[j].item # entry.item
  BY <1>1, OthersIs
<1>4. Map(longer, Len(Others(entry.item)) + 1)
  BY <1>2, <1>3, EntryAppended
<1>5. Len(Others(entry.item)) \in Nat /\ Len(longer) \in Nat
  BY <1>3, <1>4, LenProperties DEF Map
<1> HIDE DEF longer
<1>6. CASE Len(longer) <= CacheMax[m]
  <2>1. Map(longer, CacheMax[m])
    BY <1>4, <1>6 DEF Map
  <2>2. QED
    BY <1>6, <2>1 DEF Stored, longer
<1>7. CASE ~ (Len(longer) <= CacheMax[m])
  <2>1. Map(SubSeq(longer, Len(longer) - CacheMax[m] + 1, Len(longer)), CacheMax[m])
    BY <1>2, <1>4, <1>5, <1>7, SuffixIsMap
  <2>2. QED
    BY <1>7, <2>1 DEF Stored, longer
<1>8. QED
  BY <1>6, <1>7

-----------------------------------------------------------------------------
(* The invariant in three parts that the actions disturb one or two at a      *)
(* time: the cache, the fetches with their slots, the callers.                *)

CacheKept == cache \in [Mode -> Seq(Entry)] /\ CacheBounded /\ CacheGenuine

\* A fetch for k of the type, on the chain of k.
Placed(k, f) ==
  /\ f \in Fetch
  /\ f.at >= 1
  /\ f.stage # "next" => f.at <= Len(k.chain)
  /\ f.stage = "body" => f.status # "none"

FetchesKept ==
  /\ DOMAIN inFlight \subseteq Key
  /\ \A k \in DOMAIN inFlight : Placed(k, inFlight[k])
  /\ active \in 0 .. MaxFetches
  /\ queue \in Seq(Key)
  /\ QueuedOnce
  /\ SlotsHeld

CallersKept ==
  /\ asked \in [Caller -> Key \cup {None}]
  /\ answer \in [Caller -> Served \cup Failed \cup {None}]
  /\ AskedFirst
  /\ NobodyAbandoned
  /\ ServedFromChain

LEMMA Parts == ProviderIInv <=> CacheKept /\ FetchesKept /\ CallersKept
BY DEF ProviderIInv, TypeOK, OnChain, CacheKept, FetchesKept, CallersKept, Placed

\* The same of the next state.
LEMMA NextParts == ProviderIInv' <=> CacheKept' /\ FetchesKept' /\ CallersKept'
BY DEF ProviderIInv, TypeOK, OnChain, CacheKept, FetchesKept, CallersKept, Placed

LEMMA CacheSame ==
  ASSUME CacheKept, UNCHANGED cache
  PROVE  CacheKept'
BY DEF CacheKept, CacheBounded, CacheGenuine

LEMMA FetchesSame ==
  ASSUME FetchesKept, UNCHANGED <<inFlight, active, queue>>
  PROVE  FetchesKept'
BY DEF FetchesKept, QueuedOnce, SlotsHeld, Staged, Placed

LEMMA CallersSame ==
  ASSUME CallersKept, UNCHANGED <<asked, answer>>, DOMAIN inFlight' = DOMAIN inFlight
  PROVE  CallersKept'
BY DEF CallersKept, AskedFirst, NobodyAbandoned, ServedFromChain, Waiting

\* One map of the cache replaced by a map within its limit.
LEMMA CacheStep ==
  ASSUME CacheKept, NEW m \in Mode, NEW s, Map(s, CacheMax[m]),
         cache' = [cache EXCEPT ![m] = s]
  PROVE  CacheKept'
<1>1. cache' = [x \in Mode |-> cache'[x]]
  BY DEF CacheKept
<1>2. ASSUME NEW x \in Mode
      PROVE  Map(cache'[x], CacheMax[x])
  BY DEF CacheKept, CacheBounded, CacheGenuine, Map
<1> DEFINE C == cache'
<1>3. C = [x \in Mode |-> C[x]] /\ \A x \in Mode : Map(C[x], CacheMax[x])
  BY <1>1, <1>2
<1> HIDE DEF C
<1>4. /\ C \in [Mode -> Seq(Entry)]
      /\ \A x \in Mode :
           /\ Len(C[x]) <= CacheMax[x]
           /\ \A i, j \in DOMAIN C[x] : C[x][i].item = C[x][j].item => i = j
      /\ \A x \in Mode : \A i \in DOMAIN C[x] :
           ModeOf[C[x][i].item] = "tx" => C[x][i].genuine
  BY <1>3, MapsMakeCache
<1>5. QED
  BY <1>4 DEF CacheKept, CacheBounded, CacheGenuine, C

\* A fetch moves on without a slot to take or to give.
LEMMA FetchMoves ==
  ASSUME FetchesKept, NEW k \in DOMAIN inFlight, NEW f, Placed(k, f),
         inFlight' = [inFlight EXCEPT ![k] = f],
         \A stage \in {"queued", "headers"} :
           f.stage = stage <=> inFlight[k].stage = stage,
         UNCHANGED <<active, queue>>
  PROVE  FetchesKept' /\ DOMAIN inFlight' = DOMAIN inFlight
<1>1. DOMAIN inFlight' = DOMAIN inFlight
  OBVIOUS
<1>2. \A j \in DOMAIN inFlight : inFlight'[j] = IF j = k THEN f ELSE inFlight[j]
  OBVIOUS
<1>3. Staged({"queued"})' = Staged({"queued"}) /\ Staged({"headers"})' = Staged({"headers"})
  BY <1>1, <1>2 DEF Staged
<1>4. QED
  BY <1>1, <1>2, <1>3 DEF FetchesKept, QueuedOnce, SlotsHeld, Placed

-----------------------------------------------------------------------------
(* Init, and one lemma per action.                                            *)

LEMMA ProviderInitIInv == Init => ProviderIInv
<1> SUFFICES ASSUME Init PROVE ProviderIInv
  OBVIOUS
<1>1. \A S : << >> \in Seq(S)
  OBVIOUS
<1>2. CacheKept
  BY <1>1, ProviderAssumption DEF Init, CacheKept, CacheBounded, CacheGenuine
<1>3. Staged({"queued"}) = {} /\ Staged({"headers"}) = {} /\ ToSet(queue) = {}
  BY DEF Init, Staged, ToSet
<1>4. 0 \in 0 .. MaxFetches
  BY ProviderAssumption
<1>5. FetchesKept
  <2>1. QueuedOnce
    BY <1>3 DEF Init, QueuedOnce, ToSet
  <2>2. SlotsHeld
    BY <1>3, FS_EmptySet DEF Init, SlotsHeld
  <2>3. DOMAIN inFlight = {} /\ queue \in Seq(Key) /\ active \in 0 .. MaxFetches
    BY <1>1, <1>4 DEF Init
  <2>4. QED
    BY <2>1, <2>2, <2>3 DEF FetchesKept
<1>6. CallersKept
  BY DEF Init, CallersKept, AskedFirst, NobodyAbandoned, ServedFromChain, Waiting
<1>7. QED
  BY <1>2, <1>5, <1>6, Parts

LEMMA ExpireStep ==
  ASSUME ProviderIInv, NEW m \in Mode, Expire(m)
  PROVE  ProviderIInv'
<1>1. PICK i \in DOMAIN cache[m] : cache' = [cache EXCEPT ![m][i].fresh = FALSE]
  BY DEF Expire
<1> DEFINE s == [cache[m] EXCEPT ![i] = [@ EXCEPT !.fresh = FALSE]]
<1>2. cache' = [cache EXCEPT ![m] = s]
  BY <1>1
<1>3. CacheKept /\ FetchesKept /\ CallersKept
  BY Parts
<1>4. Map(cache[m], CacheMax[m])
  BY CacheOfMaps
<1>5. cache[m][i] \in Entry
  BY <1>4, ElementOfSeq, LenProperties DEF Map
<1>6. [cache[m][i] EXCEPT !.fresh = FALSE] \in Entry
  BY <1>5 DEF Entry
<1>7. /\ s \in Seq(Entry) /\ Len(s) = Len(cache[m]) /\ DOMAIN s = DOMAIN cache[m]
      /\ \A j \in DOMAIN s : s[j].item = cache[m][j].item
                             /\ s[j].genuine = cache[m][j].genuine
  <2>1. s \in Seq(Entry) /\ Len(s) = Len(cache[m]) /\ DOMAIN s = DOMAIN cache[m]
    BY <1>4, <1>6, ExceptSeq, LenProperties DEF Map
  <2>2. \A j \in DOMAIN cache[m] :
          s[j] = IF j = i THEN [cache[m][i] EXCEPT !.fresh = FALSE] ELSE cache[m][j]
    OBVIOUS
  <2>3. [cache[m][i] EXCEPT !.fresh = FALSE].item = cache[m][i].item
        /\ [cache[m][i] EXCEPT !.fresh = FALSE].genuine = cache[m][i].genuine
    BY <1>5 DEF Entry
  <2>4. QED
    BY <2>1, <2>2, <2>3
<1>8. Map(s, CacheMax[m])
  BY <1>4, <1>7 DEF Map
<1>9. CacheKept'
  <2> HIDE DEF s
  <2>1. QED
    BY <1>2, <1>3, <1>8, CacheStep
<1>10. FetchesKept' /\ CallersKept'
  BY <1>3, FetchesSame, CallersSame DEF Expire
<1>11. QED
  BY <1>9, <1>10, NextParts

LEMMA ClearCachesStep ==
  ASSUME ProviderIInv, ClearCaches
  PROVE  ProviderIInv'
<1>1. CacheKept /\ FetchesKept /\ CallersKept
  BY Parts
<1>2. CacheKept'
  <2>1. << >> \in Seq(Entry) /\ \A m \in Mode : CacheMax[m] \in Nat
    BY ProviderAssumption
  <2>2. QED
    BY <2>1 DEF ClearCaches, CacheKept, CacheBounded, CacheGenuine
<1>3. FetchesKept' /\ CallersKept'
  BY <1>1, FetchesSame, CallersSame DEF ClearCaches
<1>4. QED
  BY <1>2, <1>3, NextParts

\* A hit was served by a provider of the chain, and is genuine.
LEMMA UsableIs ==
  ASSUME ProviderIInv, NEW k \in Key, NEW e \in Usable(k)
  PROVE  /\ e \in Entry
         /\ e.source \in ToSet(k.chain)
         /\ ModeOf[k.item] = "tx" => e.genuine
<1>1. e \in Cached(k.item) /\ e.source \in ToSet(k.chain)
  BY DEF Usable
<1>2. PICK i \in DOMAIN cache[ModeOf[k.item]] :
        e = cache[ModeOf[k.item]][i] /\ e.item = k.item
  BY <1>1 DEF Cached, Places
<1>3. Map(cache[ModeOf[k.item]], CacheMax[ModeOf[k.item]])
  BY KeyIs, CacheOfMaps
<1>4. QED
  BY <1>1, <1>2, <1>3, ElementOfSeq, LenProperties, SMTT(20) DEF Map

LEMMA AskStep ==
  ASSUME ProviderIInv, NEW c \in Caller, NEW k \in Asks[c], Ask(c, k)
  PROVE  ProviderIInv'
<1>1. CacheKept /\ FetchesKept /\ CallersKept
  BY Parts
<1>2. k \in Key /\ k # None
  BY ProviderAssumption, NoneAssumption
<1>3. CacheKept'
  <2>1. ModeOf[k.item] \in Mode /\ k.item \in Item
    BY <1>2, KeyIs
  <2>2. Map(Looked(k.item), CacheMax[ModeOf[k.item]])
    BY <2>1, LookedIs
  <2>3. QED
    BY <1>1, <2>1, <2>2, CacheStep DEF Ask
<1>4. asked[c] = None /\ answer[c] = None /\ asked' = [asked EXCEPT ![c] = k]
      /\ asked' \in [Caller -> Key \cup {None}]
      /\ asked'[c] = k /\ \A d \in Caller : d # c => asked'[d] = asked[d]
  BY <1>1, <1>2 DEF Ask, CallersKept, AskedFirst
<1>5. CASE Hit(c, k)
  <2>1. PICK e \in Usable(k) :
          answer' = [answer EXCEPT ![c] = [outcome |-> "served", source |-> e.source,
                                           genuine |-> e.genuine]]
    BY <1>5 DEF Hit
  <2> DEFINE r == [outcome |-> "served", source |-> e.source, genuine |-> e.genuine]
  <2>2. /\ e \in Entry
        /\ e.source \in ToSet(k.chain)
        /\ ModeOf[k.item] = "tx" => e.genuine
    BY <1>2, UsableIs
  <2>3. r \in Served /\ r # None
    BY <2>2, NoneAssumption DEF Entry, Served
  <2>4. r.source = e.source /\ r.genuine = e.genuine
    OBVIOUS
  <2> HIDE DEF r
  <2>5. /\ answer' \in [Caller -> Served \cup Failed \cup {None}]
        /\ answer'[c] = r
        /\ \A d \in Caller : d # c => answer'[d] = answer[d]
    BY <1>1, <2>1, <2>3 DEF CallersKept, r
  <2>6. FetchesKept' /\ DOMAIN inFlight' = DOMAIN inFlight
    BY <1>1, <1>5, FetchesSame DEF Ask, Hit
  <2>7. {d \in Caller : Waiting(d)'} = {d \in Caller : Waiting(d)}
        /\ \A d \in Caller : Waiting(d) => asked'[d] = asked[d]
    BY <1>4, <2>3, <2>5 DEF Waiting
  <2>8. NobodyAbandoned'
    BY <1>1, <2>6, <2>7 DEF CallersKept, NobodyAbandoned
  <2>9. AskedFirst'
    BY <1>1, <1>2, <1>4, <2>5 DEF CallersKept, AskedFirst
  <2>10. ServedFromChain'
    BY <1>1, <1>4, <2>2, <2>4, <2>5 DEF CallersKept, ServedFromChain
  <2>11. CallersKept'
    BY <1>4, <2>5, <2>8, <2>9, <2>10 DEF CallersKept
  <2>12. QED
    BY <1>3, <2>6, <2>11, NextParts
<1>6. CASE Join(k)
  <2>1. answer' = answer
    BY <1>6 DEF Join
  <2> DEFINE f == [at |-> 1, stage |-> "next", status |-> "none",
                   expired |-> FALSE, attempts |-> << >>]
  <2>2. /\ DOMAIN inFlight' = DOMAIN inFlight \cup {k}
        /\ \A j \in DOMAIN inFlight : inFlight'[j] = inFlight[j]
        /\ k \notin DOMAIN inFlight => inFlight'[k] = f
    BY <1>6 DEF Join
  <2>3. Placed(k, f)
    BY DEF Placed, Fetch
  <2>4. \A stage \in {"queued", "headers"} : f.stage # stage
    OBVIOUS
  <2> HIDE DEF f
  <2>5. ASSUME NEW stage \in {"queued", "headers"}
        PROVE  Staged({stage})' = Staged({stage})
    <3>1. \A j \in DOMAIN inFlight' :
            inFlight'[j].stage \in {stage} <=> j \in Staged({stage})
      <4>1. SUFFICES ASSUME NEW j \in DOMAIN inFlight'
                     PROVE  inFlight'[j].stage = stage
                              <=> j \in DOMAIN inFlight /\ inFlight[j].stage = stage
        BY DEF Staged
      <4>2. CASE j \in DOMAIN inFlight
        BY <2>2, <4>2
      <4>3. CASE j \notin DOMAIN inFlight
        <5>1. inFlight'[j] = f
          BY <2>2, <4>1, <4>3
        <5>2. f.stage # stage
          BY <2>4
        <5>3. QED
          BY <4>3, <5>1, <5>2
      <4>4. QED
        BY <4>2, <4>3
    <3>2. Staged({stage}) \subseteq DOMAIN inFlight'
      BY <2>2 DEF Staged
    <3>3. QED
      BY <3>1, <3>2 DEF Staged
  <2>6. FetchesKept'
    <3>1. DOMAIN inFlight' \subseteq Key /\ \A j \in DOMAIN inFlight' : Placed(j, inFlight'[j])
      BY <1>1, <1>2, <2>2, <2>3 DEF FetchesKept
    <3>2. active' = active /\ queue' = queue
      BY DEF Ask
    <3>3. Staged({"queued"})' = Staged({"queued"})
          /\ Staged({"headers"})' = Staged({"headers"})
      BY <2>5
    <3>4. QueuedOnce' /\ SlotsHeld'
      BY <1>1, <3>2, <3>3 DEF FetchesKept, QueuedOnce, SlotsHeld
    <3>5. QED
      BY <1>1, <3>1, <3>2, <3>4 DEF FetchesKept
  <2>7. {d \in Caller : Waiting(d)'} = {d \in Caller : Waiting(d)} \cup {c}
        /\ \A d \in Caller : Waiting(d) => asked'[d] = asked[d]
    BY <1>2, <1>4, <2>1 DEF Waiting
  <2>8. NobodyAbandoned'
    BY <1>1, <1>4, <2>2, <2>7 DEF CallersKept, NobodyAbandoned
  <2>9. AskedFirst'
    BY <1>1, <1>2, <1>4, <2>1 DEF CallersKept, AskedFirst
  <2>10. ServedFromChain'
    BY <1>1, <1>4, <2>1 DEF CallersKept, ServedFromChain
  <2>11. CallersKept'
    BY <1>1, <1>4, <2>1, <2>8, <2>9, <2>10 DEF CallersKept
  <2>12. QED
    BY <1>3, <2>6, <2>11, NextParts
<1>7. QED
  BY <1>5, <1>6 DEF Ask

\* A request takes a free slot, or joins the queue.
LEMMA AttemptStep ==
  ASSUME ProviderIInv, NEW k \in Key, Attempt(k)
  PROVE  ProviderIInv'
<1> DEFINE q == Staged({"queued"})
           h == Staged({"headers"})
<1>1. CacheKept /\ FetchesKept /\ CallersKept
  BY Parts
<1>2. k \in DOMAIN inFlight /\ inFlight[k].stage = "next" /\ inFlight[k].at <= Len(k.chain)
  BY DEF Attempt, InStage
<1>3. Placed(k, inFlight[k])
  BY <1>1, <1>2 DEF FetchesKept
<1>4. k \notin q /\ k \notin h
  BY <1>2 DEF Staged
<1> DEFINE stage == IF active < MaxFetches THEN "headers" ELSE "queued"
           f == [inFlight[k] EXCEPT !.stage = stage, !.status = "none", !.expired = FALSE]
<1>5. inFlight' = [inFlight EXCEPT ![k] = f]
  BY DEF Attempt
<1>6. f.stage = stage /\ Placed(k, f)
  BY <1>2, <1>3 DEF Placed, Fetch
<1> HIDE DEF f
<1>7. /\ DOMAIN inFlight' = DOMAIN inFlight
      /\ \A j \in DOMAIN inFlight : inFlight'[j] = IF j = k THEN f ELSE inFlight[j]
  BY <1>5
<1>8. DOMAIN inFlight' \subseteq Key /\ \A j \in DOMAIN inFlight' : Placed(j, inFlight'[j])
  BY <1>1, <1>6, <1>7 DEF FetchesKept
<1>9. CacheKept' /\ CallersKept'
  BY <1>1, <1>7, CacheSame, CallersSame DEF Attempt
<1>10. CASE active < MaxFetches
  <2>1. active' = active + 1 /\ queue' = queue
    BY <1>10 DEF Attempt
  <2>2. q' = q /\ h' = h \cup {k}
    BY <1>2, <1>6, <1>7, <1>10 DEF Staged
  <2>3. /\ IsFiniteSet(h \cup {k})
        /\ Cardinality(h \cup {k}) = active + 1
    BY <1>1, <1>4, FS_AddElement DEF FetchesKept, SlotsHeld
  <2>4. active \in Nat /\ MaxFetches \in Nat /\ active + 1 \in 0 .. MaxFetches
    BY <1>1, <1>10, ProviderAssumption DEF FetchesKept
  <2>5. queue = << >>
    BY <1>1, <1>10, <2>4 DEF FetchesKept, SlotsHeld
  <2>6. QueuedOnce' /\ SlotsHeld'
    BY <1>1, <2>1, <2>2, <2>3, <2>5 DEF FetchesKept, QueuedOnce, SlotsHeld
  <2>7. FetchesKept'
    BY <1>1, <1>8, <2>1, <2>4, <2>6 DEF FetchesKept
  <2>8. QED
    BY <2>7, <1>9, NextParts
<1>11. CASE ~ (active < MaxFetches)
  <2>1. active' = active /\ queue' = Append(queue, k)
    BY <1>11 DEF Attempt
  <2>2. active = MaxFetches
    BY <1>1, <1>11, ProviderAssumption DEF FetchesKept
  <2>3. q' = q \cup {k} /\ h' = h
    BY <1>2, <1>6, <1>7, <1>11 DEF Staged
  <2>4. /\ Append(queue, k) \in Seq(Key)
        /\ ToSet(Append(queue, k)) = ToSet(queue) \cup {k}
        /\ \A i, j \in DOMAIN Append(queue, k) :
             Append(queue, k)[i] = Append(queue, k)[j] => i = j
    BY <1>1, <1>4, AppendOnce DEF FetchesKept, QueuedOnce
  <2>5. QueuedOnce' /\ SlotsHeld'
    BY <1>1, <2>1, <2>2, <2>3, <2>4 DEF FetchesKept, QueuedOnce, SlotsHeld
  <2>6. FetchesKept'
    BY <1>1, <1>8, <2>1, <2>4, <2>5 DEF FetchesKept
  <2>7. QED
    BY <2>6, <1>9, NextParts
<1>12. QED
  BY <1>10, <1>11

\* Whoever gives its slot up gives it to the head of the queue, if there is one.
LEMMA ReleaseStep ==
  ASSUME ProviderIInv, NEW k \in Key, InStage(k, "headers"),
         NEW f, Placed(k, f), f.stage \in {"next", "body"},
         Release([inFlight EXCEPT ![k] = f]),
         UNCHANGED <<asked, answer, cache>>
  PROVE  ProviderIInv'
<1> DEFINE q == Staged({"queued"})
           h == Staged({"headers"})
           fetches == [inFlight EXCEPT ![k] = f]
<1>1. CacheKept /\ FetchesKept /\ CallersKept
  BY Parts
<1>2. k \in DOMAIN inFlight /\ k \in h /\ k \notin q
  BY DEF InStage, Staged
<1>3. /\ IsFiniteSet(h)
      /\ active = Cardinality(h)
      /\ IsFiniteSet(h \ {k})
      /\ Cardinality(h \ {k}) = active - 1
      /\ active \in 0 .. MaxFetches
  BY <1>1, <1>2, FS_RemoveElement DEF FetchesKept, SlotsHeld
<1>4. /\ DOMAIN fetches = DOMAIN inFlight
      /\ \A j \in DOMAIN inFlight : fetches[j] = IF j = k THEN f ELSE inFlight[j]
      /\ \A j \in DOMAIN inFlight : Placed(j, fetches[j])
  BY <1>1 DEF FetchesKept
<1>5. CASE queue = << >>
  <2>1. active' = active - 1 /\ queue' = queue /\ inFlight' = fetches
    BY <1>5 DEF Release
  <2> HIDE DEF fetches
  <2>2. q' = q /\ h' = h \ {k}
    BY <1>2, <1>4, <2>1 DEF Staged
  <2>3. active - 1 \in 0 .. MaxFetches
    <3>1. Cardinality(h \ {k}) \in Nat
      BY <1>3, FS_CardinalityType
    <3>2. MaxFetches \in Nat /\ active \in Int
      BY <1>3, ProviderAssumption
    <3>3. QED
      BY <1>3, <3>1, <3>2
  <2>4. QueuedOnce' /\ SlotsHeld'
    BY <1>1, <1>3, <1>5, <2>1, <2>2 DEF FetchesKept, QueuedOnce, SlotsHeld
  <2>5. FetchesKept'
    BY <1>1, <1>4, <2>1, <2>3, <2>4 DEF FetchesKept
  <2>6. CacheKept' /\ CallersKept'
    BY <1>1, <1>4, <2>1, CacheSame, CallersSame
  <2>7. QED
    BY <2>5, <2>6, NextParts
<1>6. CASE queue # << >>
  <2> DEFINE w == Head(queue)
             g == [inFlight[w] EXCEPT !.stage = "headers"]
  <2>1. active' = active /\ queue' = Tail(queue)
        /\ inFlight' = [fetches EXCEPT ![w].stage = "headers"]
    BY <1>6 DEF Release
  <2>2. /\ Tail(queue) \in Seq(Key)
        /\ w \in ToSet(queue)
        /\ ToSet(Tail(queue)) = ToSet(queue) \ {w}
        /\ \A i, j \in DOMAIN Tail(queue) : Tail(queue)[i] = Tail(queue)[j] => i = j
    BY <1>1, <1>6, TailOnce DEF FetchesKept, QueuedOnce
  <2>3. w \in q /\ w \in DOMAIN inFlight /\ inFlight[w].stage = "queued" /\ w # k
        /\ w \notin h
    BY <1>1, <1>2, <2>2 DEF FetchesKept, QueuedOnce, Staged
  <2>4. Placed(w, g) /\ g.stage = "headers"
    BY <1>1, <2>3 DEF FetchesKept, Placed, Fetch
  <2>5. /\ DOMAIN inFlight' = DOMAIN inFlight
        /\ \A j \in DOMAIN inFlight :
             inFlight'[j] = IF j = w THEN g ELSE IF j = k THEN f ELSE inFlight[j]
    BY <1>4, <2>1, <2>3
  <2> HIDE DEF fetches, w, g
  <2>6. q' = q \ {w} /\ h' = (h \ {k}) \cup {w}
    BY <1>2, <2>3, <2>4, <2>5 DEF Staged
  <2>7. /\ IsFiniteSet((h \ {k}) \cup {w})
        /\ Cardinality((h \ {k}) \cup {w}) = active
    <3>1. w \notin h \ {k}
      BY <2>3
    <3>2. /\ IsFiniteSet((h \ {k}) \cup {w})
          /\ Cardinality((h \ {k}) \cup {w}) = Cardinality(h \ {k}) + 1
      BY <1>3, <3>1, FS_AddElement
    <3>3. active \in Int
      BY <1>3
    <3>4. QED
      BY <1>3, <3>2, <3>3
  <2>8. QueuedOnce' /\ SlotsHeld'
    BY <1>1, <1>6, <2>1, <2>2, <2>6, <2>7 DEF FetchesKept, QueuedOnce, SlotsHeld
  <2>9. DOMAIN inFlight' \subseteq Key /\ \A j \in DOMAIN inFlight' : Placed(j, inFlight'[j])
    BY <1>1, <2>4, <2>5 DEF FetchesKept
  <2>10. FetchesKept'
    BY <1>1, <2>1, <2>2, <2>8, <2>9 DEF FetchesKept
  <2>11. CacheKept' /\ CallersKept'
    BY <1>1, <2>5, CacheSame, CallersSame
  <2>12. QED
    BY <2>10, <2>11, NextParts
<1>7. QED
  BY <1>5, <1>6

LEMMA HeadersArriveStep ==
  ASSUME ProviderIInv, NEW k \in Key, HeadersArrive(k)
  PROVE  ProviderIInv'
<1>1. PICK status \in {"ok", "missing", "other"} :
        Release([inFlight EXCEPT ![k].stage = "body", ![k].status = status])
  BY DEF HeadersArrive
<1> DEFINE f == [inFlight[k] EXCEPT !.stage = "body", !.status = status]
<1>2. k \in DOMAIN inFlight /\ inFlight[k].stage = "headers" /\ Placed(k, inFlight[k])
  BY Parts DEF HeadersArrive, InStage, FetchesKept
<1>3. [inFlight EXCEPT ![k].stage = "body", ![k].status = status]
        = [inFlight EXCEPT ![k] = f]
  BY <1>2
<1>4. Placed(k, f) /\ f.stage = "body"
  BY <1>2 DEF Placed, Fetch
<1> HIDE DEF f
<1>5. Release([inFlight EXCEPT ![k] = f])
  BY <1>1, <1>3
<1>6. QED
  BY <1>4, <1>5, ReleaseStep DEF HeadersArrive

\* A failed attempt leaves the fetch before its next provider.
LEMMA RecordedIs ==
  ASSUME NEW k \in Key, NEW f, Placed(k, f), NEW outcome \in Outcome
  PROVE  Placed(k, Recorded(f, outcome)) /\ Recorded(f, outcome).stage = "next"
<1>1. f.at \in Nat /\ f.attempts \in Seq(Outcome)
  BY DEF Placed, Fetch
<1>2. f.at + 1 \in Nat /\ f.at + 1 >= 1 /\ Append(f.attempts, outcome) \in Seq(Outcome)
  BY <1>1, AppendProperties
<1> DEFINE r == Recorded(f, outcome)
<1>3. /\ r \in Fetch
      /\ r.at = f.at + 1
      /\ r.stage = "next"
  BY <1>2 DEF Placed, Fetch, Recorded
<1>4. QED
  BY <1>2, <1>3 DEF Placed

LEMMA FetchRejectsStep ==
  ASSUME ProviderIInv, NEW k \in Key, FetchRejects(k)
  PROVE  ProviderIInv'
<1> DEFINE f == Recorded(inFlight[k], "other")
<1>1. k \in DOMAIN inFlight /\ Placed(k, inFlight[k])
  BY Parts DEF FetchRejects, InStage, FetchesKept
<1>2. Placed(k, f) /\ f.stage = "next"
  BY <1>1, RecordedIs DEF Outcome
<1>3. [inFlight EXCEPT ![k] = Recorded(@, "other")] = [inFlight EXCEPT ![k] = f]
  OBVIOUS
<1> HIDE DEF f
<1>4. QED
  BY <1>2, <1>3, ReleaseStep DEF FetchRejects

LEMMA TimeOutStep ==
  ASSUME ProviderIInv, NEW k \in Key, TimeOut(k)
  PROVE  ProviderIInv'
<1> DEFINE f == [inFlight[k] EXCEPT !.expired = TRUE]
<1>1. CacheKept /\ FetchesKept /\ CallersKept
  BY Parts
<1>2. k \in DOMAIN inFlight /\ Placed(k, inFlight[k])
  BY <1>1 DEF TimeOut, FetchesKept
<1>3. Placed(k, f) /\ f.stage = inFlight[k].stage
  BY <1>2 DEF Placed, Fetch
<1>4. inFlight' = [inFlight EXCEPT ![k] = f]
  BY DEF TimeOut
<1> HIDE DEF f
<1>5. FetchesKept' /\ DOMAIN inFlight' = DOMAIN inFlight
  BY <1>1, <1>2, <1>3, <1>4, FetchMoves DEF TimeOut
<1>6. CacheKept' /\ CallersKept'
  BY <1>1, <1>5, CacheSame, CallersSame DEF TimeOut
<1>7. QED
  BY <1>5, <1>6, NextParts

LEMMA BodyFailsStep ==
  ASSUME ProviderIInv, NEW k \in Key, BodyFails(k)
  PROVE  ProviderIInv'
<1>1. CacheKept /\ FetchesKept /\ CallersKept
  BY Parts
<1>2. k \in DOMAIN inFlight /\ inFlight[k].stage = "body" /\ Placed(k, inFlight[k])
  BY <1>1 DEF BodyFails, InStage, FetchesKept
<1>3. PICK outcome \in Outcome :
        inFlight' = [inFlight EXCEPT ![k] = Recorded(@, outcome)]
  <2>1. inFlight[k].status \in {"ok", "missing", "other"}
    BY <1>2 DEF Placed, Fetch
  <2>2. QED
    BY <2>1 DEF BodyFails, Outcome
<1> DEFINE f == Recorded(inFlight[k], outcome)
<1>4. Placed(k, f) /\ f.stage = "next"
  BY <1>2, RecordedIs
<1>5. inFlight' = [inFlight EXCEPT ![k] = f]
  BY <1>3
<1> HIDE DEF f
<1>6. FetchesKept' /\ DOMAIN inFlight' = DOMAIN inFlight
  BY <1>1, <1>2, <1>4, <1>5, FetchMoves DEF BodyFails
<1>7. CacheKept' /\ CallersKept'
  BY <1>1, <1>6, CacheSame, CallersSame DEF BodyFails
<1>8. QED
  BY <1>6, <1>7, NextParts

\* A fetch that is over leaves nobody waiting for it and nothing in flight, and
\* its result is one that whoever asked for it may be given.
LEMMA SettleStep ==
  ASSUME ProviderIInv, NEW k \in Key, k \in DOMAIN inFlight,
         inFlight[k].stage \in {"next", "body"},
         NEW result \in Served \cup Failed,
         result.outcome = "served" =>
           /\ result.source \in ToSet(k.chain)
           /\ ModeOf[k.item] = "tx" => result.genuine,
         Settle(k, result)
  PROVE  FetchesKept' /\ CallersKept'
<1>1. FetchesKept /\ CallersKept
  BY Parts
<1>2. result # None
  BY NoneAssumption
<1>3. /\ DOMAIN inFlight' = DOMAIN inFlight \ {k}
      /\ \A j \in DOMAIN inFlight' : inFlight'[j] = inFlight[j]
      /\ UNCHANGED <<asked, active, queue>>
  BY DEF Settle
<1>4. \A c \in Caller :
        answer'[c] = IF asked[c] = k /\ answer[c] = None THEN result ELSE answer[c]
  BY DEF Settle
<1>5. Staged({"queued"})' = Staged({"queued"}) /\ Staged({"headers"})' = Staged({"headers"})
  BY <1>3 DEF Staged
<1>6. FetchesKept'
  <2>1. QueuedOnce' /\ SlotsHeld'
    BY <1>1, <1>3, <1>5 DEF FetchesKept, QueuedOnce, SlotsHeld
  <2>2. QED
    BY <1>1, <1>3, <2>1 DEF FetchesKept
<1>7. answer' \in [Caller -> Served \cup Failed \cup {None}]
  BY <1>1 DEF Settle, CallersKept
<1>8. AskedFirst'
  <2>1. k # None
    BY NoneAssumption
  <2>2. QED
    BY <1>1, <1>3, <1>4, <2>1 DEF CallersKept, AskedFirst
<1>9. NobodyAbandoned'
  <2>1. \A c \in Caller : Waiting(c)' <=> Waiting(c) /\ asked[c] # k
    BY <1>2, <1>3, <1>4 DEF Waiting
  <2>2. QED
    BY <1>1, <1>3, <2>1 DEF CallersKept, NobodyAbandoned
<1>10. ServedFromChain'
  BY <1>1, <1>3, <1>4 DEF CallersKept, ServedFromChain
<1>11. CallersKept'
  BY <1>1, <1>3, <1>7, <1>8, <1>9, <1>10 DEF CallersKept
<1>12. QED
  BY <1>6, <1>11

LEMMA BodyServesStep ==
  ASSUME ProviderIInv, NEW k \in Key, BodyServes(k)
  PROVE  ProviderIInv'
<1> DEFINE source == k.chain[inFlight[k].at]
<1>1. CacheKept /\ FetchesKept /\ CallersKept
  BY Parts
<1>2. k \in DOMAIN inFlight /\ inFlight[k].stage = "body" /\ Placed(k, inFlight[k])
  BY <1>1 DEF BodyServes, InStage, FetchesKept
<1>3. source \in ToSet(k.chain) /\ source \in Provider
  <2>1. inFlight[k].at \in 1 .. Len(k.chain)
    BY <1>2, KeyIs, LenProperties DEF Placed, Fetch
  <2>2. QED
    BY <2>1, KeyIs, LenProperties, ElementOfSeq DEF ToSet
<1>4. PICK genuine \in BOOLEAN, big \in BOOLEAN :
        /\ ModeOf[k.item] = "tx" => genuine
        /\ Settle(k, [outcome |-> "served", source |-> source, genuine |-> genuine])
        /\ cache' = IF big THEN cache
                    ELSE [cache EXCEPT ![ModeOf[k.item]] =
                            Stored([item |-> k.item, source |-> source,
                                    genuine |-> genuine, fresh |-> TRUE])]
  BY DEF BodyServes
<1> DEFINE r == [outcome |-> "served", source |-> source, genuine |-> genuine]
           e == [item |-> k.item, source |-> source, genuine |-> genuine, fresh |-> TRUE]
<1>5. r \in Served /\ r.source = source /\ r.genuine = genuine
  BY <1>3 DEF Served
<1>6. e \in Entry /\ e.item = k.item /\ e.genuine = genuine
  BY <1>3, KeyIs DEF Entry
<1>7. Settle(k, r) /\ cache' = IF big THEN cache
                               ELSE [cache EXCEPT ![ModeOf[k.item]] = Stored(e)]
  BY <1>4
<1> HIDE DEF r, e, source
<1>8. FetchesKept' /\ CallersKept'
  BY <1>2, <1>3, <1>4, <1>5, <1>7, SettleStep
<1>9. CacheKept'
  <2>1. CASE big
    BY <1>1, <1>7, <2>1, CacheSame
  <2>2. CASE ~ big
    <3>1. Map(Stored(e), CacheMax[ModeOf[k.item]])
      BY <1>4, <1>6, StoredIs
    <3>2. QED
      BY <1>1, <1>7, <2>2, <3>1, KeyIs, CacheStep
  <2>3. QED
    BY <2>1, <2>2
<1>10. QED
  BY <1>8, <1>9, NextParts

LEMMA GiveUpStep ==
  ASSUME ProviderIInv, NEW k \in Key, GiveUp(k)
  PROVE  ProviderIInv'
<1> DEFINE r == [outcome |-> Verdict(inFlight[k].attempts)]
<1>1. r \in Failed /\ r.outcome # "served"
  BY DEF Verdict, Failed
<1> HIDE DEF r
<1>2. k \in DOMAIN inFlight /\ inFlight[k].stage = "next" /\ Settle(k, r)
  BY DEF GiveUp, InStage, r
<1>3. FetchesKept' /\ CallersKept'
  BY <1>1, <1>2, SettleStep
<1>4. CacheKept'
  BY Parts, CacheSame DEF GiveUp
<1>5. QED
  BY <1>3, <1>4, NextParts

-----------------------------------------------------------------------------
(* The theorems.                                                              *)

LEMMA ProviderNextIInv ==
  ASSUME ProviderIInv, [Next]_vars
  PROVE  ProviderIInv'
<1>1. ASSUME NEW c \in Caller, NEW k \in Asks[c], Ask(c, k)
      PROVE  ProviderIInv'
  BY <1>1, AskStep
<1>2. ASSUME NEW k \in Key, Attempt(k)
      PROVE  ProviderIInv'
  BY <1>2, AttemptStep
<1>3. ASSUME NEW k \in Key, HeadersArrive(k)
      PROVE  ProviderIInv'
  BY <1>3, HeadersArriveStep
<1>4. ASSUME NEW k \in Key, FetchRejects(k)
      PROVE  ProviderIInv'
  BY <1>4, FetchRejectsStep
<1>5. ASSUME NEW k \in Key, TimeOut(k)
      PROVE  ProviderIInv'
  BY <1>5, TimeOutStep
<1>6. ASSUME NEW k \in Key, BodyFails(k)
      PROVE  ProviderIInv'
  BY <1>6, BodyFailsStep
<1>7. ASSUME NEW k \in Key, BodyServes(k)
      PROVE  ProviderIInv'
  BY <1>7, BodyServesStep
<1>8. ASSUME NEW k \in Key, GiveUp(k)
      PROVE  ProviderIInv'
  BY <1>8, GiveUpStep
<1>9. ASSUME NEW m \in Mode, Expire(m)
      PROVE  ProviderIInv'
  BY <1>9, ExpireStep
<1>10. CASE ClearCaches
  BY <1>10, ClearCachesStep
<1>11. CASE UNCHANGED vars
  <2>1. CacheKept /\ FetchesKept /\ CallersKept
    BY Parts
  <2>2. QED
    BY <1>11, <2>1, CacheSame, FetchesSame, CallersSame, NextParts DEF vars
<1>12. CASE Quiet
  BY <1>11, <1>12 DEF Quiet
<1>13. CASE Progress
  BY <1>2, <1>3, <1>4, <1>5, <1>6, <1>7, <1>8, <1>13 DEF Progress
<1>14. QED
  BY <1>1, <1>9, <1>10, <1>11, <1>12, <1>13 DEF Next

\* The invariant is inductive: the queue holds each waiting request once, a
\* slot is held by each request whose headers are awaited, what is cached is
\* genuine, and what is in flight is what somebody waits for.
\* (txProvider.js:66-86, 143-154, 176-226, cache.js:9-28)
THEOREM ProviderInductive == Spec => []ProviderIInv
<1>1. ProviderIInv /\ [Next]_vars => ProviderIInv'
  BY ProviderNextIInv
<1>2. QED
  BY <1>1, ProviderInitIInv, PTL DEF Spec

\* The queue is as long as the set of what it holds.
LEMMA QueueCounted ==
  ASSUME NEW S, NEW s \in Seq(S), \A i, j \in DOMAIN s : s[i] = s[j] => i = j
  PROVE  Len(s) = Cardinality(ToSet(s))
<1>1. Len(s) \in Nat /\ DOMAIN s = 1 .. Len(s)
  BY LenProperties
<1>2. IsFiniteSet(1 .. Len(s)) /\ Cardinality(1 .. Len(s)) = Len(s)
  BY SMTT(20), <1>1, FS_Interval
<1> DEFINE f == [i \in 1 .. Len(s) |-> s[i]]
<1>3. f \in Bijection(1 .. Len(s), ToSet(s))
  BY <1>1 DEF ToSet, Bijection, Injection, Surjection, IsInjective
<1>4. ExistsBijection(1 .. Len(s), ToSet(s))
  BY <1>3 DEF ExistsBijection
<1>5. QED
  BY <1>2, <1>4, FS_Bijection

\* However many callers ask for whatever, and whatever the providers do, the
\* slots taken are those of the requests under way and never more than there
\* are, and no cache outgrows its limit or answers one item twice.
\* (txProvider.js:66-86, cache.js:22-28)
THEOREM LimitsKept == Spec => []WithinLimits
<1>1. ASSUME ProviderIInv
      PROVE  WithinLimits
  <2>1. TypeOK /\ CacheBounded /\ QueuedOnce /\ SlotsHeld
    BY <1>1 DEF ProviderIInv
  <2>2. Len(queue) = Cardinality(ToSet(queue))
    BY <2>1, QueueCounted DEF TypeOK, QueuedOnce
  <2>3. QED
    BY <2>1, <2>2 DEF WithinLimits, SlotsAccounted, QueuedOnce, SlotsHeld
<1>2. QED
  BY <1>1, ProviderInductive, PTL

\* Whoever waits, waits for a fetch in flight, and nothing else is in flight.
\* (txProvider.js:143-154)
THEOREM NobodyIsAbandoned == Spec => []NobodyAbandoned
<1>1. ProviderIInv => NobodyAbandoned
  BY DEF ProviderIInv
<1>2. QED
  BY <1>1, ProviderInductive, PTL

\* A caller is served by a provider of its own chain, from the cache, from a
\* fetch it joined or from its own, and a transaction is the one it named.
\* (txProvider.js:184-190, 196-206)
THEOREM ServesFromChain == Spec => []ServedFromChain
<1>1. ProviderIInv => ServedFromChain
  BY DEF ProviderIInv
<1>2. QED
  BY <1>1, ProviderInductive, PTL

=============================================================================
