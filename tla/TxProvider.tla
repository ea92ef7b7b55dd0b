----------------------------- MODULE TxProvider -----------------------------
(* Fetching from upstream, src/services/txProvider.js over                    *)
(* src/services/cache.js: concurrent callers ask for transactions and output  *)
(* scripts, answered from an LRU cache, by joining a fetch already in flight, *)
(* or by a fetch of their own that tries one provider after another under a   *)
(* timeout, its requests queueing for a limited number of slots.              *)
(*                                                                           *)
(* One network and one download limit; an item is what is asked for, a chain  *)
(* the providers resolveProviders() leaves of a caller's list. Bodies are     *)
(* genuine or not: a transaction's is checked against the txid, a script's    *)
(* cannot be.                                                                 *)
EXTENDS Integers, Sequences, FiniteSets, SequencesExt

CONSTANTS
  Caller,
  Item,
  ModeOf,           \* [Item -> {"tx", "output"}]
  Chains,           \* [mode -> set of sequences of providers]
  MaxFetches,       \* config.maxConcurrentFetches
  CacheMax,         \* [mode -> Nat]: the entries each cache holds
  Asks,             \* [Caller -> set of keys]: what a caller may ask for
  None

Mode == {"tx", "output"}
Key == UNION {{[item |-> i, chain |-> c] : c \in Chains[ModeOf[i]]} : i \in Item}
Provider == UNION {ToSet(c) : c \in UNION {Chains[m] : m \in Mode}}

ASSUME ProviderAssumption ==
  /\ ModeOf \in [Item -> Mode]
  /\ DOMAIN Chains = Mode
  /\ \A m \in Mode : \A c \in Chains[m] : c \in Seq(Provider) /\ c # << >>
  /\ MaxFetches \in Nat \ {0}
  /\ CacheMax \in [Mode -> Nat]
  /\ Asks \in [Caller -> SUBSET Key]

VARIABLES
  asked,            \* [Caller -> Key or None]: what a caller asked for
  answer,           \* [Caller -> answer or None]
  cache,            \* [mode -> sequence of entries, least recently used first]
  inFlight,         \* [some keys -> fetch]
  active, queue     \* slots taken; the fetches waiting for one

vars == <<asked, answer, cache, inFlight, active, queue>>

Outcome == {"too_large", "missing", "other"}
Entry == [item : Item, source : Provider, genuine : BOOLEAN, fresh : BOOLEAN]
Fetch == [at : Nat, stage : {"next", "queued", "headers", "body"},
          status : {"none", "ok", "missing", "other"}, expired : BOOLEAN,
          attempts : Seq(Outcome)]
Served == [outcome : {"served"}, source : Provider, genuine : BOOLEAN]
Failed == [outcome : {"too_large", "not_found", "upstream"}]

ASSUME NoneAssumption == None \notin Key \cup Served \cup Failed

TypeOK ==
  /\ asked \in [Caller -> Key \cup {None}]
  /\ answer \in [Caller -> Served \cup Failed \cup {None}]
  /\ cache \in [Mode -> Seq(Entry)]
  /\ DOMAIN inFlight \subseteq Key
  /\ \A k \in DOMAIN inFlight : inFlight[k] \in Fetch
  /\ active \in 0 .. MaxFetches
  /\ queue \in Seq(Key)

Waiting(c) == asked[c] # None /\ answer[c] = None

Init ==
  /\ asked = [c \in Caller |-> None]
  /\ answer = [c \in Caller |-> None]
  /\ cache = [m \in Mode |-> << >>]
  /\ inFlight = [k \in {} |-> None]
  /\ active = 0
  /\ queue = << >>

-----------------------------------------------------------------------------
(* cache.js. *)

\* Where the map has an entry for item, the entry, and the map without it.
Places(item) ==
  {i \in DOMAIN cache[ModeOf[item]] : cache[ModeOf[item]][i].item = item}
Cached(item) == {cache[ModeOf[item]][i] : i \in Places(item)}
Others(item) ==
  IF Places(item) = {} THEN cache[ModeOf[item]]
  ELSE RemoveAt(cache[ModeOf[item]], CHOOSE i \in Places(item) : TRUE)

\* get() as it leaves the cache: an entry found becomes the most recent one,
\* one whose time is up is dropped.
Looked(item) ==
  LET hits == {e \in Cached(item) : e.fresh}
  IN  IF hits = {} THEN Others(item)
      ELSE Append(Others(item), CHOOSE e \in hits : TRUE)

\* set() as it leaves the cache: the least recent entries make room.
Stored(entry) ==
  LET longer == Append(Others(entry.item), entry)
      max == CacheMax[ModeOf[entry.item]]
  IN  IF Len(longer) <= max THEN longer
      ELSE SubSeq(longer, Len(longer) - max + 1, Len(longer))

\* The ttl of an entry runs out.
Expire(m) ==
  /\ \E i \in DOMAIN cache[m] :
       /\ cache[m][i].fresh
       /\ cache' = [cache EXCEPT ![m][i].fresh = FALSE]
  /\ UNCHANGED <<asked, answer, inFlight, active, queue>>

\* clearCaches().
ClearCaches ==
  /\ cache' = [m \in Mode |-> << >>]
  /\ UNCHANGED <<asked, answer, inFlight, active, queue>>

-----------------------------------------------------------------------------
(* fetchTransaction() and fetchOutputScript() up to their first await. *)

\* Mutant of Usable: a hit counts whoever it came from.
UsableAny(k) == {e \in Cached(k.item) : e.fresh}

\* A hit counts only if its source is one the caller allows.
Usable(k) ==
  {e \in Cached(k.item) : e.fresh /\ e.source \in ToSet(k.chain)}

Hit(c, k) ==
  /\ \E e \in Usable(k) :
       answer' = [answer EXCEPT ![c] = [outcome |-> "served", source |-> e.source,
                                        genuine |-> e.genuine]]
  /\ UNCHANGED inFlight

\* coalesce(): the fetch in flight for the very same key, or a new one.
Join(k) ==
  /\ Usable(k) = {}
  /\ inFlight' =
       [j \in DOMAIN inFlight \cup {k} |->
          IF j \in DOMAIN inFlight THEN inFlight[j]
          ELSE [at |-> 1, stage |-> "next", status |-> "none",
                expired |-> FALSE, attempts |-> << >>]]
  /\ UNCHANGED answer

Ask(c, k) ==
  /\ asked[c] = None
  /\ asked' = [asked EXCEPT ![c] = k]
  /\ cache' = [cache EXCEPT ![ModeOf[k.item]] = Looked(k.item)]
  /\ Hit(c, k) \/ Join(k)
  /\ UNCHANGED <<active, queue>>

-----------------------------------------------------------------------------
(* The loop over the chain, attempt() and withSlot(). A fetch is at "next"    *)
(* between two attempts, then "queued" or straight at "headers", where it     *)
(* holds a slot, then at "body", where it holds none.                         *)

InStage(k, stage) == k \in DOMAIN inFlight /\ inFlight[k].stage = stage

\* The next provider is tried: a slot is taken, or waited for.
Attempt(k) ==
  /\ InStage(k, "next")
  /\ inFlight[k].at <= Len(k.chain)
  /\ LET free == active < MaxFetches
     IN  /\ inFlight' = [inFlight EXCEPT
                           ![k].stage = IF free THEN "headers" ELSE "queued",
                           ![k].status = "none", ![k].expired = FALSE]
         /\ active' = IF free THEN active + 1 ELSE active
         /\ queue' = IF free THEN queue ELSE Append(queue, k)
  /\ UNCHANGED <<asked, answer, cache>>

\* Mutant of Release: the slot is given up and the queue is not looked at.
ReleaseUnheard(fetches) ==
  active' = active - 1 /\ queue' = queue /\ inFlight' = fetches

\* Mutant of Release: the slot is given up and given away.
ReleaseTwice(fetches) ==
  IF queue = << >>
  THEN active' = active - 1 /\ queue' = queue /\ inFlight' = fetches
  ELSE /\ active' = active - 1
       /\ queue' = Tail(queue)
       /\ inFlight' = [fetches EXCEPT ![Head(queue)].stage = "headers"]

\* release(): the slot goes to the fetch that waited longest, if one does.
\* `fetches' is what becomes of the fetches otherwise.
Release(fetches) ==
  IF queue = << >>
  THEN active' = active - 1 /\ queue' = queue /\ inFlight' = fetches
  ELSE /\ active' = active
       /\ queue' = Tail(queue)
       /\ inFlight' = [fetches EXCEPT ![Head(queue)].stage = "headers"]

\* record(): the attempt failed; the next provider's turn.
Recorded(fetch, outcome) ==
  [fetch EXCEPT !.at = @ + 1, !.stage = "next", !.attempts = Append(@, outcome)]

\* fetch() resolves, and the slot is free before the body is read.
HeadersArrive(k) ==
  /\ InStage(k, "headers")
  /\ ~inFlight[k].expired
  /\ \E status \in {"ok", "missing", "other"} :
       Release([inFlight EXCEPT ![k].stage = "body", ![k].status = status])
  /\ UNCHANGED <<asked, answer, cache>>

\* fetch() rejects: the network failed, or the attempt was aborted.
FetchRejects(k) ==
  /\ InStage(k, "headers")
  /\ Release([inFlight EXCEPT ![k] = Recorded(@, "other")])
  /\ UNCHANGED <<asked, answer, cache>>

\* The attempt's timer fires and aborts it. A fetch still queued only finds
\* out when it gets its slot.
TimeOut(k) ==
  /\ k \in DOMAIN inFlight
  /\ inFlight[k].stage # "next"
  /\ ~inFlight[k].expired
  /\ inFlight' = [inFlight EXCEPT ![k].expired = TRUE]
  /\ UNCHANGED <<asked, answer, cache, active, queue>>

\* The body is of an error status, too large, aborted, or not what was asked
\* for.
BodyFails(k) ==
  /\ InStage(k, "body")
  /\ \E outcome \in IF inFlight[k].status # "ok" THEN {inFlight[k].status}
                    ELSE IF inFlight[k].expired THEN {"other"}
                    ELSE {"other", "too_large"} :
       inFlight' = [inFlight EXCEPT ![k] = Recorded(@, outcome)]
  /\ UNCHANGED <<asked, answer, cache, active, queue>>

\* Mutant of Settle: the fetch stays in flight.
SettleLingering(k, result) ==
  /\ inFlight' = inFlight
  /\ answer' = [c \in Caller |->
                  IF asked[c] = k /\ answer[c] = None THEN result ELSE answer[c]]
  /\ UNCHANGED <<asked, active, queue>>

\* The fetch is over: it leaves inFlight, and whoever waits for it has its
\* answer.
Settle(k, result) ==
  /\ inFlight' = [j \in DOMAIN inFlight \ {k} |-> inFlight[j]]
  /\ answer' = [c \in Caller |->
                  IF asked[c] = k /\ answer[c] = None THEN result ELSE answer[c]]
  /\ UNCHANGED <<asked, active, queue>>

\* The body is read and accepted: cached unless it is big, and served.
BodyServes(k) ==
  /\ InStage(k, "body")
  /\ inFlight[k].status = "ok"
  /\ ~inFlight[k].expired
  /\ \E genuine, big \in BOOLEAN :
       LET source == k.chain[inFlight[k].at]
       IN  /\ ModeOf[k.item] = "tx" => genuine
           /\ Settle(k, [outcome |-> "served", source |-> source, genuine |-> genuine])
           /\ cache' = IF big THEN cache
                       ELSE [cache EXCEPT ![ModeOf[k.item]] =
                               Stored([item |-> k.item, source |-> source,
                                       genuine |-> genuine, fresh |-> TRUE])]

\* failure(): what the attempts amount to.
Verdict(attempts) ==
  IF attempts # << >> /\ ToSet(attempts) = {"too_large"} THEN "too_large"
  ELSE IF ToSet(attempts) \subseteq {"missing"} THEN "not_found"
  ELSE "upstream"

\* No provider is left.
GiveUp(k) ==
  /\ InStage(k, "next")
  /\ inFlight[k].at > Len(k.chain)
  /\ Settle(k, [outcome |-> Verdict(inFlight[k].attempts)])
  /\ UNCHANGED cache

Progress ==
  \E k \in Key :
    \/ Attempt(k) \/ HeadersArrive(k) \/ FetchRejects(k) \/ TimeOut(k)
    \/ BodyFails(k) \/ BodyServes(k) \/ GiveUp(k)

\* Every caller has its answer.
Quiet == (\A c \in Caller : answer[c] # None) /\ UNCHANGED vars

Next ==
  \/ \E c \in Caller : \E k \in Asks[c] : Ask(c, k)
  \/ Progress
  \/ \E m \in Mode : Expire(m)
  \/ ClearCaches
  \/ Quiet

Spec == Init /\ [][Next]_vars

\* Timers fire and the event loop runs; that a provider ever answers is not
\* assumed.
FairSpec == Spec /\ WF_vars(Progress)

-----------------------------------------------------------------------------
(* Properties. *)

Staged(stages) == {k \in DOMAIN inFlight : inFlight[k].stage \in stages}

\* No slot leaks and none is lost: the slots taken are exactly those of the
\* requests whose headers are awaited, through timeouts in the queue,
\* rejections and failovers; the queue holds every waiting request once; and
\* nobody waits while a slot is free. A body being read holds none: what the
\* slots bound is not the downloads, see DownloadsCapped.
\* (txProvider.js:66-86, 103-106)
SlotsAccounted ==
  /\ active = Cardinality(Staged({"headers"}))
  /\ ToSet(queue) = Staged({"queued"})
  /\ Len(queue) = Cardinality(ToSet(queue))
  /\ queue # << >> => active = MaxFetches

\* Whoever waits, waits for a fetch that is in flight, and no fetch is in
\* flight that nobody waits for. (txProvider.js:143-154)
NobodyAbandoned ==
  DOMAIN inFlight = {asked[c] : c \in {d \in Caller : Waiting(d)}}

\* Whatever mix of cache hits, joined fetches and failovers answered, what a
\* caller is served comes from a provider that caller allows, and a
\* transaction is the one asked for. (txProvider.js:187-190, 196, 206)
ServedFromChain ==
  \A c \in Caller :
    answer[c] # None /\ answer[c].outcome = "served" =>
      /\ answer[c].source \in ToSet(asked[c].chain)
      /\ ModeOf[asked[c].item] = "tx" => answer[c].genuine

\* A cache never outgrows its limit and never holds two answers for one item.
\* (cache.js:22-28)
CacheBounded ==
  \A m \in Mode :
    /\ Len(cache[m]) <= CacheMax[m]
    /\ \A i, j \in DOMAIN cache[m] :
         cache[m][i].item = cache[m][j].item => i = j

\* What the code counts stays within its limits, and the slots in step with the
\* requests that await their headers: the two above, over variables of their
\* types. (txProvider.js:66-86, cache.js:22-28)
WithinLimits == TypeOK /\ SlotsAccounted /\ CacheBounded

\* What the limit is for: it "caps how many upstream downloads run at once", and
\* a download runs for as long as its body is streamed. (txProvider.js:62-65,
\* README.md:361)
DownloadsCapped ==
  Cardinality({k \in Staged({"body"}) : inFlight[k].status = "ok"}) <= MaxFetches

\* Every caller is answered, even if no provider ever is. (txProvider.js:98-99)
EveryoneAnswered ==
  \A c \in Caller : Waiting(c) ~> answer[c] # None

-----------------------------------------------------------------------------
(* The inductive invariant behind the safety properties.                      *)

\* The queue holds every request that waits, once.
QueuedOnce ==
  /\ ToSet(queue) = Staged({"queued"})
  /\ \A i, j \in DOMAIN queue : queue[i] = queue[j] => i = j

\* A request whose headers are awaited has a slot, and nobody else has; one
\* waits for a slot only if none is free.
SlotsHeld ==
  /\ IsFiniteSet(Staged({"headers"}))
  /\ active = Cardinality(Staged({"headers"}))
  /\ queue # << >> => active = MaxFetches

\* A fetch tries a provider of its chain, or is between two of them; a body is
\* read once there is a status.
OnChain ==
  \A k \in DOMAIN inFlight :
    /\ inFlight[k].at >= 1
    /\ inFlight[k].stage # "next" => inFlight[k].at <= Len(k.chain)
    /\ inFlight[k].stage = "body" => inFlight[k].status # "none"

\* A cached transaction is the one its item names.
CacheGenuine ==
  \A m \in Mode : \A i \in DOMAIN cache[m] :
    ModeOf[cache[m][i].item] = "tx" => cache[m][i].genuine

\* Who has not asked has no answer.
AskedFirst == \A c \in Caller : asked[c] = None => answer[c] = None

ProviderIInv ==
  /\ TypeOK
  /\ QueuedOnce
  /\ SlotsHeld
  /\ OnChain
  /\ CacheBounded
  /\ CacheGenuine
  /\ AskedFirst
  /\ NobodyAbandoned
  /\ ServedFromChain

=============================================================================
