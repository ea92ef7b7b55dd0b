------------------------------ MODULE RateLimit ------------------------------
(* src/lib/rateLimit.js: a token bucket per client, refilled continuously, and *)
(* a sweep that forgets idle clients. Time is counted in ticks, and a bucket   *)
(* in the units that Rate of them flow in per tick and Cost of them pay for a  *)
(* request, so that the fractions of the code are whole numbers here.          *)
EXTENDS Integers, Sequences, FiniteSetsExt

CONSTANTS
  Client, None,
  Burst,            \* requests a full bucket pays for
  Cost, Rate,
  Second,           \* ticks in a second
  Idle,             \* ticks after which a client counts as idle: ten minutes
  MaxTime           \* bound: ticks

\* An idle client's bucket has filled up by the time it is forgotten. The code
\* does not check it; 30 requests at 120 a minute, its defaults, take 15 seconds.
ASSUME RateAssumption ==
  /\ {Burst, Cost, Rate, Second} \subseteq Nat \ {0}
  /\ Idle \in Nat
  /\ Burst * Cost <= Rate * Idle
  /\ None \notin Int \cup [tokens : Nat, updated : Nat]

VARIABLES
  now,
  buckets,          \* per client: None, or [tokens, updated]
  granted,          \* history, per client: when requests were let through
  promise           \* per client: when the last 429 said to come back, or None

limiter == <<now, buckets, granted, promise>>

LimiterInit ==
  /\ now = 0
  /\ buckets = [c \in Client |-> None]
  /\ granted = [c \in Client |-> << >>]
  /\ promise = [c \in Client |-> None]

\* Mutant of Refilled: time alone fills the bucket, without end.
RefilledForever(c) ==
  IF buckets[c] = None THEN Burst * Cost
  ELSE buckets[c].tokens + (now - buckets[c].updated) * Rate

\* What client c's bucket holds by now; a new client's is full.
Refilled(c) ==
  IF buckets[c] = None THEN Burst * Cost
  ELSE Min({Burst * Cost, buckets[c].tokens + (now - buckets[c].updated) * Rate})

Left(c, tokens) == [buckets EXCEPT ![c] = [tokens |-> tokens, updated |-> now]]

\* A request is let through.
Admit(c) ==
  /\ Refilled(c) >= Cost
  /\ buckets' = Left(c, Refilled(c) - Cost)
  /\ granted' = [granted EXCEPT ![c] = Append(@, now)]
  /\ promise' = [promise EXCEPT ![c] = None]
  /\ UNCHANGED now

\* Mutant of RetryAfter: rounded down.
RetryAfterDown(missing) == Max({1, missing \div (Rate * Second)})

\* The seconds until the missing units have flowed in, at least one.
RetryAfter(missing) == Max({1, (missing + Rate * Second - 1) \div (Rate * Second)})

\* 429, with retry-after.
Refuse(c) ==
  /\ Refilled(c) < Cost
  /\ buckets' = Left(c, Refilled(c))
  /\ promise' = [promise EXCEPT ![c] = now + RetryAfter(Cost - Refilled(c)) * Second]
  /\ UNCHANGED <<now, granted>>

\* The timer's sweep. It is due once a minute; here, at any time.
Sweep ==
  /\ buckets' = [c \in Client |->
                   IF buckets[c] # None /\ buckets[c].updated < now - Idle THEN None
                   ELSE buckets[c]]
  /\ UNCHANGED <<now, granted, promise>>

Tick ==
  /\ now < MaxTime
  /\ now' = now + 1
  /\ UNCHANGED <<buckets, granted, promise>>

-----------------------------------------------------------------------------
(* Properties. *)

\* "A burst is allowed but a sustained flood is not": over any stretch of time
\* a client gets no more requests through than a full bucket and what flowed in
\* meanwhile pay for, forgotten and remembered in between or not.
\* (rateLimit.js:7-10, 20-26)
AdmittedWithinRate ==
  \A c \in Client : \A i, j \in DOMAIN granted[c] :
    i <= j => (j - i + 1) * Cost <= Burst * Cost + Rate * (granted[c][j] - granted[c][i])

\* A client that waits as long as a 429 told it to is let through: no request
\* is refused at or after the time the last refusal named. (rateLimit.js:40-50)
RetryAfterHolds ==
  [][\A c \in Client :
       promise[c] # None /\ promise'[c] # None /\ promise'[c] # promise[c] => now < promise[c]]_limiter

-----------------------------------------------------------------------------
(* The inductive invariant behind them.                                       *)

LimiterTypeOK ==
  /\ now \in Nat
  /\ buckets \in [Client -> {None} \cup [tokens : 0 .. Burst * Cost, updated : 0 .. now]]
  /\ granted \in [Client -> Seq(0 .. now)]
  /\ promise \in [Client -> {None} \cup Int]

\* What was let through since a request, and what the bucket still holds, was in
\* the full bucket or flowed in since.
Paid ==
  \A c \in Client : \A i \in DOMAIN granted[c] :
    (Len(granted[c]) - i + 1) * Cost + Refilled(c)
      <= Burst * Cost + Rate * (now - granted[c][i])

\* By the time a 429 named, what a request costs has flowed in.
PromiseCovered ==
  \A c \in Client : promise[c] # None =>
    \/ Refilled(c) >= Cost
    \/ now < promise[c] /\ Refilled(c) + Rate * (promise[c] - now) >= Cost

LimiterIInv == LimiterTypeOK /\ Paid /\ AdmittedWithinRate /\ PromiseCovered

=============================================================================
