------------------------------- MODULE Replay -------------------------------
(* src/indexer/replay.js: one token's history walked back from an outpoint,   *)
(* and applied forward, through the same rules, to a store of its own. What    *)
(* it finds is compared with the index that read the whole chain.             *)
EXTENDS TokenLedger, Lists

CONSTANT MaxDepth     \* how far collectHistory walks back

ASSUME DepthAssumption == MaxDepth \in Nat

DocAt(o) == chain[o[1]].outputs[o[2]]

\* Mutant of Follow: only inputs that carry an amount are followed.
FollowAmounts(id, passed) ==
  Kept(chain[id].inputs, {o \in Ins(chain[id]) : /\ o[1] \notin passed
                                                 /\ DocAt(o) # NoToken
                                                 /\ ~IsAuth(DocAt(o))})

\* The inputs to follow: those that are token outputs, well formed or not. The
\* ones whose transaction was seen, and those whose fetch fails, are passed over.
Follow(id, passed) ==
  Kept(chain[id].inputs, {o \in Ins(chain[id]) : o[1] \notin passed /\ DocAt(o) # NoToken})

\* An input followed whose document states no op is none that the walk can read:
\* token.op is null, and asking what it starts with throws.
Trips(inputs) == \E o \in ToSet(inputs) : DocAt(o).op = None

\* A transaction taken off the queue, unless it was seen; `lost' cannot be fetched.
\* The walk is over once it has thrown: nothing is made of what follows.
Discover(st, id, lost) ==
  LET inputs == Follow(id, ToSet(st.seen) \cup {id} \cup lost)
  IN  IF id \in ToSet(st.seen) THEN st
      ELSE [seen   |-> Append(st.seen, id),
            queue  |-> st.queue \o inputs,
            thrown |-> st.thrown \/ Trips(inputs)]

\* The queue is first in, first out, so it is worked off depth by depth.
Level(st, lost) ==
  LET after[n \in 0 .. Len(st.queue)] ==
        IF n = 0 THEN [st EXCEPT !.queue = << >>]
        ELSE Discover(after[n - 1], st.queue[n][1], lost)
  IN  after[Len(st.queue)]

\* collectHistory: the transactions that fed an outpoint, in order of discovery,
\* and whether the walk threw instead of returning them.
CollectHistory(o, lost) ==
  LET level[d \in 0 .. MaxDepth + 1] ==
        IF d = 0 THEN [seen |-> << >>, queue |-> <<o>>, thrown |-> FALSE]
        ELSE Level(level[d - 1], lost)
  IN  level[MaxDepth + 1]

Deps(ids, id) == {o[1] : o \in Ins(chain[id])} \cap ToSet(ids)

\* Mutant of Ready: one of two branches is enough.
ReadyOnSome(ids, done) ==
  {id \in ToSet(ids) : Deps(ids, id) = {} \/ Deps(ids, id) \cap ToSet(done) # {}}

Ready(ids, done) == {id \in ToSet(ids) : Deps(ids, id) \subseteq ToSet(done)}

\* One round takes all that are ready, or, should there be none, all.
Round(ids, done) ==
  LET pending == Kept(ids, ToSet(ids) \ ToSet(done))
      ready == Kept(pending, Ready(ids, done))
  IN  done \o (IF ready = << >> THEN pending ELSE ready)

OrderByDependency(ids) ==
  LET done[n \in 0 .. Len(ids)] == IF n = 0 THEN << >> ELSE Round(ids, done[n - 1])
  IN  done[Len(ids)]

\* replayToken, into an empty store: a transaction's place stands for its
\* height and its idx.
Replayed(txs) ==
  LET store[i \in 0 .. Len(txs)] ==
        IF i = 0 THEN [k \in Key |-> Absent]
        ELSE Apply(store[i - 1], TransactionWrites(store[i - 1], chain[txs[i]], i - 1, i - 1))
  IN  store

\* What throws while the history is collected rejects the whole replay.
Thrown(o, lost) == CollectHistory(o, lost).thrown

ReplayToken(o, lost) ==
  LET txs == OrderByDependency(CollectHistory(o, lost).seen)
  IN  Replayed(txs)[Len(txs)]

-----------------------------------------------------------------------------
(* Properties. *)

\* Whatever fetches of parents fail, a replay that does not throw applies each
\* transaction collected once, and after every collected transaction it spends
\* from: "a transfer drawing on two branches must follow both". (replay.js:59-95)
ReplayInOrder ==
  \A o \in Unspent : \A lost \in SUBSET (DOMAIN chain \ {o[1]}) :
    LET ids == CollectHistory(o, lost).seen
        txs == OrderByDependency(ids)
    IN  ~Thrown(o, lost) =>
        /\ IsInjective(txs) /\ ToSet(txs) = ToSet(ids)
        /\ \A i, j \in DOMAIN txs : txs[j] \in Deps(ids, txs[i]) => j < i

\* The transactions one descends from, over token outputs.
Closed(ids) ==
  \A i \in ids : \A o \in Ins(chain[i]) : DocAt(o) # NoToken => o[1] \in ids
Lineage(id) == {i \in DOMAIN chain : \A S \in SUBSET DOMAIN chain : id \in S /\ Closed(S) => i \in S}

\* Every mint a token output descends from descends from the deploy itself.
Mints(id, k) ==
  \E v \in TokenOutputs(chain[id]) :
    LET doc == chain[id].outputs[v] IN doc.op = "mint" /\ KeyOf(doc, <<id, v>>) = k
Rooted(id, k) == \A i \in Lineage(id) : Mints(i, k) => k[1] \in Lineage(i)

\* What a store says of an output: whose token, how much, an authority or not.
Reads(rec, o) ==
  IF Held(rec, Utxo(o))
  THEN <<rec[Utxo(o)].tokenKey, rec[Utxo(o)].amount, rec[Utxo(o)].authority, rec[Utxo(o)].owner>>
  ELSE << >>

\* An input somewhere behind the transaction is a document without an op.
StumblesBehind(id) ==
  \E i \in Lineage(id) : \E o \in Ins(chain[i]) : DocAt(o) # NoToken /\ DocAt(o).op = None

\* Nothing lost and nothing cut off, the replay of a BSV-21 output throws only
\* over a document without an op that was spent behind it. Otherwise it says of
\* the output what the index of the whole chain says: live or not, how much,
\* whose, and whether it is an authority; as long as every mint behind it
\* descends from the deploy. Where the deploy is not among the transactions
\* behind it, the output is at most missing. (replay.js:10-18, 49-52)
ReplayAgrees ==
  \A o \in {p \in Unspent : DocAt(p) # NoToken /\ DocAt(p).standard = "BSV-21"} :
    LET k == KeyOf(DocAt(o), o)
        replayed == ReplayToken(o, {})
    IN  MaxDepth >= Len(chain) /\ k # NoKey =>
          \/ Thrown(o, {}) /\ StumblesBehind(o[1])
          \/ /\ ~Thrown(o, {})
             /\ Rooted(o[1], k) => Reads(replayed, o) = Reads(records, o)
             /\ k[1] \notin Lineage(o[1]) => Reads(replayed, o) \in {<< >>, Reads(records, o)}

=============================================================================
