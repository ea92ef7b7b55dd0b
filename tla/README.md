# ordinal-source-api, specified

TLA+ specifications of [ordinal-source-api](../src/README.md): a read-only HTTP
API for 1Sat Ordinals on BSV, with a token indexer of its own. This directory
models the parts of it that keep state or decide something, checks them with
TLC on small instances, and proves the central ones with TLAPS for every
instance. Paths below are relative to the repository (`src/` is the
application, `packages/core/` the protocol library).

1. [The system](#1-the-system)
2. [Modules](#2-modules)
3. [How the modules correspond to the code](#3-how-the-modules-correspond-to-the-code)
4. [Runs](#4-runs): what is checked, on what, and why that is enough
5. [Fairness](#5-fairness)
6. [Proofs](#6-proofs)
7. [Where the code and its text disagree](#7-where-the-code-and-its-text-disagree)
8. [What is not modelled](#8-what-is-not-modelled)
9. [Plan](#9-plan)

## 1. The system

Two processes share one database. The **indexer** (`src/indexer/cli.js`)
follows the chain and writes what token transactions amount to; the **API**
(`src/index.js`) fetches transactions from upstream providers, parses them,
recomputes what it can from their bytes, and reads the index.

| component | state | operations | talks to |
| --- | --- | --- | --- |
| ingest loop `indexer/indexer.js` | the locals of `run` and `ingestBlock`, `stopping` | `run`, `ingestBlock`, `stop` | block source (awaits), store (calls), rules (calls) |
| block source `indexer/blockSource.js` | none | `getTip`, `getBlock`, `transactions` in windows of bulk requests | WhatsOnChain over HTTP, with retries |
| in-memory store `indexer/store.js` | five maps in one, undo log, cursor | `apply`, `revert`, `commitBlock`, `rollbackBlock`, readers | |
| durable store `indexer/sqliteStore.js` | tables `records`, `blocks`, `meta` | the same, as SQL statements | SQLite |
| token rules `indexer/rules.js` | none | `applyTransaction`: store and transaction to writes | store (reads) |
| token replay `indexer/replay.js` | a throwaway store | `collectHistory`, `orderByDependency`, `replayToken` | provider, rules |
| transaction provider `services/txProvider.js` | slots, queue, fetches in flight, two caches | `fetchTransaction`, `fetchOutputScript`, `clearCaches` | providers over HTTP |
| cache `services/cache.js` | an LRU map with expiry | `get`, `set`, `clear` | |
| chain verification `services/verify.js` | one fetch budget per request | `walkToOrigin`, `walkToTip`, `verifyOrdinal` | provider, external indexes, ordinal arithmetic |
| token validation `services/tokenValidate.js` | one budget and memo per request | `validateTransaction` | provider, token documents |
| external indexers `services/indexer.js` | none | `lookupSpend`, `traceOrdinal` | two third parties |
| re-inscription `services/reinscription.js` | none | `inspectChain` | provider |
| rate limit `lib/rateLimit.js` | a bucket per client | the middleware, a sweep | |
| core library `packages/core` | none | script, envelope, field and token parsing; ordinal arithmetic | |
| index routes `routes/index.js` | the store it opened | `localSpend`, tokens, outpoints, addresses | durable store (reads) |
| ordinal routes `routes/ordinals.js` | none | outputs, contents, chain positions | parsing, trace, verification, inspection |
| shell, metrics, views | none a property is about | | everything above |

What is hard, per component, and what makes it correct:

* **Ingest loop and stores.** Between any two awaits the source may switch to
  another chain; a block is applied transaction by transaction and committed at
  its end; a rollback may empty the undo log; the process may be stopped, fail,
  or die anywhere. Correct means: the index always equals what a fresh index of
  its own chain would hold, a reorg of at most `undoDepth` blocks is always
  undone exactly, a block is rolled back only on the word of a chain without it, a
  higher chain is caught up with, all of it survives a restart, and whoever reads
  the database meanwhile sees nothing out of order.
* **Token rules.** One transaction reads the store from before it and stages its
  writes; balances, outputs, the spend index and supplies are four views of the
  same tokens. Correct means the four agree after every history, and supply
  bounds circulation.
* **Transaction provider.** Concurrent requests share slots, fetches and cache
  entries, with a timer on every attempt that starts before its slot is granted.
  Correct means no slot leaks, nobody waits for nothing, nobody is served from a
  provider it did not allow, and everybody is answered.
* **Chain verification.** Long walks over other people's answers under a budget.
  Correct means what is reported is true of the satoshi, whatever an index says.
* **Token validation.** A recursion with a memo, a depth and a budget in which
  any read may fail. Correct means verdicts are not guesses and what is proven is
  backed.
* **Token replay.** A graph is discovered backwards, in whatever order and with
  whatever gaps, and applied forwards; a document it cannot read ends the walk.
  Correct means parents first, and, with nothing lost and everything readable, the
  answer of the index that read the whole chain.
* **Parsing and views.** The indexer and the API read the same output through
  different code. Correct means they see the same token, the same content and
  the same owner in it, and that what is called well formed can be worked with.
* **Chain position and re-inscription.** A stranger's claim, a walk that may have
  been cut short and an inspection of both are put side by side. Correct means
  the verdict is true of the satoshi and the inspection tells what it read.
* **Rate limit.** A bucket is forgotten when idle and comes back full. Correct
  means no client gains by being forgotten, and a refusal's promise is kept.
* **Index routes.** Two reads make one answer while another process writes.
  Correct means that each thing said was true at some moment of the request, and
  all of it together when nothing was committed in between.

`PROJECT.json` lists the places where each of these can go wrong ("hazards"),
at their lines, with the properties that watch them.

## 2. Modules

```
Store ── StoreLoops ─┐                  apply() and revert(), in closed form and as loops
  ├─ Chain ── Indexer ┴─ SqliteIndexer  the ingest loop over either store
  │             ├ - - ChainIndex        what the loop keeps in memory (INSTANCE)
  │             └ - - TableIndex        what readers of the database see (INSTANCE)
  └─ BlockTree                          a tree of blocks for TLC
TokenRules ── TokenLedger ── Replay      applyTransaction; every history of it; one
  │           Lists ───────────┘         token's own history
  └─ TokenDocument ─┐                    what an inscribed document says
Envelope ───────────┴─ Parsing           the envelopes of a script; one output as the
                                         index and as the API read it
TxProvider                               slots, queue, coalescing, failover, cache
FetchBudget, OrdinalMath ── Verify       the two walks over a chain
            Lists ───────────┴─ ChainPosition   claim, verdict and inspection around them
FetchBudget ── TokenValidate             conservation and the recursion behind it
RateLimit, IndexReader ── Api            the limiter before the reader of the index
MC*                                      instances for TLC

HelperProofs ── IndexerProofs            theorems: the store's operators, sums and lists;
  │                                      the loop over the store and over the database;
  ├─ TokenProofs                         every history of the token rules, and the
  ├─ TokenValidateProofs                 replay of one token's; the validation; the
  ├─ VerifyProofs                        walks and what is replied of them; scanner,
  └─ ParsingProofs                       documents and the readers of an output
TxProviderProofs, ApiProofs              the provider; the limiter and the reader
```

`Chain` makes what a transaction writes a constant operator, so that the
indexers are about *when* writes land and are taken back and `TokenRules` about
*what* they are. There are two abstract specifications. `ChainIndex` is an index
that moves by whole blocks, one up or one down, and holds exactly what the blocks
below amount to: what `Indexer` keeps in memory, where nobody reads the maps while a
block is applied. A process that opens the database does read meanwhile, and every
transaction's writes commit on their own. `TableIndex` is what it can rely on: the
first transactions of the one block on top of the cursor's may show, in order and
until the block counts, and a block's records are taken back in one step before
the cursor moves. `SqliteIndexer` implements it, with what a reader sees, the
records and the cursor, mapped to itself.

In every module a definition named `XSomething` that a comment calls "Mutant of
X" is X with a plausible bug; `PROJECT.json` pairs each with the property that
rejects it. They document what the property is sensitive to, and nothing else
uses them.

## 3. How the modules correspond to the code

**Store.** A store is one function from keys to values with `Absent` for a key
that is not there (the code's five maps, or the `records` table). `Apply`,
`Before` and `Revert` say what the loops of `store.js:51-69` compute;
`StoreLoops` has the loops, `Rounds` being what the maps hold after each round, and
`LoopsAreClosedForms` says that both agree on all the indexer meets.

**Indexer.** `pc` says where `run()` is: `poll` at the top of its outer loop,
`sleep` in the `pollMs` wait, `fetch` at the top of the inner loop, `apply` in the
`for await` of `ingestBlock`, `await` between the request for a block and what is
made of the answer, `done` or `failed` when it has ended. One action is
what the code does between two awaits: `Poll` reads the tip, `AskForBlock` asks for
the next block and `SourceAnswers` is the source's answer, `fetched`; `BeginBlock`,
`Rollback` and `RefuseReorg` are its three outcomes, later, when the source may have
moved on and `stop()` been called;
`ApplyTransaction` applies one transaction as the source yields it,
`CommitBlock` ends the block. `LeaveOutTransaction` is the bulk answer that lacks
a transaction (`blockSource.js:116-128`, logged and skipped), `RequestFails` a
request whose retries are used up, `SourceMoves` the source switching to any
other block of the tree, `Stop` the signal handler. `highest` is a history
variable. Blocks stand for their hashes; a chain is the path to a block.

**SqliteIndexer.** The same loop with `commitBlock()` and `rollbackBlock()` cut
into the statements that commit on their own (`PushRow`, `TrimRows`,
`SetCursor`; `RevertLast`, `DropRow`, `MoveCursor`), and `Restart`: the process
ends and another opens the database. The table `blocks` is a sequence in the order
of its heights, which is the order every statement reads it in; `WithRow` is the
`INSERT OR REPLACE`. `apply()` and `revert()` are one database
transaction each. `CrashAnywhere` says whether a process may end in the middle
of a block or a rollback.

**TokenRules, TokenLedger.** `TransactionWrites` is `applyTransaction`. `Work` is
how far it is after each input and output, as a recursive function of their
number: the writes so far, the balances `staged`, what `remaining` of each token
the inputs still carry, and the tokens `authorised`. `Consume` is one input,
`Create` one output, judged by `Accepted` and `Amount` against the store as it was
before the transaction; `BalanceWrites` come last. A document is the
classified record `classifyToken` returns, reduced to what the rules read.
`TokenLedger` applies any legal history: a transaction spends outputs the chain
still holds and carries any of a set of documents, well-formed or not.

**Replay.** `CollectHistory` works the queue of `collectHistory` off level by
level, which is what a first-in first-out queue does, `Follow` being the inputs
pushed for one transaction; `lost` are the transactions whose fetch as a parent
fails. `Trips` is the input that ends the walk with an error: a document without an
op, whose `op` is null when `replay.js:51` asks what it starts with, outside the
`try`; `Thrown` is a replay that rejects for it. `OrderByDependency` repeats the `while` loop of `orderByDependency`, and
`ReplayToken` applies the result with the operators of `TokenRules` to an empty
store, the place in the order standing in for height and idx as in the code. All
of them are recursive functions, and `Kept` of `Lists` is `Array.filter`, so that
they can be proved about.

**Envelope, TokenDocument, Parsing.** A script is a sequence of chunks `[op,
bytes]`; `ParseOne` computes, from where the pairs end (`Pairs`) and where the
body ends (`BodyEnd`), what the loop of `parseOne` leaves in its variables, and
`ParseEnvelopes` is rounds of `Scanned`, one per envelope found. A
document is its JSON as a record whose fields are missing, blank, junk, a number
as its digits, or a name; `Classify` is `classifyToken`, `Faults` whether it
found an error. `Parsing` is one output and one request for it: `TokenAt` and
`RulesRead` are what the indexer takes from it, `View`, `Raw`, `Content` and
`SelectBytes` what the routes answer.

**TxProvider.** A fetch in flight is a record keyed, as in `coalesce`, by what is
asked for and the provider chain; its stages are the awaits of `attempt()`:
`next` (between providers), `queued`, `headers` (holds a slot), `body` (holds
none). `Ask` is everything up to the first await: the cache lookup, joining or
starting a fetch. `Release` hands the slot to the head of the queue. Time is an
entry that stops being fresh and a timer that may fire at any moment. A cache is
its entries in the order of the code's `Map`, least recently used first: `Looked`
moves what was found to the end, `Stored` drops the first when there is no room.

**Verify.** `pc` is the await at which `verifyOrdinal` stands: `origin` and
`inputs` in the walk back, `tip`, `spender` and `before` in the walk forward.
`FetchBudget` is the code's `Budget`: `Obtain` a transaction from the hand or by
a fetch, or be `Refuse`d because the budget is spent or the fetch failed.
`LookUp` lets the indexes answer anything at all. `OrdinalMath` holds the
arithmetic as operators. The chain is a constant sequence of transactions that
spend earlier outputs, never twice, and never pay out more than they spend.
Positions count from 1 in the model and from 0 in the code.

**ChainPosition.** `phase` is where the handler of `GET /v1/ordinal/:outpoint`
stands: `trace`, `walk` (the steps of `Verify`), `inspect`, `show`, `replied`. What
an indexer answers is any place the satoshi ever was, on the right side of the
queried one, or a lie, or nothing; `ClaimOf` and `Role` are what `traceOrdinal`
makes of it. `Candidates` are what `inspectChain` calls `add` with, `Points` the
first of each outpoint among them, `Inspection` its report of those. `Kept` and
`Chosen` of `Lists` are the filters of both. Contents are compared as model values.

**RateLimit, IndexReader, Api.** Time is in ticks, and a bucket counts in units of
which `Cost` pay for a request and `Rate` flow in per tick: `perMinute / 60000` and
1 as whole numbers. `granted` and `promise` are history. `IndexReader` follows one
output and its token in the database: `Begin` is a handler's first read, `Answers`
its second and the answer, `Writes` any transaction of the indexer in between,
taking a block back included. `Api` is the two behind one another, as `app.js`
mounts them.

**TokenValidate.** `stack` holds the calls of `validateTransaction` under way,
each with its depth, the next input, the inputs missed, the sources not walked
yet and whether all so far were proven. `results` is the memo. `Conclude` is the
moment every input was read or missed. Documents are `[key, op, amount]`, the key
being what the code balances by.

`PROJECT.json` ("map") names the lines of every definition.

## 4. Runs

| run | module, distinct states | expects |
| --- | --- | --- |
| `indexer` | MCIndexer, 32 740 | pass |
| `sqlite` | MCSqliteIndexer, 21 524 | pass |
| `sqlite_crash` | MCSqliteIndexer | violation |
| `rules` | MCTokenLedger, 65 297 | pass |
| `rules_batch` | MCTokenLedger | violation |
| `parsing` | MCParsing, 89 669 | pass |
| `txprovider` | MCTxProvider, 89 932 | pass |
| `downloads` | MCTxProvider | violation |
| `position` | MCChainPosition, 207 405 | pass |
| `verify_thrown` | MCVerify | violation |
| `tokenvalidate` | MCTokenValidate, 2 592 | pass |
| `api` | MCApi, 970 844 | pass |

Each violation run is a disagreement between the code and its own text, told in
[section 7](#7-where-the-code-and-its-text-disagree).

**indexer.** `TypeOK`; `IndexMatchesChain` (the content is a fresh replay of the
chain at the cursor, and the values captured so far take a block under way
back); `UndoWindowHolds` (the undo log always reaches `UndoDepth` below the
highest block, and a reorg is refused only beyond it); `RollsBackOnlyOrphans`;
`ImplementsChainIndex`; `CatchesUp`; `LoopsAreClosedForms` (the loops of `store.js`,
over the index at hand and every batch of every block, those that write a key
twice or delete one included). Bounds: the tree of `BlockTree` has forks
of depth 3 against an `UndoDepth` of 2, one fork from the very first block (so
that a rollback empties the log and goes below `StartHeight`), a block without
transactions, and forks that hold the same transactions in another order;
`MaxReorgs = 3` lets the source change its mind while a reorg is being walked
back, and change it back: a block may be rolled back on an answer from a chain the
source has left again by then, the block's own having returned. The code has no
way to know, so `RollsBackOnlyOrphans` compares the rollback with the answer, and
it is `CatchesUp` that says the block is then indexed again. What transactions write is chosen so that no two orders, repetitions or
omissions produce the same content: a write appends its own name to what the
key held. `Window = 1` makes every transaction a place where a request may
fail. `Once` and `Until` are left at what the command line defaults to.

**sqlite.** The same questions of the durable store, with two restarts anywhere
that leaves no uncommitted record of a block behind and no rollback half done;
including between the three statements of `commitBlock`. `WindowSurvivesRestart`
is the sentence of `sqliteStore.js:11-13`, checked with an extra row a dead
process never trimmed; with it goes the type invariant of the durable variables.
`DurableImplementsTableIndex` is what a reading process sees of all of this, row by
row as the tables stand.

**rules.** `BalancesMatchOutputs`, `OutputsAreLiveOrSpent`,
`SupplyCoversCirculation`, `DeployStands`, `ReplayInOrder`, `ReplayAgrees`, over
every history of three transactions with up to two inputs and two outputs: a
ticker capped at 3 with a limit of 2 per mint (so that a mint crosses the cap), a
BSV-21 token with and without an authority, malformed documents, one of them without an op, outputs of two
satoshis, outputs without an owner. Three transactions are a deploy, something, and something
that spends both; a diamond of inputs, the case an order by dependency is for,
fits in. `ReplayInOrder` is asked of every unspent output and every set of lost
parents, where the replay does not throw; `ReplayAgrees` of the BSV-21 outputs, with nothing lost and a
`MaxDepth` no history exceeds, since what a replay cut short finds is silently
less, and of those behind which every mint descends from the deploy (section 7;
where the deploy is not behind an output at all, it says what remains true). A
replay that throws must have met a document without an op behind the output. `SupplyCoversCirculation` excepts tokens that one
transaction issued or burned in several outputs at once; `rules_batch` says why.

**txprovider.** Three callers, a transaction two of them ask for alike and one
through other providers, a second transaction that evicts it, and a script; one
slot, so that two fetches queue; caches of one entry. `WithinLimits` (the types,
the slots accounted for, the caches bounded), `NobodyAbandoned`,
`ServedFromChain`, `EveryoneAnswered`. With a
single slot and two waiters every order of release, timeout and rejection in
the queue occurs; further callers only lengthen the queue.

`downloads` asks instead whether what runs at once, the bodies being streamed, stays
within the limit.

**parsing.** Every sequence of up to three of eight chunks after the start of an
envelope, with and without a content type (up to two behind a lock or an OP_0),
before nothing, the end of the envelope and a lock, a separator and a lock,
`OP_FALSE OP_RETURN` data, or a second envelope and a lock; and a grid of some
thousand documents: every op and none, tickers that are missing, blank or too long, ids that
are missing, sound or junk, amounts that are missing, junk, zero, in and out of
range, precisions in and out of range. Each is asked for joined or not, whole or
script only, with a deploy that can be had or not. `MaxUint = 500` stands for
2^64 - 1. `ScannerReadsEnvelopes` compares the scan with a declarative reading of the
format (`IsEnvelope`); `IndexSeesWhatViewShows`, `ContentIsWhatViewHashes`,
`WellFormedIsUsable`, `DisplayIsExact` compare the readers of one output with each
other, with the rules' needs, and an amount shown with its digits as inscribed.

**position.** From every outpoint (and one that does not exist) of a chain in which
satoshis are packed, split, merged, sent behind other inputs and past an empty
output, paid to the miner, and inscribed again on the way. `TypeOK` (with the
budget), `OriginTrue`, `TipTrue`, `HolderFound` measure the walks against
`Satoshis`, which names every satoshi of the chain and follows the names. At every
hop the index may say nothing, deny a spend, or name any transaction; every fetch
may fail; the claim the walk is compared with may be anything. `VerdictIsTrue`,
`InspectionTellsAll`, `PositionAnswered` are about the reply. `MaxHops = 3` and
`MaxFetches = 6` are below what the longest walks need, so both limits are met.
Requests come plain, with `reinscriptions`, and with both flags; a walk alone is
the prefix of a walk and an inspection.

**tokenvalidate.** Every transaction of a chain of fifteen, to every depth up to
4, every read failing or not, a budget of 6 that long walks exhaust. The chain
has a deploy, splits, two paths of unequal length to one transaction (for the
memo), a burn, an authority and its mints, tokens out of nowhere handed on, a
transfer of nothing, a two-satoshi output, and documents without op or key.
`VerdictStands`: what is said of moved amounts is what reading every input would
say. `ProvenIsBacked`: the amount a proven transaction moves was created by
deploys and mints behind it. `MemoLosesNothing`: whatever a validation without
a memo a memo would prove is proven. (The converse is false and harmless: a
transaction proven at one depth is remembered as proven at a smaller one.)

**api.** One client, an idle time as short as `RateAssumption` allows (any shorter
and a client gains by being forgotten), six ticks: a burst, a refusal, a sweep
and a second burst. One output and its token, three transactions of the writer,
which is one more than a request can see on both sides of one. `AdmittedWithinRate`
bounds every stretch of time; `RetryAfterHolds` is the promise of a 429;
`ReadsHoldTogether` says that an output or a token is called unknown, live or spent
only as it was at some moment of the request, and, where the writer committed nothing
during the request, that what is told holds together: no circulation above the
supply, and an output unspent exactly when nobody spent it. Requests during which a
block was taken back are left out (section 7).

Safety properties are also sensitive: every property of a passing run has a
mutant that TLC rejects under the same configuration (`PROJECT.json`, "mutants").

## 5. Fairness

Liveness is checked under weak fairness of a module's own steps, and of nothing
else:

* `Indexer`, `SqliteIndexer`: the process is scheduled, and a request is answered
  or fails. `getJson` bounds every request and its retries. That the request
  *succeeds* is not assumed: `CatchesUp` allows a failure instead. That the
  source settles is a premise of the property.
* `TxProvider`: timers fire and the event loop runs. No provider is assumed to
  answer; the abort timer of `attempt()` (`txProvider.js:98-99`) is what makes a
  caller's wait end.
* `ChainPosition` (`FairPositionSpec`), `TokenValidate`: each awaited fetch or
  lookup is answered or fails, which is `EveryoneAnswered` of `TxProvider` for fetches.

## 6. Proofs

What a run shows of one small instance, these theorems state for **every** value
of the constants: every tree of blocks, every `UndoDepth`, any number of callers,
slots, clients, tickers, owners, documents, transactions, any chain, any history,
and any script.

| module | theorem | states |
| --- | --- | --- |
| `HelperProofs` | `RevertUndoesApply` | undoing what `apply()` captured restores the maps, however often a batch writes a key |
| `IndexerProofs` | `TypeCorrect` | `Spec => []TypeOK` |
| | `IndexCorrect` | `Spec => []IndexMatchesChain` |
| | `UndoWindowCorrect` | `Spec => []UndoWindowHolds` |
| | `OnlyOrphansRolledBack` | `Spec => RollsBackOnlyOrphans` |
| | `Refinement` | `Spec => ImplementsChainIndex` |
| | `LoopsDoWhatTheyShould` | `Spec => []LoopsAreClosedForms` |
| | `DurableIndexCorrect` | `DurableSpec => []DurableIndexMatchesChain` |
| | `DurableWindowCorrect` | `DurableSpec => []WindowSurvivesRestart` |
| | `DurableRefinement` | `DurableSpec => DurableImplementsTableIndex` |
| `TokenProofs` | `LiveOrSpent` | `Spec => []OutputsAreLiveOrSpent` |
| | `BalancesMatch` | `Spec => []BalancesMatchOutputs` |
| | `SupplyCovers` | `Spec => []SupplyCoversCirculation` |
| | `DeploysStand` | `Spec => DeployStands` |
| | `ReplaysInOrder` | `Spec => []ReplayInOrder` |
| | `ReplaysAgree` | `Spec => []ReplayAgrees` |
| `TxProviderProofs` | `LimitsKept` | `Spec => []WithinLimits` |
| | `NobodyIsAbandoned` | `Spec => []NobodyAbandoned` |
| | `ServesFromChain` | `Spec => []ServedFromChain` |
| `TokenValidateProofs` | `VerdictsStand` | `Spec => []VerdictStands` |
| | `ProvenMovesWhatExists` | `Spec => []ProvenIsBacked` |
| | `MemoIsSound` | `Spec => []MemoLosesNothing` |
| `VerifyProofs` | `TypeCorrect` | `Spec => []TypeOK` |
| | `OriginIsTrue` | `Spec => []OriginTrue` |
| | `TipIsTrue` | `Spec => []TipTrue` |
| | `HolderIsFound` | `Spec => []HolderFound` |
| | `PositionWalks` | `PositionSpec => Spec` |
| | `VerdictsAreTrue` | `PositionSpec => []VerdictIsTrue` |
| | `InspectionsTellAll` | `PositionSpec => []InspectionTellsAll` |
| `ParsingProofs` | `ScansEnvelopes` | `Spec => []ScannerReadsEnvelopes` |
| | `IndexAgreesWithView` | `Spec => []IndexSeesWhatViewShows` |
| | `ContentIsHashed` | `Spec => []ContentIsWhatViewHashes` |
| | `WellFormedDocuments` | `Spec => []WellFormedIsUsable` |
| | `DisplaysExactly` | `Spec => []DisplayIsExact` |
| `ApiProofs` | `RateKept` | `Spec => []AdmittedWithinRate` |
| | `RetryAfterIsEnough` | `Spec => RetryAfterHolds` |
| | `AnswersHoldTogether` | `Spec => []ReadsHoldTogether` |

`Inductive`, `DurableInductive`, `LedgerInductive`, `ProviderInductive`,
`ValidationInductive`, `ParsingInductive`, `ApiInductive` and, for the walks, the
lemma `InvariantHolds` are the inductive invariants behind them. An invariant the runs
check is hardly ever inductive; each strengthening is defined at the end of the
module it is about (`IInv`, `DurableIInv`, ...), next to the variables it explains
(that of the walks in `VerifyProofs`, for it needs what is defined there), and was
checked by TLC before it was proved, on the instances of the runs (that of
`Parsing`, which compares an answer with all there may be, on a part of its instance).

### Ingest loop over the in-memory store

`IndexMatchesChain` is not inductive: a rollback moves the content to what the top
entry of the undo log leads to, so the log has to be known to lead to the right
place. `IInv` adds

* `UndoLinked`: the log is the upper end of the indexed chain: consecutive
  heights, each entry's parent the entry below, the last one at the cursor, and
  each entry's captured values take its block's content to its parent's;
* `CursorPlaced`: the cursor's height is that of its block, or just below the
  first one (after a rollback of the first block, whose parent is unknown);
* `BlockPlaced`: a block under way sits on the cursor, and `next` is one above, as is
  the block the source answered with, however old the answer;
* `HighestPlaced`: what the history variable remembers is not below the cursor.

There is one lemma per kind of step. The one behind `ApplyTransactionStep` is
`RevertUndoesApply`: captured values concatenated over transactions still undo the
block. `RollbackStep` needs that the trimmed log is still linked. `Refinement`
reuses the step lemmas: every step either keeps `Indexed` and `Content`, or is an
`Extend` (`CommitBlock`) or a `Retract` (`Rollback`) of `ChainIndex`.

`LoopsDoWhatTheyShould` is what lets the rest speak of closed forms. `RoundsAre`:
after `n` rounds the maps hold what the first `n` writes leave, by induction over the
rounds (`OneRound`). What `apply()` captures in a round is then `Before`; and
`revert()` walks its list from the end, so that what is set last is what was
captured first (`FirstIsLast`).

Assumptions: those the modules name (`BlockAssumption`, `ChainAssumption`: a chain
is a path of parents; `ReplayAssumption`: `Replay` is the fold of `Writes` over a
chain, given by its two equations because a theorem can not unfold a recursion;
`NoneAssumption`, `SizeAssumption`), which TLC evaluates on the instance of the
runs. And, as a hypothesis of the theorems, `Lossless`: the source leaves no
transaction out (`Unavailable = {}`). Without it `IndexMatchesChain` is false as
soon as what was left out carries tokens; the run includes omitted transactions
that carry none.

### The same over the database

With the three statements of a commit and the three of a rollback as steps of
their own, the log and the cursor are out of step most of the time. `DurableIInv`
says by how much: `Linked(Rows)`, `Rows` being the table and, while it is deleted
and the cursor not moved, the row taken back; `TopPlaced`, the newest row is the
cursor's block or the one just above it, whose commit is under way or was left
behind by a process that wrote no record for it; `WindowKept`, the rows reach far
enough down and are at most one too many. The last is the case a test would miss:
a process that ends between the insert and the trim leaves a row too many, and the
next process's `INSERT OR REPLACE` and `DELETE` must neither lose the window nor
count that row twice.

Hypotheses: `Lossless`; `EndsUndisturbed` (`CrashAnywhere = FALSE`: no process dies
with part of a block's records written, or half way through a rollback), without
which the run `sqlite_crash` is the counterexample; and for the refinement only
`FirstBlocksAlike`: either every possible first block has a parent or none does,
which is to say that only a genesis block has none.

`DurableRefinement` maps the records and the cursor to themselves, so there is a step
of `TableIndex` behind every statement that a reader could notice. Of the rest, the
block under way is the writer's own, and `leaving` is read off the table: the last
row still names the cursor's block and the loop is past `RevertLast`. The cases to be
careful about are the rows a dead process left above the cursor: the restarted loop
may roll such a row back, which must change nothing a reader sees (`RowLeaves`).

### Token rules

`LedgerIInv` is the conjunction of the three safety properties and `SpendsEarlier`
(a transaction spends outputs of earlier ones, so that its own outpoints are new to
the store). What one transaction does to it is an induction over its inputs and
then its outputs, with an invariant of its own, `Midway`, about the writes so far
applied to the store and the balances still staged: for every owner and token the
staged or stored balance is the sum of the live outputs; for every token what
circulates, what was burned and what the inputs still carry is within the supply.
`ConsumeStep` and `CreateStep` keep it; `BalanceWrites` then turn what was staged
into what is stored. Two facts make the difference between a rule that holds and
one that does not: that no balance is ever debited below zero, so that the clamp of
`adjust()` never loses anything (the debit is one of a live output, which is part of
the sum), and that a token issued in one output only of a transaction has, at that
output, the record the store held (`Batched` excepts the others; `rules_batch`).
Sums are folds over finite sets in an order `CHOOSE` picks; `SumTake` of `HelperProofs`
shows that the order does not matter, and the rest of what is known of sums (over
two sets, a part, a partition, other names) follows from it.

Assumptions: `DocumentAssumption`, what `classifyToken` guarantees of a document
(the fields a standard and an op come with, the BSV-21 ones included), which is what
`WellFormedDocuments` shows of the model of `classifyToken`;
`MarkAssumption`, that the model values are none of the values they stand beside.

### Token replay

`ReplaysInOrder` is about two loops over a graph. `CollectGives`: what the queue
finds is without repetition, and, when no fetch fails and the depth suffices, it
is the `Lineage` of the outpoint, the least set that contains its transaction and the
parents of each of its members. The invariant of the levels is that whatever was seen has its
parents seen or queued, and that a transaction still to be found is at the end of
a path of distinct transactions, of which a chain of `Len(chain)` transactions has
none that is longer. `OrderGives`: a round takes at
least one transaction, for of those left the earliest on the chain depends on
none of the others; so after as many rounds as there are transactions all are
placed, each once and after those it depends on (`Placed`).

`ReplaysAgree` compares two runs of the same rules: the index applied the whole
chain, the replay a lineage of it in another order and from an empty store. A run
of either kind (`Ran`) has the same facts at every stage (`RunIs`): what is live was made by
a transaction already applied, is of the token its document names, and a token named
by an outpoint is deployed by that transaction alone and has no cap. What is said
of an output, and whether a token is deployed, changes only with the transactions
that spend or make it (`RunKeeps`). `HistoryIInv` is the invariant that makes the index a
run: the records are what the transactions of the chain make one after the other,
and no output is spent twice.

* `Twins`: two stores that say the same of a transaction's inputs as far as one token
  goes (`Alike`), and agree on its deploy where the transaction mints, say the same of
  its outputs; all else they hold does not matter. It goes step by step through
  the work on both (`TwinInput`, `TwinOutput`).
* `Lockstep`: so the two runs agree on every transaction of a lineage, by induction
  over the lineage, each input being what an earlier member made. A mint is why the
  lineage must be `Rooted`: only then was the deploy applied before it in both runs.
* `NothingMoves`: a run that never comes to the deploy accepts only outputs that
  move no amount, and those are accepted by every store (`NothingIsTaken`), so by the index.

### Transaction provider

`ProviderIInv` has three parts, and no step touches all of them: the cache is
bounded, without duplicates and genuine; the queue holds each waiting request once,
the slots taken are the requests whose headers are awaited, and one waits only
when no slot is free; whoever waits does so for a fetch in flight. `Release`, which
gives a slot to the head of the queue rather than back, keeps the middle part
because the head's stage and its place in the queue change in one step. `SettleStep` is the
one lemma that says what the end of a fetch does to all who joined it.

### Token validation

`ValidationIInv` says four things of a recursion under way:

* `StackOK`: every call but the outermost is about a source of the one below it, and
  what it is about is not remembered yet. That transactions only spend earlier ones
  makes the calls ever older, so what a call returns is about none of those below;
* `ResultsOK`: what is remembered is the verdict on some set of inputs read, and what
  is proven is conserved and has sources proven, unless it is made of deploys;
* `BackedSoFar`: while a call has met no source unproven, each of its sources is
  proven, still to come, or the call above. This is what makes `backed` at the end
  of the loop mean that every source is proven, however many of them the memo
  answered;
* `NothingLost`: while no read failed, no verdict rests on part of the inputs, and if
  what was asked for is provable without a memo, so is everything under way.

There is one lemma per kind of step; `ReturnKeeps` is the one they share, about an
answer handed to the call below. The properties follow by arguments about the chain
alone. `VerdictsStand`: what is spent grows with the inputs read (`SpentGrows`), so a
balance that covers what is moved goes on covering it (`DecidedIsFinal`); the
exceptions are `Unsettled`. `ProvenMovesWhatExists` needs no induction over the
chain: add up a token over all proven ancestors of `t` (`FlowIsBacked`). Each moves
no more than it spends; each amount spent is one that another of them moved or
created, and, as no output is spent twice and none of `t`'s own by an ancestor, what
`t` moves is what is left over, at most what deploys and mints created. `MemoIsSound`
is a part of `NothingLost`.

Assumptions: `TokenChainAssumption`, transactions spend existing outputs of earlier
ones and no output twice, which is what the chain guarantees; `TransactionAssumption`,
the form of a transaction and that amounts are naturals, which is what `parseUint`
leaves; `DepthAssumption` and `FetchAssumption`.

Four definitions could not be reasoned about and were rewritten for it: `Conserved`,
`Standard`, `IdOf` and `Role` translated chains of early returns as a CASE with guards
that overlap, which TLC reads from the top and TLA+ does not. They are now IFs, or
have disjoint guards.

### Chain verification

What the walks are measured against, `Satoshis`, follows every satoshi through
the whole chain; what they do is add up a few amounts. The proof is that these
agree, in four layers of lemmas.

1. *Sums.* `SumOf` and the search for the amount that covers an offset (`HolderIs`,
   `OneStretch`: exactly one stretch of outputs or inputs covers it), and where a
   flattened sequence has each part's elements (`FlattenIs`).
2. *Satoshis.* `Entering` unfolds at every transaction (`EnteringUnfold`, from the
   recursive function by the least transaction at which it would not). An output
   holds as many as its amount (`SatoshisAre`), which is where a chain must not pay
   out more than it spends. No two live places ever hold the same satoshi
   (`AllDistinct`, by induction over the chain: what a transaction puts out is new, or
   was in an output it spent, and no output is spent twice).
3. *A satoshi's way is a line.* Each place but the first is reached by spending one
   earlier place (`CameFrom`), each goes on to at most one later place (`WentOn`),
   and the offsets say which (`TracedBack`, `Lands`). `OneHolder`: of the places from
   here on, only one is unspent.
4. *The walks.* `WalkBack`: the walk stands at a place of the satoshi, which has
   been alone from there on, and the amounts valued so far are those of the
   transaction's first inputs and do not cover it yet. `WalkForward`: after a
   hop the walk stands where the satoshi is alone, each hop landed there, and
   the transaction named spends it when it was seen to. `Results`: what a walk
   returned is true. Together with the types they are inductive; there is one
   lemma per action.

`PositionWalks` shows the handler's steps to be steps of the walks or stutters, so
their invariants hold of every request, and `VerdictsAreTrue` compares the claim
with them.

The inspection is about the whole way and not its ends, so `InspectionsTellAll` needs
more of a walk than that what it says is true. `OnTrail`: the outpoints the walk has
been to since `start` are `Trail`, everywhere the satoshi went since, in the order
of the chain, and the hops are those. A step lengthens the trail by the one place the
satoshi went on to (`TrailGrows`), and `Told` says of a finished walk that its trail is
the `Track` to the holder, or to where it was lost (`TrailIsTrack`). The lists of the
inspection are made by filters; that what is kept keeps its order, and is everything
that was to be kept, is `KeptOfChosen` and `Through`.

Assumptions: `LedgerAssumption`, the chain is one (outputs that exist, of earlier
transactions, spent once; no more out than in); `ShapeAssumption`, amounts are
naturals, and `None` and `Coinbase` are no outpoints; `HopAssumption` and
`FetchAssumption`, the limits are natural numbers. The code checks the hash of each
transaction it fetches and leaves their validity to the network, as the first does.

### Inscription parsing

A request changes nothing but its answer, so the invariant (`IInv`: the output is one
of those there may be, the answer one that a request for it gets) is the small part.
The work is to show what the operators compute, for a script of any length.

* *One envelope.* `PairsAre`, `BodyEndIs` and `ParseOneIs` say where the loops of
  `parseOne` stop and what they have by then. `ValidIsEnvelope` and
  `EnvelopeIsValid` compare that with the format (`IsEnvelope`): if a complete
  envelope starts at a position then the reader stops at its end and nowhere else,
  because the marker of a body is no field, and no value of a body ends an envelope.
* *A script.* `Scans` is what so many rounds of `parseEnvelopes` have read: envelopes
  one after the other, none overlooked before the last. As many rounds as there are
  chunks find them all. `FirstEnvelope`: the first does not depend on the limit,
  which is why the index (at most one envelope) and the API (up to
  `maxEnvelopesPerOutput`) speak of the same inscription.
* *Two readers.* `LocksAgree`: for one valid envelope and no `OP_RETURN` data,
  `lockOf` of the rules, which cuts to the next `OP_ENDIF`, and the view, which cuts
  what the scanner read, leave the same lock. `NoBodyIs`: an envelope without a body
  has no bytes to hash. `BorrowedIs`: a borrowed precision changes the token's
  precision, ticker and display, and nothing else.
* *Documents.* `ClassifyIs` and `UintIs` give each field of a token, `UsableIs` goes
  through the standards and ops. `TrimmedIs`: two sequences of digits that differ in
  leading zeros trim to the same; so padding an amount, splitting it at the point
  and dropping the zeros at its end loses nothing (`DisplayedIs`).

Assumptions: `OutputAssumption`, what the tokenizer and `JSON.parse` guarantee: a
script is a sequence of chunks, what is taken for digits is digits, what is taken
for a ticker can be put in lower case; `NothingAssumption`, that the values which
stand for nothing are none of those they stand beside; `LimitAssumption`, that at
least one envelope is read of an output.

### Limiter and reader

The bound on what a client gets through in a stretch of time is not inductive, for
it says nothing of the bucket. `Paid` is the potential that is: what was let
through since any grant, plus what the bucket holds or would hold by now, is at most
a full bucket and what flowed in since that grant. Refill, consumption and refusal
keep it by arithmetic; a sweep does because `RateAssumption` makes a bucket that is
forgotten one that had refilled. `PromiseCovered`: by the time a refusal names, what
a request costs has flowed in. For the reader, `ReadingOK`: the first read was of a
state the request has seen, and a spend known then is known still, unless a block
was taken back.

The assumption the code does not check is `Burst * Cost <= Rate * Idle`. The
defaults satisfy it with room to spare: 30 requests at 120 a minute flow in within
15 seconds, against ten minutes of idleness.

### Only model-checked

Liveness (`CatchesUp`, `DurableCatchesUp`, `EveryoneAnswered`, `PositionAnswered`,
`ValidationEnds`): it needs fairness and ENABLED, which the provers do not handle.
Every other property of a passing run is proved. The library's induction theorems take
an operator, which no installed prover can instantiate; the inductions needed
(over the steps of a transaction, the rounds of a scan or a worklist, the digits
of an amount, the subsets of a finite set) are done by hand, by the least
counterexample (`MinIsLeast`, `Iterates`, `StepByStep`, `FromBelow` of `HelperProofs`).

## 7. Where the code and its text disagree

* **A process that dies inside a block** (`sqlite_crash`). Each transaction's
  writes commit on their own (`sqliteStore.js:112-125`); the undo row and the
  cursor follow at the end of the block. The next process finds records above
  its cursor that no undo row knows of, and applies the block on top.
  `indexer.js:7-8` speaks of "writes committed one block at a time".
* **Two mints in one transaction** (`rules_batch`). Both read the supply from
  before the transaction and the last write wins (`rules.js:135`, `198-202`), so
  circulation passes the recorded supply. `rules.js:15-16`: "mints accumulate
  against the deploy's max".
* **Transfers proven by an exception** (`verify_thrown`). When the forward walk
  throws, its result has neither `error` nor `truncated` nor `unresolved`, and
  `proven.transfers` is true (`verify.js:251`, `258-262`, `286`), under a comment
  that says every hop was confirmed.
* **More downloads than the limit** (`downloads`). `withSlot` wraps the `fetch()`
  alone, which is over when the headers arrive; the slot goes to the next request
  while the body is still being streamed (`txProvider.js:103-107`, `113`).
  `txProvider.js:63-64` and README.md:361: "caps how many upstream downloads run at
  once". `SlotsAccounted` is about what the slots do count.

Seen while modelling, and not the subject of a run of its own, most of it because no
text says otherwise, or only loosely. In the providers and the validation:

* A mint whose authority input could not be read is `conserved: false`
  (`tokenValidate.js:146-148`), where a shortfall would be `null`, under "never a
  guess" (`tokenValidate.js:174`, README.md:157). A transfer of zero is the mirror
  image: conserved while an input is unread, and not once it is read and carries
  nothing. `VerdictStands` leaves both out.
* `tokenValidate.js:146` wants an authority for a BSV-20 mint too, which has none;
  the indexer's own rules (`rules.js:169`) ask only BSV-21 mints for one.
* Sources are the inputs that carry amounts (`tokenValidate.js:233-235`): the
  authority a mint spends is never walked, and a transaction all of whose
  documents lack a key has nothing to conserve; both come out `proven`.
* A token document without `op` makes `isDeploy` throw (`tokenValidate.js:37`,
  `210`). The model's `Unreadable` is that case.
* README.md:182 says an input that cannot be fetched makes the result unconserved;
  it makes a shortfall undetermined, as README.md:157-161 says.

In the index and the replay:

* A fork no higher than the index goes unnoticed until it grows
  (`indexer.js:124`); `CatchesUp` is about a higher chain for that reason.
* A block may be rolled back that the source's chain holds again, for the answer it
  is compared with was given before (`indexer.js:44-50`). It is indexed again; and with
  an empty undo log, `run()` rejects over a reorg that is none any more.
* Every op that is not a deploy, mint or burn goes the way of a transfer
  (`rules.js:219`): an `auth` output without an amount is accepted whether or not an
  authority was spent.
* `rules.js:43` says that the owner "comes from the locking script alone", but the
  lock keeps a trailing `OP_RETURN`, which makes the owner null.
* A BSV-20 mint does not spend its deploy, so a replay of it finds no deploy and
  rejects what the index accepts; of two deploys of a ticker it may see only the
  loser; and it does not see the mints of others. `ReplayAgrees` is therefore about
  BSV-21.
* `orderByDependency` knows of no dependency but that of an output on its input.
  A BSV-21 mint spends an authority of its token, and that may have been given by a
  transaction that does not descend from the deploy (an `auth` output is accepted
  from anyone, see above): if the replay collects both that mint and, on another
  branch, the deploy, it may apply the mint first and reject what the index accepted,
  although "this needs no block heights and is exact for the subgraph"
  (`replay.js:62-64`). `ReplayAgrees` is about the other histories (`Rooted`).
* A BSV-20 or BSV-21 document without an op makes `token.op.startsWith` throw at
  `replay.js:51`, outside the `try` that forgives a failed fetch: one such output, spent
  anywhere behind the queried one, rejects the whole replay, which its text says goes
  "through the same rules the indexer uses" (`replay.js:15`). The index just finds
  nothing on that input and accepts the history. `ReplayAgrees` says that a replay
  throws for no other reason, and agrees where it does not throw.
* A collection cut short by `maxDepth` or a failed fetch goes unmentioned, and what
  is missing can also be a spend or an authority that nobody gave: a replay may
  then accept what the index rejects as well as the other way round.
* Between the two reads of one answer the indexer may commit: `/token` may tell a
  circulation above its supply, `/outpoint` an output that is unspent and spent at
  once, each of which was true at some moment but not together; `localSpend` may say null of an output that was known throughout when a
  block is taken back. `ReadsHoldTogether` says what can be counted on.

In the parsing and the chain positions:

* The hops of a verified walk end at the current outpoint (`routes/ordinals.js:176`),
  and `inspectChain` adds hops before it and skips what it has
  (`reinscription.js:79-87`). So no point has the role `current`, the last inscription
  is null and `contentDiffers` false (lines 106, 117): the warning that an ordinal was
  inscribed again is lost exactly when the walk was asked for, although
  `reinscription.js:16-18` says that it "says plainly when the current one differs from
  the origin". `InspectionTellsAll` asks for `contentDiffers` of inspections of the
  two ends alone.
* `OP_FALSE OP_RETURN` data after an envelope gives the arrangement
  `envelope-between`, although `inscription.js:83-84` says trailing data must not.
* Only the first envelope is looked at, even if it is invalid, where
  `envelope.js:171` and `inscription.js:99` speak of the first valid one.
* The length of a ticker is checked as it is written (`token.js:139-140`), and lower
  case can be longer (`İ` takes two bytes, and three in lower case). The ticker a
  well-formed token goes by may exceed the four bytes that are allowed.
* The URL a view gives for its content (`contentUrl`) lacks `concat=1`, so for an
  output asked for joined it leads to content of another hash.
* The coverage of an inspection is called `every point in the chain` when the
  forward hops are known, although hops between the genesis and the queried output
  are not among them.
* With no genesis from an indexer and the queried output its own current one, that
  output is the only inscription and not in the role of a genesis: its `reinscribed` is
  true of an ordinal never inscribed again.
* `agreement.current` is `mismatch` also when the walk was cut short on the way to a
  rightly claimed holder. `VerdictIsTrue` leaves cut walks out.
* When no indexer knows an origin, `/ordinal` shows the queried output although the
  walk has computed the origin (`ordinals.js:118-120` says that it "still
  resolves").
* The bytes of `fetchOutputScript` are not compared with a hash, so what an
  inspection reads is a provider's word.

In the limiter:

* That a bucket forgotten when idle would have been full needs an idle time long
  enough to refill it (`RateAssumption`); no configuration check says so, and the
  clock (`Date.now`) may go back.

## 8. What is not modelled

* The `MAP` tags of `OP_RETURN` data (`parseMap`), the rendering of fields as text
  (`fields.js`) and the spelling of ids and outpoints (upper-case hex).
* Provider URLs and answer formats, metrics, logging, Express wiring,
  configuration, the reading of queries, and the routes that list or parse and
  decide nothing (`routes/ordinals.js`; the listings and `loadIndex` of
  `routes/index.js`): reshaping of other people's data, or state nobody reads back.
* The retry timetable of `getJson` and paging in `getBlock`: a request is one
  that succeeds or fails for good, whatever it took.
* `toJSON`/`fromJSON` of the in-memory store: a snapshot drops the undo log, but
  nothing ingests on one.
* The `skip` option and the headers of the limiter, `retry-after` excepted; the
  further fields that `traceOrdinal` passes on.

## 9. Plan

Done: every part that keeps state or decides something is modelled, and every
safety property, action property and refinement that a passing run checks is proved.
What could be added, in order of worth:

1. The listings and filters of `routes/index.js`, should they come to decide more than
   which rows are shown.
2. The `MAP` data of `OP_RETURN`, should the token rules come to read it.
