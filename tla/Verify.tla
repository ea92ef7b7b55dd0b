------------------------------- MODULE Verify -------------------------------
(* The independent verification of one ordinal's chain position               *)
(* (src/services/verify.js): a walk back to its origin, then a walk forward    *)
(* to its holder, one step per await, under one budget of fetches.            *)
(*                                                                           *)
(* A fetched transaction is the one asked for, its hash having been checked;   *)
(* a fetch may fail. Whatever the indexes answer about a spend is taken down   *)
(* as they say it: they may know nothing, miss a spend, or name any            *)
(* transaction (src/services/indexer.js, lookupSpend).                        *)
EXTENDS OrdinalMath, FetchBudget

CONSTANTS
  TxOf,             \* the chain: TxOf[1], TxOf[2], ..., parents first
  None,
  MaxHops           \* VERIFY_MAX_HOPS

TxId == DOMAIN TxOf
Outpoint == UNION {{<<t, v>> : v \in DOMAIN TxOf[t].outputs} : t \in TxId}

ASSUME HopAssumption == MaxHops \in Nat
ASSUME ShapeAssumption ==
  /\ TxOf \in Seq(Range(TxOf)) /\ Coinbase \notin Nat \X Nat /\ None \notin Nat \X Nat
  /\ \A t \in TxId : /\ TxOf[t].outputs \in Seq(Nat)
                     /\ TxOf[t].inputs \in Seq((Nat \X Nat) \cup {Coinbase})
\* A chain: a coinbase, or a transaction that spends what earlier ones put out,
\* never twice, and pays out no more than it spends.
ASSUME LedgerAssumption ==
  \A t \in TxId :
    \/ TxOf[t].inputs = <<Coinbase>>
    \/ /\ \A i \in DOMAIN TxOf[t].inputs :
            LET o == TxOf[t].inputs[i]
            IN  /\ o \in Outpoint /\ o[1] < t
                /\ \A u \in TxId : \A j \in DOMAIN TxOf[u].inputs :
                     TxOf[u].inputs[j] = o => u = t /\ j = i
       /\ SumOf(TxOf[t].outputs, Len(TxOf[t].outputs)) <=
            SumOf([i \in DOMAIN TxOf[t].inputs |->
                     TxOf[TxOf[t].inputs[i][1]].outputs[TxOf[t].inputs[i][2]]],
                  Len(TxOf[t].inputs))

VARIABLES
  start,            \* the outpoint asked about; its position may not exist
  pc,               \* where verifyOrdinal is
  at, offset, hop,  \* txid and vout, offsetInOutput, hop of the current walk
  values,           \* the inputs of the current step valued so far
  hops,             \* where the hops of the walk forward landed; None: in the fee
  named,            \* the transaction an index named, while it is checked
  origin, tip,      \* what the walks returned; None before
  faulted, misled   \* history: a read was refused; an index was wrong

walk == <<at, offset, hop, values, hops, named>>
vars == <<start, pc, walk, budget, origin, tip, faulted, misled>>

OriginOutcome == {"origin", "notAnOrdinal", "error", "truncated", "threw"}
TipOutcome == {"unrefuted", "unresolved", "contradicted", "fee", "merged",
               "truncated", "threw"}

TypeOK ==
  /\ start \in TxId \X Nat
  /\ pc \in {"origin", "inputs", "tip", "spender", "before", "done"}
  /\ at \in TxId \X Nat
  /\ offset \in Nat /\ hop \in 0 .. MaxHops
  /\ \A i \in DOMAIN values : values[i] \in Nat
  /\ \A i \in DOMAIN hops : hops[i] \in Outpoint \cup {None}
  /\ named \in TxId \cup {None}
  /\ read \subseteq TxId /\ fetches \in 0 .. MaxFetches
  /\ origin \in [outcome : OriginOutcome, origin : Outpoint \cup {None}] \cup {None}
  /\ tip \in [outcome : TipOutcome, current : (TxId \X Nat) \cup {None},
              lastSeen : Outpoint \cup {None}] \cup {None}
  /\ faulted \in BOOLEAN /\ misled \in BOOLEAN

-----------------------------------------------------------------------------
Init ==
  /\ start \in Outpoint \cup {<<t, 1 + Len(TxOf[t].outputs)>> : t \in TxId}
  /\ pc = "origin"
  /\ at = start /\ offset = 0 /\ hop = 0 /\ values = << >> /\ hops = << >> /\ named = None
  /\ read = {} /\ fetches = 0
  /\ origin = None /\ tip = None
  /\ faulted = FALSE /\ misled = FALSE

\* The walk back is over; the walk forward starts where it did.
EndOrigin(outcome, outpoint) ==
  /\ origin' = [outcome |-> outcome, origin |-> outpoint]
  /\ pc' = "tip"
  /\ at' = start /\ offset' = 0 /\ hop' = 0 /\ values' = << >>
  /\ UNCHANGED <<start, hops, named, tip, misled>>

\* The walk forward is over, after so many hops.
EndTip(outcome, current, lastSeen, taken) ==
  /\ tip' = [outcome |-> outcome, current |-> current, lastSeen |-> lastSeen]
  /\ hops' = taken
  /\ pc' = "done"
  /\ named' = None /\ values' = << >>
  /\ UNCHANGED <<start, at, offset, hop, origin>>

Tx == TxOf[at[1]]

-----------------------------------------------------------------------------
(* walkToOrigin.                                                              *)

OriginHopLimit ==
  /\ pc = "origin"
  /\ hop >= MaxHops
  /\ EndOrigin("truncated", None)
  /\ UNCHANGED <<budget, faulted>>

\* The transaction of this hop, in hand: is there such an output, and does it
\* hold one satoshi where the walk begins?
ReadOutput ==
  /\ pc = "origin"
  /\ hop < MaxHops
  /\ Obtain(at[1])
  /\ IF at[2] \notin DOMAIN Tx.outputs THEN EndOrigin("error", None)
     ELSE IF hop = 0 /\ Tx.outputs[at[2]] # 1 THEN EndOrigin("notAnOrdinal", None)
     ELSE /\ pc' = "inputs"
          /\ UNCHANGED <<start, walk, origin, tip, misled>>
  /\ UNCHANGED faulted

\* The next input to value; a newly minted satoshi has none.
Valued == Len(values) + 1
ReachCoinbase ==
  /\ pc = "inputs"
  /\ Tx.inputs[Valued] = Coinbase
  /\ EndOrigin("origin", at)
  /\ UNCHANGED <<budget, faulted>>

\* The input that covers the satoshi is found: packaged with others there, it
\* first stood alone here; else the walk goes on from there.
Arrive(step) ==
  IF step.parentSatoshis # 1
  THEN EndOrigin("origin", at)
  ELSE /\ at' = step.outpoint
       /\ offset' = step.offsetInParentOutput
       /\ hop' = hop + 1
       /\ values' = << >>
       /\ pc' = "origin"
       /\ UNCHANGED <<start, hops, named, origin, tip, misled>>

\* Mutant of ValueInput: an input that does not cover the satoshi is valued
\* again and again.
ValueInputAgain ==
  /\ pc = "inputs"
  /\ Valued <= Len(Tx.inputs) /\ Tx.inputs[Valued] # Coinbase
  /\ LET parent == Tx.inputs[Valued]
         valued == Append(values, TxOf[parent[1]].outputs[parent[2]])
     IN  /\ Obtain(parent[1])
         /\ IF OutputOffset(Tx, at[2]) + offset < SumOf(valued, Valued)
            THEN Arrive(FollowBackward(Tx, at[2], offset, valued))
            ELSE UNCHANGED <<start, pc, walk, origin, tip, misled>>
  /\ UNCHANGED faulted

\* One input valued: until the satoshi's offset is covered. On a chain every
\* input spends an output, and the inputs cover the outputs.
ValueInput ==
  /\ pc = "inputs"
  /\ Valued <= Len(Tx.inputs) /\ Tx.inputs[Valued] # Coinbase
  /\ LET parent == Tx.inputs[Valued]
         valued == Append(values, TxOf[parent[1]].outputs[parent[2]])
     IN  /\ Obtain(parent[1])
         /\ IF OutputOffset(Tx, at[2]) + offset < SumOf(valued, Valued)
            THEN Arrive(FollowBackward(Tx, at[2], offset, valued))
            ELSE /\ values' = valued
                 /\ UNCHANGED <<start, pc, at, offset, hop, hops, named, origin, tip, misled>>
  /\ UNCHANGED faulted

\* A transaction the walk needs cannot be had: the walk throws.
OriginThrows ==
  /\ faulted' = TRUE
  /\ \/ pc = "origin" /\ hop < MaxHops /\ Refuse(at[1])
     \/ /\ pc = "inputs"
        /\ Tx.inputs[Valued] # Coinbase
        /\ Refuse(Tx.inputs[Valued][1])
  /\ EndOrigin("threw", None)

-----------------------------------------------------------------------------
(* walkToTip.                                                                 *)

TipHopLimit ==
  /\ pc = "tip"
  /\ hop >= MaxHops
  /\ EndTip("truncated", at, None, hops)
  /\ UNCHANGED <<budget, faulted, misled>>

Spends(t, outpoint) == InputSpending(TxOf[t], outpoint) # 0

\* lookupSpend: an index names a transaction, says there is no spend, or no
\* index can say.
Answer == [says : {"unknown", "unspent"}] \cup [says : {"spent"}, by : TxId]
LookUp(answer) ==
  /\ pc = "tip"
  /\ hop < MaxHops
  /\ CASE answer.says = "unknown" -> EndTip("unresolved", at, None, hops)
       [] answer.says = "unspent" -> EndTip("unrefuted", at, None, hops)
       [] answer.says = "spent" -> /\ named' = answer.by
                                   /\ pc' = "spender"
                                   /\ UNCHANGED <<start, at, offset, hop, values,
                                                  hops, origin, tip>>
  /\ misled' = (misled \/ IF answer.says = "spent" THEN ~Spends(answer.by, at)
                          ELSE \E t \in TxId : Spends(t, at))
  /\ UNCHANGED <<budget, faulted>>

\* Mutant of ReadSpender: the index is believed.
ReadSpenderBelieving ==
  /\ pc = "spender"
  /\ Obtain(named)
  /\ pc' = "before"
  /\ UNCHANGED <<start, walk, origin, tip, faulted, misled>>

\* Mutant of ReadSpender: only a first input counts as spending the outpoint.
ReadSpenderFirst ==
  /\ pc = "spender"
  /\ Obtain(named)
  /\ IF InputSpending(TxOf[named], at) = 1
     THEN pc' = "before" /\ UNCHANGED <<start, walk, origin, tip>>
     ELSE EndTip("contradicted", None, None, hops)
  /\ UNCHANGED <<faulted, misled>>

\* The named transaction, in hand: does it spend the outpoint at all?
ReadSpender ==
  /\ pc = "spender"
  /\ Obtain(named)
  /\ IF Spends(named, at)
     THEN pc' = "before" /\ UNCHANGED <<start, walk, origin, tip>>
     ELSE EndTip("contradicted", None, None, hops)
  /\ UNCHANGED <<faulted, misled>>

\* inputValuesBefore: one input before the one that spends the outpoint.
ValueBefore ==
  /\ pc = "before"
  /\ Valued < InputSpending(TxOf[named], at)
  /\ LET parent == TxOf[named].inputs[Valued]
     IN  /\ Obtain(parent[1])
         /\ values' = Append(values, TxOf[parent[1]].outputs[parent[2]])
  /\ UNCHANGED <<start, pc, at, offset, hop, hops, named, origin, tip, faulted, misled>>

\* The satoshi lands: with the miner, among others, or alone again.
Land ==
  /\ pc = "before"
  /\ Valued >= InputSpending(TxOf[named], at)
  /\ LET step == FollowForward(TxOf[named], at, offset, values)
         landed == <<named, step.vout>>
     IN  IF step.vout = 0 THEN EndTip("fee", None, None, Append(hops, None))
         ELSE IF step.satoshis # 1 THEN EndTip("merged", None, landed, Append(hops, landed))
         ELSE /\ at' = landed
              /\ offset' = step.offsetInOutput
              /\ hop' = hop + 1
              /\ hops' = Append(hops, landed)
              /\ values' = << >> /\ named' = None
              /\ pc' = "tip"
              /\ UNCHANGED <<start, origin, tip>>
  /\ UNCHANGED <<budget, faulted, misled>>

\* What the walk had found by then is lost with it.
TipThrows ==
  /\ faulted' = TRUE
  /\ \/ pc = "spender" /\ Refuse(named)
     \/ /\ pc = "before"
        /\ Valued < InputSpending(TxOf[named], at)
        /\ Refuse(TxOf[named].inputs[Valued][1])
  /\ EndTip("threw", None, None, << >>)
  /\ UNCHANGED misled

-----------------------------------------------------------------------------
Step ==
  \/ OriginHopLimit \/ ReadOutput \/ ReachCoinbase \/ ValueInput \/ OriginThrows
  \/ TipHopLimit \/ \E answer \in Answer : LookUp(answer)
  \/ ReadSpender \/ ValueBefore \/ Land \/ TipThrows

Done == pc = "done" /\ UNCHANGED vars

Next == Step \/ Done

Spec == Init /\ [][Next]_vars

\* The answer's `proven': what verifyOrdinal makes of the two results.
ProvenOrigin == origin.origin # None
ProvenTransfers == tip.outcome \notin {"contradicted", "truncated", "unresolved"}

-----------------------------------------------------------------------------
(* What the walks are measured against: every satoshi of the chain by name,    *)
(* a satoshi being <<the coinbase it was minted in, its place there>>.         *)

\* Of the satoshis that enter a transaction, in order, those of one output.
Part(satoshis, o) ==
  LET begins == OutputOffset(TxOf[o[1]], o[2])
  IN  SubSeq(satoshis, begins + 1, begins + TxOf[o[1]].outputs[o[2]])

\* The satoshis that enter a transaction, input by input.
Entering[t \in TxId] ==
  LET inputs == TxOf[t].inputs
  IN  IF inputs = <<Coinbase>>
      THEN [k \in 1 .. SumOf(TxOf[t].outputs, Len(TxOf[t].outputs)) |-> <<t, k>>]
      ELSE FlattenSeq([n \in DOMAIN inputs |-> Part(Entering[inputs[n][1]], inputs[n])])

\* The satoshis in each output.
Satoshis == [o \in Outpoint |-> Part(Entering[o[1]], o)]
Holds(o, sat) == sat \in ToSet(Satoshis[o])
Alone(o) == Len(Satoshis[o]) = 1

\* Where the satoshi alone at o began to stand alone, as it has ever since.
FirstAlone ==
  [o \in {p \in Outpoint : Alone(p)} |->
     LET past == {p \in Outpoint : p[1] <= o[1] /\ Holds(p, Satoshis[o][1])}
         since == {p \in past : \A q \in past : q[1] >= p[1] => Alone(q)}
     IN  CHOOSE p \in since : \A q \in since : p[1] <= q[1]]

\* Where the first satoshi of o is in the end, and where it stopped being
\* alone, if it did.
Future(o) == {p \in Outpoint : p[1] > o[1] /\ Holds(p, Satoshis[o][1])}
Unspent(o) == \A t \in TxId : ~Spends(t, o)

-----------------------------------------------------------------------------
(* Properties. *)

\* The origin reported is where the satoshi began to stand alone, whatever the
\* order of the inputs that funded it and whatever else the chain did with it;
\* and on a chain only the limits, or a transaction that cannot be had, keep
\* the walk from finding it, whatever the indexes say. (verify.js:77-151,
\* README.md:272-277)
OriginTrue ==
  origin # None /\ start \in Outpoint =>
    /\ origin.outcome # "error"
    /\ origin.outcome = "notAnOrdinal" => ~Alone(start)
    /\ ProvenOrigin => Alone(start) /\ origin.origin = FirstAlone[start]

\* Whatever the indexes answer, the satoshi is where the forward walk says it
\* went: the holder it reports holds it alone, a burn it reports is one.
\* (verify.js:154-228)
TipTrue ==
  tip # None /\ start \in Outpoint /\ Satoshis[start] # << >> =>
    LET sat == Satoshis[start][1]
    IN  /\ tip.current \notin {None, start} => Satoshis[tip.current] = <<sat>>
        /\ tip.outcome = "fee" => \E p \in Future(start) \cup {start} :
                                    Holds(p, sat) /\ ~Unspent(p)
                                      /\ \A q \in Future(start) : q[1] <= p[1]
        /\ tip.outcome = "merged" => Holds(tip.lastSeen, sat) /\ ~Alone(tip.lastSeen)

\* When the indexes tell the truth and everything can be read, the holder
\* reported is the last one, and a wrong answer is the only way to be told of a
\* contradiction. (verify.js:165-186)
HolderFound ==
  tip # None /\ ~misled =>
    /\ tip.outcome # "contradicted"
    /\ tip.outcome \in {"unrefuted", "fee", "merged"} =>
         ProvenTransfers /\ (tip.current # None => Unspent(tip.current))

\* What the answer says of `proven.transfers`, "every forward hop was confirmed
\* against the bytes of the spending transaction": with indexes that tell the
\* truth, the walk then ended where the satoshi is, or left it. The code says so
\* too when the walk was cut short by a transaction it could not get.
\* (verify.js:284-286)
TransfersConfirmed ==
  tip # None /\ ~misled /\ ProvenTransfers =>
    IF tip.current = None THEN tip.outcome \in {"fee", "merged"}
    ELSE Unspent(tip.current)

=============================================================================
