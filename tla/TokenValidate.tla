--------------------------- MODULE TokenValidate ---------------------------
(* Whether a transaction is a legal token operation, and whether what it moves *)
(* can be walked back to deploys (src/services/tokenValidate.js): a recursion   *)
(* with a depth, a memo and a budget of fetches, one step per await.            *)
(*                                                                             *)
(* A transaction is [inputs, outputs]: the outpoints <<txid, position>> it      *)
(* spends, coinbase inputs left out, and outputs [satoshis, token], a token     *)
(* being None or a document [key, op, amount] whose parts may be None. The key  *)
(* is what the code balances by: the id of a BSV-21 token, the ticker of a      *)
(* BSV-20 one, None for a document that has neither.                            *)
EXTENDS FetchBudget, SequencesExt

CONSTANTS
  TxOf,             \* the chain: TxOf[1], TxOf[2], ..., parents first
  None,
  MaxDepth          \* TOKEN_VALIDATE_MAX_DEPTH

TxId == DOMAIN TxOf
ASSUME DepthAssumption == MaxDepth \in Nat \ {0}
ASSUME TransactionAssumption ==
  /\ TxOf \in Seq(Range(TxOf)) /\ None \notin Nat
  /\ \A t \in TxId :
       /\ TxOf[t].inputs \in Seq(Nat \X Nat)
       /\ TxOf[t].outputs \in Seq(Range(TxOf[t].outputs))
       /\ \A v \in DOMAIN TxOf[t].outputs :
            LET token == TxOf[t].outputs[v].token
            IN  token # None => token.amount \in Nat \cup {None}
ASSUME TokenChainAssumption ==
  \A t \in TxId : \A i \in DOMAIN TxOf[t].inputs :
    LET o == TxOf[t].inputs[i]
    IN  /\ o[1] \in 1 .. t - 1 /\ o[2] \in DOMAIN TxOf[o[1]].outputs
        /\ \A u \in TxId : \A j \in DOMAIN TxOf[u].inputs :
             TxOf[u].inputs[j] = o => u = t /\ j = i

VARIABLES
  stack,            \* the calls of validateTransaction under way, innermost last
  results,          \* Budget.results: the memo
  answer,           \* what the outermost call returned; None before
  asked, missing    \* history: transaction and depth asked for; a read refused

vars == <<stack, budget, results, answer, asked, missing>>

-----------------------------------------------------------------------------
(* One transaction, some of whose inputs were missed.                          *)

IsAuth(token) == token.op \in {"auth", "deploy+auth"}
\* Whatever begins so: "deploy?" stands for the ops that do and are unknown.
IsDeploy(token) == token.op \in {"deploy", "deploy+mint", "deploy+auth", "deploy?"}
Contributes(token) == ~IsAuth(token) /\ token.amount # None

SpentToken(t, i) == TxOf[TxOf[t].inputs[i][1]].outputs[TxOf[t].inputs[i][2]].token
MadeToken(t, v) == TxOf[t].outputs[v].token

\* Places among the inputs read that carry tokens; among the outputs.
TokenInputs(t, missed) == {i \in DOMAIN TxOf[t].inputs \ missed : SpentToken(t, i) # None}
TokenOutputs(t) == {v \in DOMAIN TxOf[t].outputs : MadeToken(t, v) # None}
Keys(t) == {MadeToken(t, v).key : v \in TokenOutputs(t)} \ {None}

Creating(t, key) == {v \in TokenOutputs(t) : MadeToken(t, v).key = key}
Minted(t, key) == {v \in Creating(t, key) : MadeToken(t, v).op = "mint"}
Deploys(t, key) == {v \in Creating(t, key) : IsDeploy(MadeToken(t, v))}
Moved(t, key) == {v \in Creating(t, key) \ (Minted(t, key) \cup Deploys(t, key)) :
                    Contributes(MadeToken(t, v))}

\* The amounts of some outputs, and of some inputs, added up.
Made(t, places) == MapThenSumSet(LAMBDA v : MadeToken(t, v).amount, places)
Spent(t, places) == MapThenSumSet(LAMBDA i : SpentToken(t, i).amount, places)

\* Mutant of Conserved: an input that was missed counts as one that was read.
ConservedBlind(t, key, missed) ==
  LET spending == {i \in TokenInputs(t, missed) : SpentToken(t, i).key = key}
      short == Made(t, Moved(t, key))
                 > Spent(t, {i \in spending : Contributes(SpentToken(t, i))})
  IN  IF \/ short
         \/ \E v \in Creating(t, key) : TxOf[t].outputs[v].satoshis # 1
         \/ /\ Minted(t, key) # {} /\ Deploys(t, key) = {}
            /\ ~\E i \in spending : IsAuth(SpentToken(t, i))
      THEN "no" ELSE "yes"

\* conservationFor: whether the inputs of a token cover what its outputs move.
Conserved(t, key, missed) ==
  LET spending == {i \in TokenInputs(t, missed) : SpentToken(t, i).key = key}
      valued == {i \in spending : Contributes(SpentToken(t, i))}
      short == Made(t, Moved(t, key)) > Spent(t, valued)
      sized == \A v \in Creating(t, key) : TxOf[t].outputs[v].satoshis = 1
      unauthorised == /\ Minted(t, key) # {} /\ Deploys(t, key) = {}
                      /\ ~\E i \in spending : IsAuth(SpentToken(t, i))
      fromNothing == Moved(t, key) # {} /\ valued = {} /\ Deploys(t, key) = {}
  IN  IF short /\ missed # {} THEN "open"
      ELSE IF ~sized \/ unauthorised \/ (missed = {} /\ (short \/ fromNothing))
      THEN "no" ELSE "yes"

\* The verdict on the transaction: over all its keys.
Verdict(t, missed) ==
  LET verdicts == {Conserved(t, key, missed) : key \in Keys(t)}
  IN  IF "no" \in verdicts THEN "no" ELSE IF "open" \in verdicts THEN "open" ELSE "yes"

SelfContained(t) == \A v \in TokenOutputs(t) : IsDeploy(MadeToken(t, v))
\* isDeploy(undefined op) throws, unless an output before it is no deploy.
Unreadable(t) ==
  \E v \in TokenOutputs(t) :
    /\ MadeToken(t, v).op = None
    /\ \A w \in TokenOutputs(t) : w < v => IsDeploy(MadeToken(t, w))
\* The inputs whose transactions are validated in their turn.
Sources(t, missed) == {i \in TokenInputs(t, missed) : Contributes(SpentToken(t, i))}

-----------------------------------------------------------------------------
(* The recursion.                                                              *)

Call(t, depth) ==
  [tx |-> t, depth |-> depth, phase |-> "fetch", next |-> 1, missed |-> {},
   pending |-> {}, backed |-> TRUE]

Outcome(conserved, proven) == [conserved |-> conserved, proven |-> proven]
Nothing == Outcome("nothing", FALSE)    \* no token outputs: not remembered
Thrown == Outcome("thrown", FALSE)      \* caught by the call above, if any

Top == stack[Len(stack)]
InPhase(phase) == stack # << >> /\ Top.phase = phase
Becomes(call) == stack' = [stack EXCEPT ![Len(stack)] = call]

Return(outcome) ==
  IF Len(stack) = 1
  THEN stack' = << >> /\ answer' = outcome
  ELSE LET below == Len(stack) - 1
       IN  /\ stack' = [SubSeq(stack, 1, below) EXCEPT
                          ![below].backed = @ /\ outcome.proven]
           /\ UNCHANGED answer

Remember(outcome) ==
  /\ results' = [t \in DOMAIN results \cup {Top.tx} |->
                   IF t = Top.tx THEN outcome ELSE results[t]]
  /\ Return(outcome)

Init ==
  /\ asked \in TxId \X (1 .. MaxDepth)
  /\ stack = <<Call(asked[1], asked[2])>>
  /\ read = {} /\ fetches = 0
  /\ results = << >>
  /\ answer = None
  /\ missing = FALSE

\* Validated already, for this request and at whatever depth.
Recall ==
  /\ InPhase("fetch") /\ Top.tx \in DOMAIN results
  /\ Return(results[Top.tx])
  /\ UNCHANGED <<budget, results, asked, missing>>

ReadTransaction ==
  /\ InPhase("fetch") /\ Top.tx \notin DOMAIN results
  /\ Obtain(Top.tx)
  /\ IF TokenOutputs(Top.tx) = {} THEN Return(Nothing)
     ELSE Becomes([Top EXCEPT !.phase = "inputs"]) /\ UNCHANGED answer
  /\ UNCHANGED <<results, asked, missing>>

MissTransaction ==
  /\ InPhase("fetch") /\ Top.tx \notin DOMAIN results
  /\ Refuse(Top.tx)
  /\ Return(Thrown)
  /\ missing' = TRUE
  /\ UNCHANGED <<results, asked>>

Reading == InPhase("inputs") /\ Top.next <= Len(TxOf[Top.tx].inputs)
Source == TxOf[Top.tx].inputs[Top.next][1]

ReadInput ==
  /\ Reading
  /\ Obtain(Source)
  /\ Becomes([Top EXCEPT !.next = @ + 1])
  /\ UNCHANGED <<results, answer, asked, missing>>

\* Mutant of MissInput: an input that cannot be had is asked for again.
MissInputAgain ==
  /\ Reading
  /\ Refuse(Source)
  /\ missing' = TRUE
  /\ UNCHANGED <<stack, results, answer, asked>>

MissInput ==
  /\ Reading
  /\ Refuse(Source)
  /\ Becomes([Top EXCEPT !.next = @ + 1, !.missed = @ \cup {Top.next}])
  /\ missing' = TRUE
  /\ UNCHANGED <<results, answer, asked>>

\* Mutant of Deep: what is behind the inputs is only looked at from afar.
DeepFar == Top.depth > 2
Deep == Top.depth > 1

\* Every input read or missed. Deploys stand on their own; else, if the depth
\* allows, what is behind the inputs decides.
Conclude ==
  /\ InPhase("inputs") /\ ~Reading
  /\ LET verdict == Verdict(Top.tx, Top.missed)
     IN  IF Unreadable(Top.tx)
         THEN Return(Thrown) /\ UNCHANGED results
         ELSE IF ~SelfContained(Top.tx) /\ Deep
         THEN /\ Becomes([Top EXCEPT !.phase = "backing",
                                     !.pending = Sources(Top.tx, Top.missed)])
              /\ UNCHANGED <<results, answer>>
         ELSE Remember(Outcome(verdict, SelfContained(Top.tx) /\ verdict = "yes"))
  /\ UNCHANGED <<budget, asked, missing>>

DepthBehind == Top.depth - 1

\* The next source, once, whichever of its outputs are spent.
Descend ==
  /\ InPhase("backing") /\ Top.pending # {}
  /\ LET source == TxOf[Top.tx].inputs[Min(Top.pending)][1]
         others == {i \in Top.pending : TxOf[Top.tx].inputs[i][1] # source}
     IN  stack' = Append([stack EXCEPT ![Len(stack)].pending = others],
                         Call(source, DepthBehind))
  /\ UNCHANGED <<budget, results, answer, asked, missing>>

\* Mutant of Conclusion: what is behind the inputs is looked at and forgotten.
ConclusionUnbacked == Verdict(Top.tx, Top.missed) = "yes"

\* Proven: conserved, and every source proven.
Conclusion == Verdict(Top.tx, Top.missed) = "yes" /\ Top.backed

Finish ==
  /\ InPhase("backing") /\ Top.pending = {}
  /\ Remember(Outcome(Verdict(Top.tx, Top.missed), Conclusion))
  /\ UNCHANGED <<budget, asked, missing>>

Step ==
  \/ Recall \/ ReadTransaction \/ MissTransaction \/ ReadInput \/ MissInput
  \/ Conclude \/ Descend \/ Finish

Done == stack = << >> /\ UNCHANGED vars

Next == Step \/ Done
Spec == Init /\ [][Next]_vars
\* Every fetch is answered or fails in time (txProvider).
FairSpec == Spec /\ WF_vars(Step)

-----------------------------------------------------------------------------
(* What the answers are measured against. *)

Ancestors[t \in TxId] ==
  {t} \cup UNION {Ancestors[TxOf[t].inputs[i][1]] : i \in DOMAIN TxOf[t].inputs}

\* All that deploys and mints behind a transaction ever created of a token.
Created(u, key) == {v \in Minted(u, key) \cup Deploys(u, key) : Contributes(MadeToken(u, v))}
Supply(t, key) ==
  MapThenSumSet(LAMBDA u : Made(u, Created(u, key)), Ancestors[t])

\* What a validation of a depth, without memo, budget or failure, would prove.
Provable[depth \in 0 .. MaxDepth] ==
  LET behind == Provable[depth - 1]
  IN  {t \in TxId :
         /\ Verdict(t, {}) = "yes" /\ ~Unreadable(t)
         /\ \/ SelfContained(t)
            \/ /\ depth > 1
               /\ \A i \in Sources(t, {}) : TxOf[t].inputs[i][1] \in behind}

\* Where unread inputs could still change a verdict that was given: a mint, whose
\* authority they may carry, and outputs that move nothing.
Unsettled(t) ==
  \E key \in Keys(t) :
    \/ Minted(t, key) # {}
    \/ Moved(t, key) # {} /\ Made(t, Moved(t, key)) = 0

-----------------------------------------------------------------------------
(* Properties. *)

\* Types; every call under way is one deeper than the one below it and about an
\* older transaction, none deeper than was asked for.
TypeOK ==
  /\ asked \in TxId \X (1 .. MaxDepth)
  /\ \A n \in DOMAIN stack :
       /\ stack[n].depth = asked[2] + 1 - n /\ stack[n].depth >= 1
       /\ n > 1 => stack[n].tx < stack[n - 1].tx
       /\ stack[n].missed \cup stack[n].pending \subseteq DOMAIN TxOf[stack[n].tx].inputs
  /\ read \subseteq TxId /\ fetches \in 0 .. MaxFetches
  /\ DOMAIN results \subseteq TxId
  /\ \A t \in DOMAIN results : results[t] \in [conserved : {"yes", "no", "open"},
                                              proven : BOOLEAN]
  /\ missing \in BOOLEAN

\* "An input that was not fetched can only ADD balance": what is said of what a
\* transaction moves, on the inputs that happened to be read, is what reading
\* every input would say. (tokenValidate.js:128-151)
VerdictStands ==
  /\ TypeOK
  /\ \A t \in DOMAIN results :
       results[t].conserved # "open" /\ ~Unsettled(t) =>
         results[t].conserved = Verdict(t, {})

\* What a transaction called proven moves was created behind it, whatever was
\* missed, remembered or walked twice on the way. (tokenValidate.js:228-251)
ProvenIsBacked ==
  \A t \in DOMAIN results : results[t].proven =>
    \A key \in Keys(t) : Made(t, Moved(t, key)) <= Supply(t, key)

\* When nothing was missed, the memo costs no answer: all that a validation
\* without one would prove is proven. (tokenValidate.js:196, 232-250)
MemoLosesNothing ==
  answer # None /\ ~missing =>
    /\ answer.conserved \in {"yes", "no"} => answer.conserved = Verdict(asked[1], {})
    /\ asked[1] \in Provable[asked[2]] /\ TokenOutputs(asked[1]) # {} => answer.proven

\* A validation ends. (tokenValidate.js:66-87, 232-250)
ValidationEnds == <>(stack = << >>)

-----------------------------------------------------------------------------
(* What makes the properties inductive. *)

SourceOf(t, i) == TxOf[t].inputs[i][1]
IsProven(t) == t \in DOMAIN results /\ results[t].proven

Frame ==
  [tx : TxId, depth : 1 .. MaxDepth, phase : {"fetch", "inputs", "backing"},
   next : Nat \ {0}, missed : SUBSET Nat, pending : SUBSET Nat, backed : BOOLEAN]

\* What a call may rely on in its phase; what it is about is not remembered yet.
CallOK(call) ==
  /\ call.phase # "backing" => call.backed
  /\ call.phase # "fetch" => TokenOutputs(call.tx) # {} /\ call.tx \notin DOMAIN results
  /\ call.phase = "backing" =>
       /\ call.depth > 1 /\ ~SelfContained(call.tx)
       /\ call.pending \subseteq Sources(call.tx, call.missed)

\* Every call but the outermost is about a source of the one below it.
StackOK ==
  /\ stack \in Seq(Frame)
  /\ stack # << >> => stack[1].tx = asked[1]
  /\ \A n \in DOMAIN stack : CallOK(stack[n])
  /\ \A n \in 1 .. Len(stack) - 1 :
       /\ stack[n].phase = "backing"
       /\ \E i \in Sources(stack[n].tx, stack[n].missed) :
            SourceOf(stack[n].tx, i) = stack[n + 1].tx

\* What is remembered is the verdict on the inputs read; what is proven is
\* conserved, and so is all it comes from.
ResultsOK ==
  \A t \in DOMAIN results : \E missed \in SUBSET DOMAIN TxOf[t].inputs :
    /\ results[t].conserved = Verdict(t, missed)
    /\ results[t].proven =>
         /\ Verdict(t, missed) = "yes"
         /\ SelfContained(t) \/ \A i \in Sources(t, missed) : IsProven(SourceOf(t, i))

\* As long as a call has met no source unproven, each of its sources is proven,
\* under way or still to come.
BackedSoFar ==
  \A n \in DOMAIN stack : stack[n].phase = "backing" /\ stack[n].backed =>
    \A i \in Sources(stack[n].tx, stack[n].missed) :
      \/ i \in stack[n].pending
      \/ IsProven(SourceOf(stack[n].tx, i))
      \/ n < Len(stack) /\ SourceOf(stack[n].tx, i) = stack[n + 1].tx

\* As long as nothing was missed, no verdict rests on part of the inputs, and if
\* what was asked for is provable, so is all there is to validate on the way.
NothingLost ==
  ~missing =>
    /\ \A n \in DOMAIN stack : stack[n].missed = {}
    /\ \A t \in DOMAIN results : results[t].conserved = Verdict(t, {})
    /\ answer # None /\ answer.conserved \in {"yes", "no"} =>
         answer.conserved = Verdict(asked[1], {})
    /\ asked[1] \in Provable[asked[2]] /\ TokenOutputs(asked[1]) # {} =>
         /\ \A n \in DOMAIN stack : stack[n].tx \in Provable[stack[n].depth] /\ stack[n].backed
         /\ \A t \in DOMAIN results : results[t].proven
         /\ answer # None => answer.proven

ValidationIInv == TypeOK /\ StackOK /\ ResultsOK /\ BackedSoFar /\ NothingLost

=============================================================================
