---------------------------- MODULE ChainPosition ----------------------------
(* GET /v1/ordinal/:outpoint: what an indexer claims of an ordinal's position  *)
(* (src/services/indexer.js, traceOrdinal), the independent verification of     *)
(* it (Verify), and the inspection of the chain for later inscriptions of the   *)
(* same satoshi (src/services/reinscription.js), as src/routes/ordinals.js      *)
(* composes them.                                                              *)
EXTENDS Verify, Lists

CONSTANTS
  Inscribed,        \* per outpoint: the content inscribed there, or None
  Lie,              \* an outpoint an indexer may name out of the blue
  Requests          \* the query flags that requests come with

ASSUME RequestAssumption == Requests \subseteq [verify : BOOLEAN, reinscriptions : BOOLEAN]

VARIABLES
  request,          \* the query's flags
  phase,            \* where the handler is
  claim,            \* what traceOrdinal returned
  verdict,          \* what the verification made of the claim, or None
  report,           \* what inspectChain returned, or None
  shown             \* the outpoint whose output the reply shows, or None

position == <<request, claim, verdict, report, shown>>
positionVars == <<vars, position, phase>>

PositionInit ==
  /\ Init
  /\ request \in Requests
  /\ phase = "trace"
  /\ claim = None /\ verdict = None /\ report = None /\ shown = None

-----------------------------------------------------------------------------
(* traceOrdinal: the first indexer that answers for the outpoint is believed.  *)

\* GorillaPool knows where an ordinal is now, WhatsOnChain does not.
KnowsLatest == [gorillapool |-> TRUE, whatsonchain |-> FALSE]

\* Every place the first satoshi of an outpoint is ever in.
Journey ==
  [o \in Outpoint |->
     {p \in Outpoint : Satoshis[o] # << >> /\ Holds(p, Satoshis[o][1])}]

\* What may be said of an ordinal's origin and of its latest place: any place of
\* its satoshi up to here or from here on, as an index that is behind or mistaken
\* has it; or something else, or nothing.
Passed == IF start \in Outpoint THEN Journey[start] ELSE {}
SaidOrigins == {p \in Passed : p[1] <= start[1]} \cup {start, Lie, None}
SaidLatest == {p \in Passed : p[1] >= start[1]} \cup {start, Lie, None}

Role(genesis, current) ==
  CASE genesis = None -> "unknown"
    [] genesis # None /\ start = genesis /\ start = current -> "genesis+current"
    [] genesis # None /\ start = genesis /\ start # current -> "genesis"
    [] genesis \notin {start, None} /\ start = current -> "current"
    [] OTHER -> "transfer"

\* An answer: the origin it names, whether the outpoint is spent, and what its
\* `latest` says, None when that is not asked, fails or is empty.
ClaimOf(answer) ==
  LET current == IF answer.latest # None THEN answer.latest
                 ELSE IF answer.spent THEN None ELSE start
  IN  [role |-> Role(answer.genesis, current), genesis |-> answer.genesis, current |-> current]

Onwards == IF request.verify THEN "walk" ELSE "inspect"

Trace(indexer) ==
  /\ phase = "trace"
  /\ \E answer \in [genesis : SaidOrigins, spent : BOOLEAN, latest : SaidLatest] :
       /\ answer.latest # None => KnowsLatest[indexer] /\ answer.genesis # None
       /\ claim' = ClaimOf(answer)
  /\ phase' = Onwards
  /\ UNCHANGED <<vars, request, verdict, report, shown>>

\* No indexer answers.
TraceUnavailable ==
  /\ phase = "trace"
  /\ claim' = [role |-> "unknown", genesis |-> None, current |-> None]
  /\ phase' = Onwards
  /\ UNCHANGED <<vars, request, verdict, report, shown>>

-----------------------------------------------------------------------------
(* ?verify=1: the position recomputed, and compared with the claim.            *)

Walks == phase = "walk" /\ Step /\ UNCHANGED <<position, phase>>

Compare(computed, claimed) ==
  IF None \in {computed, claimed} THEN "unavailable"
  ELSE IF computed = claimed THEN "match" ELSE "mismatch"

\* Mutant of Verdict: what was computed is called verified, whatever was claimed.
VerdictAlone ==
  [verified |-> ProvenOrigin,
   origin |-> Compare(origin.origin, claim.genesis),
   current |-> Compare(tip.current, claim.current)]

\* The two agreements, and the answer's `verified`. Each mismatch is listed under
\* `disagreement`, the computed value beside the claimed one.
Verdict ==
  LET agreement == Compare(origin.origin, claim.genesis)
  IN  [verified |-> ProvenOrigin /\ agreement # "mismatch",
       origin |-> agreement,
       current |-> Compare(tip.current, claim.current)]

Compares ==
  /\ phase = "walk" /\ pc = "done"
  /\ verdict' = Verdict
  /\ phase' = "inspect"
  /\ UNCHANGED <<vars, request, claim, report, shown>>

-----------------------------------------------------------------------------
(* ?reinscriptions=1: inspectChain.                                            *)

\* Where the walk forward landed; none when there was none.
Forward == IF verdict = None THEN << >> ELSE Kept(hops, Outpoint)

PointAt(role) == [outpoint |-> IF role = "genesis" THEN claim.genesis ELSE claim.current,
                  role |-> role]

Candidates ==
  <<PointAt("genesis")>>
    \o [i \in DOMAIN Forward |-> [outpoint |-> Forward[i], role |-> "transfer"]]
    \o <<PointAt("current")>>

\* Mutant of Points: an outpoint is looked at once for every role it has.
PointsOfEveryRole == Kept(Candidates, {p \in ToSet(Candidates) : p.outpoint # None})

\* The points to look at: those there are, each once, in the role it has first.
Points ==
  Chosen(Candidates,
         {i \in DOMAIN Candidates :
            /\ Candidates[i].outpoint # None
            /\ \A j \in 1 .. i - 1 : Candidates[j].outpoint # Candidates[i].outpoint})

\* The content inscribed at an outpoint; there may be no such output.
Content(o) == IF o \in Outpoint THEN Inscribed[o] ELSE None

\* A hop that carries an inscription was summarised by the walk; the others are
\* fetched.
Fetched(points) == {points[i].outpoint : i \in DOMAIN points}
             \ {o \in ToSet(Forward) : Content(o) # None}

\* Mutant of ContentOf: the first content found, in whatever role.
ContentOfAny(found, role) ==
  IF found = << >> THEN None ELSE Content(found[1].outpoint)

\* The content at the first point that has one in that role, or None.
ContentOf(found, role) ==
  LET of == {i \in DOMAIN found : found[i].role = role}
  IN  IF of = {} THEN None ELSE Content(found[Min(of)].outpoint)

Inspection(points, failed) ==
  LET found == Kept(points, {p \in ToSet(points) : p.outpoint \notin failed
                                                   /\ Content(p.outpoint) # None})
      first == IF ContentOf(found, "genesis") # None THEN ContentOf(found, "genesis")
               ELSE IF found = << >> THEN None ELSE Content(found[1].outpoint)
      last == ContentOf(found, "current")
  IN  [inscriptions |-> found,
       reinscribed |-> \E i \in DOMAIN found : found[i].role # "genesis",
       contentDiffers |-> None \notin {first, last} /\ first # last,
       everyPoint |-> Forward # << >>,
       errors |-> failed]

\* Some of the points cannot be read.
Inspects ==
  /\ phase = "inspect"
  /\ request.reinscriptions
  /\ \E points \in {Points} :
       \E failed \in SUBSET Fetched(points) : report' = Inspection(points, failed)
  /\ phase' = "show"
  /\ UNCHANGED <<vars, request, claim, verdict, shown>>

InspectsNothing ==
  /\ phase = "inspect"
  /\ ~request.reinscriptions
  /\ phase' = "show"
  /\ UNCHANGED <<vars, position>>

\* The output shown is the origin's, because that is where the inscription
\* lives; without one, with a warning, the queried one. It may not be readable.
Shows ==
  /\ phase = "show"
  /\ shown' \in {IF claim.genesis # None THEN claim.genesis ELSE start, None}
  /\ phase' = "replied"
  /\ UNCHANGED <<vars, request, claim, verdict, report>>

-----------------------------------------------------------------------------
PositionStep ==
  \/ \E indexer \in DOMAIN KnowsLatest : Trace(indexer)
  \/ TraceUnavailable
  \/ Walks \/ Compares
  \/ Inspects \/ InspectsNothing
  \/ Shows

Replied == phase = "replied" /\ UNCHANGED positionVars

PositionNext == PositionStep \/ Replied

PositionSpec == PositionInit /\ [][PositionNext]_positionVars

\* Every request is answered or fails in time.
FairPositionSpec == PositionSpec /\ WF_positionVars(PositionStep)

-----------------------------------------------------------------------------
(* Properties. *)

\* What is called verified has the true origin, or names none; a claim that is
\* true is never called mismatched, nor a false one matched; and of the holder,
\* as long as the spend indexes tell the truth and the walk was not cut short,
\* the same. (routes/ordinals.js:132-155, verify.js:230-233, 271-289)
VerdictIsTrue ==
  verdict # None /\ start \in Outpoint =>
    /\ verdict.verified => Alone(start) /\ claim.genesis \in {None, FirstAlone[start]}
    /\ verdict.origin = "mismatch" => claim.genesis # FirstAlone[start]
    /\ verdict.origin = "match" => claim.genesis = FirstAlone[start]
    /\ ~misled /\ tip.outcome = "unrefuted" /\ Alone(start) =>
         /\ verdict.current = "mismatch" => claim.current \notin Journey[start] \/ ~Unspent(claim.current)
         /\ verdict.current = "match" => Unspent(claim.current)

\* Where the satoshi alone at start went, until it was not alone or left for
\* the fee.
Track ==
  LET after == {p \in Journey[start] : p[1] >= start[1]}
  IN  {p \in after : \A q \in after : q[1] < p[1] => Alone(q)}

Differ == /\ None \notin {claim.genesis, claim.current}
          /\ None \notin {Content(claim.genesis), Content(claim.current)}
          /\ Content(claim.genesis) # Content(claim.current)

\* An inspection that could read everything tells all there is in what it looks
\* at. Of the two ends alone, the current content is said to differ exactly when
\* it does; after a finished walk from the origin, what was inscribed on the
\* satoshi is listed, all of it, once and in order. (The current outpoint is then
\* the last hop's, in the role "transfer", and is never compared.)
\* (routes/ordinals.js:164-184, reinscription.js:70-136)
InspectionTellsAll ==
  report # None /\ report.errors = {} =>
    /\ verdict = None => (report.contentDiffers <=> Differ)
    /\ /\ verdict # None /\ ~misled /\ tip.outcome \in {"unrefuted", "merged", "fee"}
       /\ start \in Outpoint /\ Alone(start)
       /\ claim.genesis = start /\ FirstAlone[start] = start
       /\ claim.current \in {None, tip.current, start}
       => LET told == [i \in DOMAIN report.inscriptions |-> report.inscriptions[i].outpoint]
          IN  /\ ToSet(told) = {p \in Track : Content(p) # None}
              /\ \A i, j \in DOMAIN told : i < j => told[i][1] < told[j][1]
              /\ report.reinscribed <=> \E p \in Track \ {start} : Content(p) # None

\* Every request is replied to. (routes/ordinals.js:365-393)
PositionAnswered == <>(phase = "replied")

=============================================================================
