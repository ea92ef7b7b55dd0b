--------------------------- MODULE TokenDocument ---------------------------
(* packages/core/src/token.js: what an inscribed document says, and whether   *)
(* it is well formed for its op. A document is its parsed JSON, a record with *)
(* the fields p, op, tick, id, amt, max, lim and dec, each holding            *)
(*   NoField   missing, or null           Blank   present, nothing but space  *)
(*   Junk      not a number where one is meant                                *)
(*   digits    a number, as the sequence of its digits                        *)
(*   a ticker, or an id, as text; texts are trimmed, ops in lower case        *)
(* NotJson is the body that is no JSON object, or too large to be a document. *)
EXTENDS TokenRules

CONSTANTS
  NoField, Blank, Junk,
  MaxUint,          \* UINT64_MAX
  Lower,            \* a ticker in lower case
  LongTick,         \* the tickers of more than 4 bytes
  OutpointAt,       \* the outpoint an id names, for the ids that name one
  NotJson,
  Parseable         \* the content types a document may have, or none

BSV21Ops == {"deploy+mint", "deploy+auth", "mint", "auth", "transfer", "burn"}
BSV20Ops == {"deploy", "mint", "transfer"}

Present(field) == field \notin {NoField, Blank}
Digits(field) == field \notin {NoField, Blank, Junk}
Val(digits) ==
  LET val[n \in 0 .. Len(digits)] ==
        IF n = 0 THEN 0 ELSE 10 * val[n - 1] + digits[n]
  IN  val[Len(digits)]

\* Mutant of IsUint: any number of digits will do.
IsUintUnbounded(field) == Digits(field)

\* parseUint has a value to give, and no error.
IsUint(field) == Digits(field) /\ Val(field) <= MaxUint

Uint(field) == IF IsUint(field) THEN field ELSE None

\* parseDecimals: a missing or malformed precision is 0, a larger one 18.
Decimals(field) == IF ~Digits(field) THEN 0 ELSE Min({Val(field), 18})
DecimalsBad(field) == field # NoField /\ (~Digits(field) \/ Val(field) > 18)

Zeros(n) == [i \in 1 .. n |-> 0]
Significant(digits) == {i \in DOMAIN digits : digits[i] # 0}

\* Mutant of Display: a short amount is not padded.
DisplayUnpadded(amount, decimals) ==
  LET n == Len(amount)
      fraction == SubSeq(amount, Max({(n - decimals) + 1, 1}), n)
  IN  [whole |-> SubSeq(amount, 1, n - decimals),
       fraction |-> SubSeq(fraction, 1, Max(Significant(fraction) \cup {0}))]

\* An amount at a precision: the digits before the point, and those after it
\* up to the last that is not a zero.
Display(amount, decimals) ==
  LET padded == Zeros((decimals + 1) - Len(amount)) \o amount
      n == Len(padded)
      fraction == SubSeq(padded, (n - decimals) + 1, n)
  IN  [whole |-> SubSeq(padded, 1, n - decimals),
       fraction |-> SubSeq(fraction, 1, Max(Significant(fraction) \cup {0}))]

Shown(amount, decimals) ==
  IF amount = None \/ decimals = None THEN None ELSE Display(amount, decimals)

Standard(json) ==
  IF json.op = "deploy" \/ (json.op \in BSV20Ops /\ Present(json.tick) /\ ~Present(json.id))
  THEN "BSV-20"
  ELSE IF json.op \in BSV21Ops THEN "BSV-21" ELSE "unknown"

\* The ops that state an amount, and have to.
Valued(standard, op) ==
  \/ standard = "BSV-20" /\ op # "deploy"
  \/ standard = "BSV-21" /\ op \notin {"auth", "deploy+auth"}

\* Is anything wrong with a document of this standard?
Faults(json, standard) ==
  \/ DecimalsBad(json.dec)
  \/ standard = "BSV-20" /\ (~Present(json.tick) \/ json.tick \in LongTick)
  \/ json.op = "deploy" /\ ~IsUint(json.max)
  \/ json.op = "deploy" /\ json.lim # NoField /\ ~IsUint(json.lim)
  \/ standard = "BSV-21" /\ ~IsDeploy(json) /\ json.id \notin DOMAIN OutpointAt
  \/ Valued(standard, json.op) /\ ~IsUint(json.amt)
  \/ standard = "BSV-21" /\ IsAuth(json) /\ json.amt # NoField

\* The token id a document goes by: a deploy's own outpoint, or what it names.
IdOf(json, standard, outpoint) ==
  IF standard # "unknown" /\ IsDeploy(json) THEN outpoint
  ELSE IF standard # "BSV-21" \/ ~Present(json.id) THEN NoKey
  ELSE IF json.id \in DOMAIN OutpointAt THEN OutpointAt[json.id] ELSE json.id

\* classifyToken. An op of neither standard, or none at all, names no token.
Classify(json, outpoint) ==
  LET standard == Standard(json)
      amount == IF Valued(standard, json.op) THEN Uint(json.amt) ELSE None
      decimals == IF standard # "unknown" /\ (IsDeploy(json) \/ json.dec # NoField)
                  THEN Decimals(json.dec) ELSE None
  IN  IF json.p # "bsv-20" THEN NoToken
      ELSE [standard |-> standard, op |-> IF Present(json.op) THEN json.op ELSE None,
            wellFormed |-> standard # "unknown" /\ ~Faults(json, standard),
            tick |-> IF standard = "BSV-20" /\ Present(json.tick) THEN Lower[json.tick] ELSE NoKey,
            id |-> IdOf(json, standard, outpoint),
            amount |-> amount,
            max |-> IF json.op = "deploy" THEN Uint(json.max) ELSE None,
            limit |-> IF json.op = "deploy" THEN Uint(json.lim) ELSE None,
            decimals |-> decimals,
            shown |-> Shown(amount, decimals)]

\* applyDeploy: the precision of an amount is its deploy's.
ApplyDeploy(token, deploy) ==
  IF NoToken \in {token, deploy} \/ deploy.decimals = None THEN token
  ELSE [token EXCEPT !.decimals = deploy.decimals,
                     !.shown = Shown(token.amount, deploy.decimals),
                     !.tick = IF @ = NoKey THEN deploy.tick ELSE @]

\* detectToken: only a body that is a document, under a type that may be one.
DetectToken(json, contentType, outpoint) ==
  IF json # NotJson /\ contentType \in Parseable THEN Classify(json, outpoint) ELSE NoToken

\* What the token rules read of a document, with its output's satoshis and owner.
RulesRead(token, satoshis, owner) ==
  LET number(digits) == IF digits = None THEN None ELSE Val(digits)
  IN  IF token = NoToken THEN NoToken
      ELSE [standard |-> token.standard, op |-> token.op, wellFormed |-> token.wellFormed,
            tick |-> token.tick, id |-> token.id, amount |-> number(token.amount),
            max |-> number(token.max), limit |-> number(token.limit),
            satoshis |-> satoshis, owner |-> owner]

=============================================================================
