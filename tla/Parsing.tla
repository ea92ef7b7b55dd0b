------------------------------- MODULE Parsing -------------------------------
(* One output, read twice: by the token rules of the indexer, through tokenAt *)
(* of packages/core/src/inscription.js, and by the HTTP API, through the view  *)
(* that src/lib/inscription.js builds of it and the routes of                 *)
(* src/routes/ordinals.js answer with.                                        *)
EXTENDS Envelope, TokenDocument

CONSTANTS
  Here,             \* the outpoint of the output
  MaxEnvelopes,     \* config.maxEnvelopesPerOutput
  Outputs,          \* the outputs there may be: a script, its document, satoshis
  Deploys           \* what the outpoint a token names may hold: a document, or
                    \* NotJson where it cannot be fetched or holds none

ASSUME LimitAssumption == MaxEnvelopes \in Nat \ {0}

\* What JSON.parse and String() leave of a document: what is taken for digits is
\* digits, and what is taken for a ticker can be put in lower case.
Readable(json) ==
  /\ \A field \in {json.amt, json.max, json.lim, json.dec} :
       Digits(field) => field \in Seq(0 .. 9)
  /\ Present(json.tick) => json.tick \in DOMAIN Lower

ASSUME OutputAssumption ==
  /\ \A o \in Outputs : o.script \in Seq(ToSet(o.script)) /\ Readable(o.doc)
  /\ \A d \in Deploys : d # NotJson => Readable(d)

\* The values that stand for nothing are none of the things they stand beside.
ASSUME NothingAssumption ==
  /\ None \notin Nat /\ None \notin Seq(0 .. 9)
  /\ {NoField, Blank} \cap (DOMAIN OutpointAt \cup BSV20Ops \cup BSV21Ops) = {}
  /\ NoKey \notin {OutpointAt[i] : i \in DOMAIN OutpointAt} \cup {Here}
  /\ NoKey \notin {Lower[t] : t \in DOMAIN Lower}
  /\ NoBytes # "{}"
  /\ MaxUint \in Nat

VARIABLES
  script, satoshis, \* the output
  doc,              \* the document that the text "{}" stands for
  asked, answer     \* the last request, and its answer; None before the first

vars == <<script, satoshis, doc, asked, answer>>

-----------------------------------------------------------------------------
(* As the indexer reads it. *)

\* script.toAddress: a lock that is exactly a payment to an address has one.
ToAddress(s) == IF Len(s) = 1 /\ s[1].op = "p2pkh" THEN s[1].bytes ELSE NoOwner

Document(body) == IF body = "{}" THEN doc ELSE NotJson
ContentType(env) == IF "01" \in DOMAIN env.fields THEN env.fields["01"] ELSE NoBytes

\* Mutant of TokenIn: the envelope need not be valid.
TokenInLoose(envs, outpoint) ==
  IF envs = << >> THEN NoToken
  ELSE DetectToken(Document(envs[1].body), ContentType(envs[1]), outpoint)

\* The token document of an output: in its first envelope, if that is valid.
TokenIn(envs, outpoint) ==
  IF envs = << >> \/ ~envs[1].valid \/ ~envs[1].bodyPresent THEN NoToken
  ELSE DetectToken(Document(envs[1].body), ContentType(envs[1]), outpoint)

TokenAt(s, outpoint) == TokenIn(ParseEnvelopes(s, 1), outpoint)

\* lockOf of rules.js: the first envelope, up to the next OP_ENDIF, is cut out;
\* what follows the lock is not.
LockOf(s) ==
  LET starts == {j \in DOMAIN s : StartsAt(s, j)}
      ends(j) == {i \in j .. Len(s) : s[i].op = "ENDIF"} \cup {Len(s)}
  IN  IF starts = {} THEN s ELSE Without(s, Min(starts) .. Min(ends(Min(starts))))

\* An output that holds none.
NoInscription == << >>

\* inscriptionAt: the first envelope, if it is valid.
InscriptionIn(s, envs, outpoint) ==
  IF envs = << >> \/ ~envs[1].valid THEN NoInscription
  ELSE [contentType |-> ContentType(envs[1]), content |-> envs[1].body,
        token |-> DetectToken(Document(envs[1].body), ContentType(envs[1]), outpoint),
        lock |-> SplitLock(Lock(s, envs)).lock]
InscriptionAt(s, outpoint) == InscriptionIn(s, ParseEnvelopes(s, 1), outpoint)

-----------------------------------------------------------------------------
(* As the API shows it. *)

\* renderEnvelope. The bytes of the content stand for their hash.
Rendered(s, env, body, outpoint) ==
  [valid |-> env.valid, arrangement |-> Arrangement(s, env),
   token |-> DetectToken(Document(body), ContentType(env), outpoint),
   contentHash |-> body, contentType |-> ContentType(env), fields |-> env.fields]

ContentOf(env, concat) == IF concat THEN env.concat ELSE env.body

\* buildOutputView, of a script and its envelopes; sats is None where only the
\* script was fetched.
View(s, envs, sats, concat, outpoint) ==
  LET rest == SplitLock(Lock(s, envs))
  IN  [satoshis |-> sats,
       inscription |-> IF envs = << >> THEN NoInscription
                       ELSE Rendered(s, envs[1], ContentOf(envs[1], concat), outpoint),
       isOrdinal |-> IF envs = << >> THEN FALSE
                     ELSE IF sats = None THEN None ELSE sats = 1 /\ envs[1].valid,
       address |-> ToAddress(rest.lock), opReturn |-> rest.opReturn,
       ignored |-> Max({Len(envs) - 1, 0})]

\* What the endpoints of the raw bytes work from.
Raw(envs, concat) ==
  IF envs = << >> THEN [body |-> NoBytes, parts |-> << >>, fields |-> << >>]
  ELSE [body |-> ContentOf(envs[1], concat), parts |-> envs[1].parts, fields |-> envs[1].fields]

\* selectBytes: the bytes of one field, NoBytes where it is missing.
SelectBytes(raw, key, concat) ==
  IF key = "" THEN IF concat /\ Len(raw.parts) > 1 THEN Joined(raw.parts) ELSE raw.body
  ELSE IF key \in DOMAIN raw.fields THEN raw.fields[key] ELSE NoBytes

\* Mutant of Content: the first part is served as it is.
ContentFirst(raw, concat) == IF raw.parts = << >> THEN NoBytes ELSE raw.parts[1]

\* contentHandler: the bytes it serves; NoBytes is a 404.
Content(raw, concat) ==
  IF raw.body = NoBytes THEN NoBytes
  ELSE IF concat /\ Len(raw.parts) > 1 THEN Joined(raw.parts) ELSE raw.body

\* resolveOutput: an output fetched on its own, or because its transaction is
\* too large, comes without its value.
Known(fast, tooLarge) == IF fast \/ tooLarge THEN None ELSE satoshis

\* withTokenDeploy: a token that does not know its precision takes it from the
\* token at the outpoint it names, if one can be read there.
WithTokenDeploy(view, deploy) ==
  LET token == view.inscription.token
      there == IF deploy = NotJson THEN NoToken ELSE Classify(deploy, token.id)
  IN  IF \/ view.inscription = NoInscription
         \/ token = NoToken
         \/ token.id \in {NoKey, Here}
         \/ token.decimals # None
      THEN view
      ELSE [view EXCEPT !.inscription.token = ApplyDeploy(token, there)]

Init ==
  /\ \E o \in Outputs : script = o.script /\ doc = o.doc /\ satoshis = o.satoshis
  /\ asked = None /\ answer = None

\* The output, its content, and one of its fields as raw bytes.
Answer(envs, sats, concat, resolve, deploy) ==
  LET view == View(script, envs, sats, concat, Here)
      raw == Raw(envs, concat)
  IN  [view |-> IF resolve THEN WithTokenDeploy(view, deploy) ELSE view,
       content |-> Content(raw, concat),
       field |-> SelectBytes(raw, "", concat), type |-> SelectBytes(raw, "01", concat)]

Request(concat, sats, resolve, deploy) ==
  /\ asked' = [concat |-> concat, resolve |-> resolve]
  /\ answer' = Answer(ParseEnvelopes(script, MaxEnvelopes), sats, concat, resolve, deploy)
  /\ UNCHANGED <<script, satoshis, doc>>

Next ==
  /\ asked = None
  /\ \E concat, resolve \in BOOLEAN :
     \E sats \in {Known(fast, tooLarge) : fast, tooLarge \in BOOLEAN},
        deploy \in IF resolve THEN Deploys ELSE {NotJson} :
       Request(concat, sats, resolve, deploy)

Spec == Init /\ [][Next]_vars

-----------------------------------------------------------------------------
(* Properties. *)

\* A complete envelope, as the format has it: fields and values in pairs, and
\* last, if there is one, a body of at least one push.
IsEnvelope(s, from, to) ==
  /\ StartsAt(s, from)
  /\ s[to].op = "ENDIF"
  /\ \E m \in from + 3 .. to :
       /\ (m - from) % 2 = 1
       /\ \A i \in from + 3 .. m - 1 :
            IF (i - from) % 2 = 1 THEN IsFieldChunk(s[i]) ELSE IsValueChunk(s[i])
       /\ \/ m = to
          \/ /\ s[m].op = "OP_0" /\ m + 1 < to
             /\ \A i \in m + 1 .. to - 1 : IsValueChunk(s[i])

\* The scan finds the envelopes of a script and no others: each one it calls
\* valid is a complete envelope and each complete one is called so, they follow
\* one another without overlapping, and none starts outside them. A request
\* leaves the output alone, so before it is the time to look.
\* (envelope.js:43-56, 169-199)
ScannerReadsEnvelopes ==
  answer = None =>
    LET envs == ParseEnvelopes(script, Len(script))
    IN  /\ \A i \in DOMAIN envs :
             /\ envs[i].valid <=> \E to \in DOMAIN script : IsEnvelope(script, envs[i].start, to)
             /\ envs[i].valid => IsEnvelope(script, envs[i].start, envs[i].end)
             /\ i > 1 => envs[i].start > LastOf(script, envs[i - 1])
        /\ \A j \in DOMAIN script : StartsAt(script, j) => j \in Inside(script, envs)

Indexed == RulesRead(TokenAt(script, Here), satoshis, ToAddress(LockOf(script)))
Inscription == answer.view.inscription

\* The index and the API see the same token in an output: the view shows a
\* valid inscription with the token the rules read, unless it was asked to join
\* the pushes of a split body or to borrow a precision; what the rules may
\* accept is not shown as less than an ordinal; and the address of the view is
\* the owner, where nothing but the lock is left beside one envelope.
\* (inscription.js:125-137, rules.js:43-60; lib/inscription.js:63, 133-142)
IndexSeesWhatViewShows ==
  answer # None /\ ~asked.concat /\ ~asked.resolve =>
    LET token == TokenAt(script, Here)
    IN  /\ token # NoToken <=> Inscription # NoInscription /\ Inscription.valid /\ Inscription.token # NoToken
        /\ token # NoToken =>
             /\ Inscription.token = token
             /\ Indexed.satoshis = 1 => answer.view.isOrdinal \in {TRUE, None}
             /\ InscriptionAt(script, Here).token = token
             /\ answer.view.ignored = 0 /\ ~answer.view.opReturn =>
                  answer.view.address = Indexed.owner

\* The content endpoint, the field selected raw, and the hash the view gives
\* are of the same bytes, split bodies and missing ones included.
\* (ordinals.js:395-414, select.js:40-47, lib/inscription.js:36, 75)
ContentIsWhatViewHashes ==
  answer # None =>
    LET hashed == IF Inscription = NoInscription THEN NoBytes ELSE Inscription.contentHash
        type == IF Inscription = NoInscription THEN NoBytes ELSE Inscription.contentType
    IN  answer.content = hashed /\ answer.field = hashed /\ answer.type = type

\* A document called well formed holds all the rules then work with: a token to
\* be about; an amount in range for every op that moves or makes value, and
\* none for an authority, whose amount no rule would count; for the deploy of a
\* ticker, its cap; and for the mint of one, nothing an id would contradict.
\* (token.js:135-169, rules.js:115-228)
WellFormedIsUsable ==
  LET read == Indexed
      amount == Big(read.amount)
      key == KeyOf(read, Here)
  IN  read # NoToken /\ read.wellFormed =>
        /\ key # NoKey
        /\ read.standard = "BSV-20" => read.id \in {NoKey, Here}
        /\ read.standard = "BSV-21" => key = Here \/ key \in {OutpointAt[i] : i \in DOMAIN OutpointAt}
        /\ IsAuth(read) \/ read.op = "deploy" <=> read.amount = None
        /\ amount \in 0 .. MaxUint
        /\ read.op = "deploy" => read.max \in 0 .. MaxUint

\* Without its leading zeros.
Trimmed(digits) ==
  IF Significant(digits) = {} THEN << >>
  ELSE SubSeq(digits, Min(Significant(digits)), Len(digits))

ShowsExactly(token) ==
  LET shown == token.shown
  IN  /\ shown.whole # << >>
      /\ Trimmed((shown.whole \o shown.fraction) \o Zeros(token.decimals - Len(shown.fraction)))
           = Trimmed(token.amount)

\* An amount shown with a decimal point is the amount inscribed, its own
\* precision or its deploy's: no digit is lost or moved. (token.js:45-53, 193-206)
DisplayIsExact ==
  /\ answer # None /\ Inscription # NoInscription
  /\ Inscription.token # NoToken /\ Inscription.token.shown # None
  => ShowsExactly(Inscription.token)

-----------------------------------------------------------------------------
(* An inductive invariant, for ParsingProofs.                                 *)

\* The output is one of those there may be, and the answer one that a request
\* for it gets.
IInv ==
  /\ \E o \in Outputs : script = o.script /\ doc = o.doc /\ satoshis = o.satoshis
  /\ answer # None =>
       \E concat, resolve \in BOOLEAN, sats \in {None, satoshis}, deploy \in Deploys \cup {NotJson} :
         /\ asked = [concat |-> concat, resolve |-> resolve]
         /\ answer = Answer(ParseEnvelopes(script, MaxEnvelopes), sats, concat, resolve, deploy)

=============================================================================
