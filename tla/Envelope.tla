------------------------------ MODULE Envelope ------------------------------
(* packages/core/src/script.js and envelope.js: the ord envelopes of a script *)
(* and the locking script around them. A script is a sequence of chunks       *)
(* [op, bytes]: op is "push" for a data push, "OP_n" for the small numbers,   *)
(* and otherwise the opcode; bytes is what it contributes as a value. A       *)
(* pay-to-address lock is one chunk, "p2pkh", its bytes the address.          *)
EXTENDS Integers, SequencesExt, Lists

CONSTANT NoBytes      \* where there are none: no body, no such field

IsFieldChunk(c) == c.op \in {"push", "OP_n"}
IsValueChunk(c) == IsFieldChunk(c) \/ c.op = "OP_0"

\* Does an envelope start at position j? (findEnvelopeStart)
StartsAt(s, j) ==
  /\ j + 2 <= Len(s)
  /\ s[j].op = "OP_0" /\ s[j + 1].op = "IF"
  /\ s[j + 2].op = "push" /\ s[j + 2].bytes = "ord"

\* How many field and value pairs follow the "ord" at start + 2.
Pairs(s, start) ==
  LET pair(j) == j + 1 <= Len(s) /\ IsFieldChunk(s[j]) /\ IsValueChunk(s[j + 1])
  IN  Min({n \in 0 .. Len(s) : ~pair(start + 3 + 2 * n)})

\* Mutant of BodyEnd: the body runs to the OP_ENDIF, whatever is before it.
BodyEndLoose(s, marker) ==
  Min({j \in marker + 1 .. Len(s) + 1 : j = Len(s) + 1 \/ s[j].op = "ENDIF"})

\* Where the pushes after the body marker end.
BodyEnd(s, marker) ==
  Min({j \in marker + 1 .. Len(s) + 1 : j = Len(s) + 1 \/ ~IsValueChunk(s[j])})

\* addField: the last value of a field counts, how often it came is told.
FieldValues(written) ==
  LET at(k) == {i \in DOMAIN written : written[i].key = k}
  IN  [k \in {w.key : w \in ToSet(written)} |-> written[Max(at(k))].value]
Occurrences(written) ==
  [k \in {w.key : w \in ToSet(written)} |->
     Cardinality({i \in DOMAIN written : written[i].key = k})]

\* bodyConcat: the parts of a body as one.
Joined(parts) == FoldLeft(LAMBDA a, b : a \o b, "", parts)

\* What was read of an envelope: the fields written, and the parts of its body.
Described(s, start, end, bodyPresent, pairs, parts) ==
  LET terminated == end <= Len(s) /\ s[end].op = "ENDIF"
      body == IF parts = << >> THEN NoBytes ELSE parts[1]
      written == IF bodyPresent
                 THEN Append(pairs, [key |-> "", value |-> IF parts = << >> THEN "" ELSE body])
                 ELSE pairs
  IN  [start |-> start, end |-> end, terminated |-> terminated,
       bodyPresent |-> bodyPresent, body |-> body, parts |-> parts,
       concat |-> IF parts = << >> THEN NoBytes ELSE Joined(parts),
       fields |-> FieldValues(written), occurrences |-> Occurrences(written),
       valid |-> terminated /\ (bodyPresent => parts # << >>),
       next |-> IF terminated THEN end + 1 ELSE Len(s) + 1]

\* parseOne. The chunk after the n pairs is the body's marker, or it ends the
\* envelope. One that is not terminated takes the rest of the script.
ParseAfter(s, start, n, stop) ==
  LET bodyPresent == stop <= Len(s) /\ s[stop].op = "OP_0"
      end == IF bodyPresent THEN BodyEnd(s, stop) ELSE stop
      pair(i) == [key |-> s[start + 1 + 2 * i].bytes, value |-> s[start + 2 + 2 * i].bytes]
  IN  Described(s, start, end, bodyPresent, [i \in 1 .. n |-> pair(i)],
                IF bodyPresent THEN [i \in 1 .. end - stop - 1 |-> s[stop + i].bytes]
                               ELSE << >>)
ParseOne(s, start) ==
  ParseAfter(s, start, Pairs(s, start), start + 3 + 2 * Pairs(s, start))

\* Where the search for the next envelope begins, and one round of it.
From(envs) == IF envs = << >> THEN 1 ELSE Last(envs).next
Scanned(s, envs) ==
  LET starts == {j \in From(envs) .. Len(s) : StartsAt(s, j)}
  IN  IF starts = {} THEN envs ELSE Append(envs, ParseOne(s, Min(starts)))

\* parseEnvelopes: from each envelope's end, the next one, up to the limit.
ParseEnvelopes(s, limit) ==
  LET envs[n \in 0 .. limit] == IF n = 0 THEN << >> ELSE Scanned(s, envs[n - 1])
  IN  envs[limit]

Without(s, gone) == Chosen(s, DOMAIN s \ gone)

LastOf(s, env) == IF env.terminated THEN env.end ELSE Len(s)
Inside(s, envs) == UNION {env.start .. LastOf(s, env) : env \in ToSet(envs)}

\* The locking script: everything outside the envelopes.
Lock(s, envs) == Without(s, Inside(s, envs))

\* Where data that is no lock begins: OP_RETURN, its OP_FALSE included.
ReturnAt(s) ==
  LET at == Min({j \in 1 .. Len(s) + 1 : j = Len(s) + 1 \/ s[j].op = "RETURN"})
  IN  IF at \in 2 .. Len(s) /\ s[at - 1].op = "OP_0" THEN at - 1 ELSE at

\* splitLock: the lock proper, and whether OP_RETURN data follows it.
SplitLock(s) ==
  [lock |-> SubSeq(s, 1, ReturnAt(s) - 1), opReturn |-> ReturnAt(s) <= Len(s)]

\* arrangementOf: where the lock is, seen from the envelope.
Arrangement(s, env) ==
  LET before == SubSeq(s, 1, env.start - 1)
      trailing == SubSeq(s, LastOf(s, env) + 1, Len(s))
      at == {j \in DOMAIN trailing : trailing[j].op = "RETURN"}
      after == IF at = {} THEN trailing ELSE SubSeq(trailing, 1, Min(at) - 1)
      separated == \E c \in ToSet(before \o after) : c.op = "SEP"
      named(kind) == IF separated THEN kind \o "-separated" ELSE kind
  IN  CASE before = << >> /\ after = << >> -> "envelope-only"
        [] before = << >> /\ after # << >> -> named("envelope-first")
        [] before # << >> /\ after = << >> -> named("lock-first")
        [] OTHER -> "envelope-between"

=============================================================================
