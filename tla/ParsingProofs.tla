---------------------------- MODULE ParsingProofs ----------------------------
(* The properties of Parsing, for every script, every document and every       *)
(* number of envelopes the API reads.                                          *)
EXTENDS Parsing, HelperProofs

-----------------------------------------------------------------------------
(* One envelope.                                                              *)

\* Where the pairs of an envelope end: n of them, and the next is none.
IsPair(s, j) == j + 1 <= Len(s) /\ IsFieldChunk(s[j]) /\ IsValueChunk(s[j + 1])

\* Pairs counts them, and the count is within the script.
LEMMA PairsAre ==
  ASSUME NEW C, NEW s \in Seq(C), NEW start \in 1 .. Len(s), StartsAt(s, start)
  PROVE  /\ Pairs(s, start) \in Nat
         /\ (start + 3) + 2 * Pairs(s, start) <= Len(s) + 1
         /\ \A n \in Nat : n < Pairs(s, start) => IsPair(s, (start + 3) + 2 * n)
         /\ ~IsPair(s, (start + 3) + 2 * Pairs(s, start))
<1> DEFINE Ends == {n \in 0 .. Len(s) : ~IsPair(s, (start + 3) + 2 * n)}
           k == Min(Ends)
<1>1. Len(s) \in Nat /\ start + 2 <= Len(s)
  BY DEF StartsAt
<1>2. Pairs(s, start) = k
  <2>1. ASSUME NEW n \in 0 .. Len(s)
        PROVE  start + 3 + 2 * n = (start + 3) + 2 * n
    BY <1>1
  <2>2. QED
    BY <2>1 DEF Pairs, IsPair
<1>3. Len(s) \in Ends
  BY <1>1 DEF IsPair
<1>4. Ends \in SUBSET Nat
  BY <1>1
<1>5. k \in Ends /\ \A n \in Ends : k <= n
  <2> HIDE DEF Ends
  <2>1. QED
    BY <1>3, <1>4, MinIsLeast
<1> HIDE DEF k
<1>6. k \in 0 .. Len(s) /\ ~IsPair(s, (start + 3) + 2 * k)
  BY <1>5
<1>7. \A n \in Nat : n < k => IsPair(s, (start + 3) + 2 * n)
  BY <1>1, <1>5, <1>6
<1>8. (start + 3) + 2 * k <= Len(s) + 1
  <2>1. CASE k = 0
    BY <1>1, <2>1
  <2>2. CASE k # 0
    <3>1. k - 1 \in Nat /\ k - 1 < k
      BY <1>6, <2>2
    <3>2. IsPair(s, (start + 3) + 2 * (k - 1))
      BY <1>7, <3>1
    <3>3. ((start + 3) + 2 * (k - 1)) + 1 <= Len(s)
      BY <3>2 DEF IsPair
    <3>4. QED
      BY <1>1, <1>6, <3>3
  <2>3. QED
    BY <2>1, <2>2
<1>9. QED
  BY <1>2, <1>6, <1>7, <1>8

\* Where the pushes behind a body's marker end.
LEMMA BodyEndIs ==
  ASSUME NEW C, NEW s \in Seq(C), NEW marker \in 1 .. Len(s)
  PROVE  /\ BodyEnd(s, marker) \in marker + 1 .. Len(s) + 1
         /\ \A j \in marker + 1 .. BodyEnd(s, marker) - 1 : IsValueChunk(s[j])
         /\ BodyEnd(s, marker) <= Len(s) => ~IsValueChunk(s[BodyEnd(s, marker)])
<1> DEFINE Ends == {j \in marker + 1 .. Len(s) + 1 : j = Len(s) + 1 \/ ~IsValueChunk(s[j])}
           k == Min(Ends)
<1>1. Len(s) \in Nat
  OBVIOUS
<1>2. BodyEnd(s, marker) = k
  BY DEF BodyEnd
<1>3. Len(s) + 1 \in Ends /\ Ends \in SUBSET Nat
  BY <1>1
<1>4. k \in Ends /\ \A n \in Ends : k <= n
  <2> HIDE DEF Ends
  <2>1. QED
    BY <1>3, MinIsLeast
<1> HIDE DEF k
<1>5. k \in marker + 1 .. Len(s) + 1 /\ (k <= Len(s) => ~IsValueChunk(s[k]))
  BY <1>1, <1>4
<1>6. \A j \in marker + 1 .. k - 1 : IsValueChunk(s[j])
  BY <1>1, <1>4, <1>5
<1>7. QED
  BY <1>2, <1>5, <1>6

\* Where an envelope ends: at the body's marker, if the body is behind the
\* pairs, or where the body does.
Stop(s, start) == (start + 3) + 2 * Pairs(s, start)
HasBody(s, start) == Stop(s, start) <= Len(s) /\ s[Stop(s, start)].op = "OP_0"
End(s, start) == IF HasBody(s, start) THEN BodyEnd(s, Stop(s, start)) ELSE Stop(s, start)
Ended(s, start) == End(s, start) <= Len(s) /\ s[End(s, start)].op = "ENDIF"

\* What is read off a description.
LEMMA DescribedIs ==
  ASSUME NEW s, NEW start, NEW end, NEW present, NEW pairs, NEW parts
  PROVE  LET env == Described(s, start, end, present, pairs, parts)
             ended == end <= Len(s) /\ s[end].op = "ENDIF"
         IN  /\ env.start = start /\ env.end = end
             /\ env.terminated = ended
             /\ env.valid = (ended /\ (present => parts # << >>))
             /\ env.next = IF ended THEN end + 1 ELSE Len(s) + 1
             /\ env.parts = parts
             /\ env.bodyPresent = present
             /\ env.body = IF parts = << >> THEN NoBytes ELSE parts[1]
             /\ env.concat = IF parts = << >> THEN NoBytes ELSE Joined(parts)
<1> DEFINE env == Described(s, start, end, present, pairs, parts)
           ended == end <= Len(s) /\ s[end].op = "ENDIF"
<1>1. env.start = start /\ env.end = end
  BY DEF Described
<1>2. env.terminated = ended
  BY DEF Described
<1>3. env.valid = (ended /\ (present => parts # << >>))
  BY DEF Described
<1>4. env.next = IF ended THEN end + 1 ELSE Len(s) + 1
  BY DEF Described
<1>5. env.parts = parts
  BY DEF Described
<1>6. env.bodyPresent = present
  BY DEF Described
<1>7. env.body = IF parts = << >> THEN NoBytes ELSE parts[1]
  BY DEF Described
<1>8. env.concat = IF parts = << >> THEN NoBytes ELSE Joined(parts)
  BY DEF Described
<1>9. QED
  BY <1>1, <1>2, <1>3, <1>4, <1>5, <1>6, <1>7, <1>8

\* What is read at a place where an envelope starts.
LEMMA ParseOneIs ==
  ASSUME NEW C, NEW s \in Seq(C), NEW start \in 1 .. Len(s), StartsAt(s, start)
  PROVE  LET env == ParseOne(s, start)
         IN  /\ env.start = start /\ env.end = End(s, start)
             /\ env.terminated = Ended(s, start)
             /\ env.valid = (Ended(s, start) /\ (HasBody(s, start) => env.parts # << >>))
             /\ env.next = IF Ended(s, start) THEN End(s, start) + 1 ELSE Len(s) + 1
             /\ env.parts = IF HasBody(s, start)
                            THEN [i \in 1 .. (End(s, start) - Stop(s, start)) - 1 |->
                                    s[Stop(s, start) + i].bytes]
                            ELSE << >>
             /\ env.bodyPresent = HasBody(s, start)
             /\ env.body = IF env.parts = << >> THEN NoBytes ELSE env.parts[1]
             /\ env.concat = IF env.parts = << >> THEN NoBytes ELSE Joined(env.parts)
<1>1. start + 3 + 2 * Pairs(s, start) = Stop(s, start)
  BY PairsAre DEF Stop
<1>2. ParseOne(s, start) = ParseAfter(s, start, Pairs(s, start), Stop(s, start))
  BY <1>1 DEF ParseOne
<1> DEFINE pairs == [i \in 1 .. Pairs(s, start) |->
                       [key |-> s[start + 1 + 2 * i].bytes, value |-> s[start + 2 + 2 * i].bytes]]
           parts == IF HasBody(s, start)
                    THEN [i \in 1 .. (End(s, start) - Stop(s, start)) - 1 |->
                            s[Stop(s, start) + i].bytes]
                    ELSE << >>
<1>3. ParseOne(s, start) = Described(s, start, End(s, start), HasBody(s, start), pairs, parts)
  BY <1>2 DEF ParseAfter, HasBody, End
<1> HIDE DEF pairs, parts
<1> DEFINE env == ParseOne(s, start)
<1>4. /\ env.start = start /\ env.end = End(s, start)
      /\ env.parts = parts /\ env.bodyPresent = HasBody(s, start)
      /\ env.body = IF parts = << >> THEN NoBytes ELSE parts[1]
      /\ env.concat = IF parts = << >> THEN NoBytes ELSE Joined(parts)
  BY <1>3, DescribedIs
<1>5. /\ env.terminated = Ended(s, start)
      /\ env.valid = (Ended(s, start) /\ (HasBody(s, start) => parts # << >>))
      /\ env.next = IF Ended(s, start) THEN End(s, start) + 1 ELSE Len(s) + 1
  BY <1>3, DescribedIs DEF Ended
<1>6. QED
  BY <1>4, <1>5 DEF parts

\* Behind the start, and up to where the pairs end, fields and values alternate.
LEMMA PairedChunks ==
  ASSUME NEW C, NEW s \in Seq(C), NEW start \in 1 .. Len(s), StartsAt(s, start),
         NEW i \in start + 3 .. Stop(s, start) - 1
  PROVE  IF (i - start) % 2 = 1 THEN IsFieldChunk(s[i]) ELSE IsValueChunk(s[i])
<1> DEFINE x == i - (start + 3)
           n == x \div 2
           k == Pairs(s, start)
<1>1. /\ k \in Nat /\ Len(s) \in Nat
      /\ \A m \in Nat : m < k => IsPair(s, (start + 3) + 2 * m)
  BY PairsAre
<1> HIDE DEF k
<1>2. x \in Nat /\ x < 2 * k /\ i = (start + 3) + x /\ i - start = x + 3
  BY <1>1 DEF Stop, k
<1> HIDE DEF x
<1>3. n \in Nat /\ (x = 2 * n \/ x = 2 * n + 1)
      /\ (x = 2 * n => (x + 3) % 2 = 1) /\ (x = 2 * n + 1 => (x + 3) % 2 = 0)
  BY <1>2
<1> HIDE DEF n
<1>4. n < k
  BY <1>1, <1>2, <1>3
<1>5. IsPair(s, (start + 3) + 2 * n)
  BY <1>1, <1>3, <1>4
<1>6. CASE x = 2 * n
  BY <1>2, <1>3, <1>5, <1>6 DEF IsPair
<1>7. CASE x = 2 * n + 1
  <2>1. i = ((start + 3) + 2 * n) + 1
    BY <1>2, <1>3, <1>7
  <2>2. QED
    BY <1>2, <1>3, <1>5, <1>7, <2>1 DEF IsPair
<1>8. QED
  BY <1>3, <1>6, <1>7

\* Where an envelope ends, and that nothing in it could end it earlier.
LEMMA EndIs ==
  ASSUME NEW C, NEW s \in Seq(C), NEW start \in 1 .. Len(s), StartsAt(s, start)
  PROVE  /\ Stop(s, start) \in start + 3 .. Len(s) + 1
         /\ End(s, start) \in Stop(s, start) .. Len(s) + 1
         /\ \A i \in start .. End(s, start) - 1 : s[i].op # "ENDIF"
<1> DEFINE stop == Stop(s, start)
           end == End(s, start)
<1>1. stop \in start + 3 .. Len(s) + 1 /\ Len(s) \in Nat
  BY PairsAre DEF Stop
<1>2. end \in stop .. Len(s) + 1 /\ \A i \in stop .. end - 1 : s[i].op # "ENDIF"
  <2>1. CASE HasBody(s, start)
    <3>1. stop \in 1 .. Len(s) /\ s[stop].op = "OP_0" /\ end = BodyEnd(s, stop)
      BY <1>1, <2>1 DEF HasBody, End
    <3> HIDE DEF stop, end
    <3>2. /\ end \in stop + 1 .. Len(s) + 1
          /\ \A j \in stop + 1 .. end - 1 : IsValueChunk(s[j])
      BY <3>1, BodyEndIs
    <3>3. ASSUME NEW i \in stop .. end - 1
          PROVE  s[i].op # "ENDIF"
      <4>1. CASE i = stop
        BY <3>1, <4>1
      <4>2. CASE i # stop
        <5>1. IsValueChunk(s[i])
          BY <1>1, <3>1, <3>2, <4>2
        <5>2. QED
          BY <5>1 DEF IsValueChunk, IsFieldChunk
      <4>3. QED
        BY <4>1, <4>2
    <3>4. QED
      BY <1>1, <3>1, <3>2, <3>3
  <2>2. CASE ~HasBody(s, start)
    <3>1. end = stop
      BY <2>2 DEF End
    <3> HIDE DEF stop, end
    <3>2. QED
      BY <1>1, <3>1
  <2>3. QED
    BY <2>1, <2>2
<1>3. ASSUME NEW i \in start + 3 .. stop - 1
      PROVE  s[i].op # "ENDIF"
  BY <1>3, PairedChunks DEF IsValueChunk, IsFieldChunk
<1>4. \A i \in start .. start + 2 : s[i].op # "ENDIF"
  BY <1>1 DEF StartsAt
<1>5. QED
  <2> HIDE DEF stop, end
  <2>1. \A i \in start .. end - 1 :
          i \in start .. start + 2 \/ i \in start + 3 .. stop - 1 \/ i \in stop .. end - 1
    BY <1>1, <1>2
  <2>2. \A i \in start .. end - 1 : s[i].op # "ENDIF"
    BY <1>2, <1>3, <1>4, <2>1
  <2>3. QED
    BY <1>1, <1>2, <2>2 DEF stop, end

\* What is called valid is a complete envelope.
LEMMA ValidIsEnvelope ==
  ASSUME NEW C, NEW s \in Seq(C), NEW start \in 1 .. Len(s), StartsAt(s, start),
         ParseOne(s, start).valid
  PROVE  End(s, start) \in 1 .. Len(s) /\ IsEnvelope(s, start, End(s, start))
<1> DEFINE stop == Stop(s, start)
           end == End(s, start)
<1>1. /\ Ended(s, start)
      /\ HasBody(s, start) => ParseOne(s, start).parts # << >>
      /\ HasBody(s, start) => ParseOne(s, start).parts
                                = [i \in 1 .. (end - stop) - 1 |-> s[stop + i].bytes]
  BY ParseOneIs
<1>2. end <= Len(s) /\ s[end].op = "ENDIF"
  BY <1>1 DEF Ended
<1>3. stop \in start + 3 .. Len(s) + 1 /\ end \in stop .. Len(s) + 1 /\ Len(s) \in Nat
  BY EndIs
<1>4. \A i \in start + 3 .. stop - 1 :
        IF (i - start) % 2 = 1 THEN IsFieldChunk(s[i]) ELSE IsValueChunk(s[i])
  BY PairedChunks
<1>5. (stop - start) % 2 = 1
  <2>1. Pairs(s, start) \in Nat /\ stop - start = 2 * Pairs(s, start) + 3
    BY PairsAre DEF Stop
  <2>2. QED
    BY <2>1
<1>6. \/ stop = end
      \/ /\ s[stop].op = "OP_0" /\ stop + 1 < end
         /\ \A i \in stop + 1 .. end - 1 : IsValueChunk(s[i])
  <2>1. CASE HasBody(s, start)
    <3>1. stop \in 1 .. Len(s) /\ s[stop].op = "OP_0" /\ end = BodyEnd(s, stop)
      BY <1>3, <2>1 DEF HasBody, End
    <3>2. [i \in 1 .. (end - stop) - 1 |-> s[stop + i].bytes] # << >>
      BY <1>1, <2>1
    <3> HIDE DEF stop, end
    <3>3. \A j \in stop + 1 .. end - 1 : IsValueChunk(s[j])
      BY <3>1, BodyEndIs
    <3>4. stop + 1 < end
      <4>1. SUFFICES ASSUME end <= stop + 1
                     PROVE  FALSE
        BY <1>3
      <4>2. 1 .. (end - stop) - 1 = {}
        BY <1>3, <4>1
      <4>3. QED
        BY <3>2, <4>2
    <3>5. QED
      BY <3>1, <3>3, <3>4
  <2>2. CASE ~HasBody(s, start)
    BY <2>2 DEF End
  <2>3. QED
    BY <2>1, <2>2
<1>7. stop \in start + 3 .. end
  BY <1>2, <1>3
<1> HIDE DEF stop, end
<1>8. IsEnvelope(s, start, end)
  BY <1>2, <1>4, <1>5, <1>6, <1>7 DEF IsEnvelope
<1>9. QED
  BY <1>2, <1>3, <1>8 DEF end

\* A complete envelope is called valid.
LEMMA EnvelopeIsValid ==
  ASSUME NEW C, NEW s \in Seq(C), NEW start \in 1 .. Len(s), NEW to \in 1 .. Len(s),
         IsEnvelope(s, start, to)
  PROVE  ParseOne(s, start).valid
<1> DEFINE stop == Stop(s, start)
           end == End(s, start)
           k == Pairs(s, start)
<1>1. StartsAt(s, start) /\ s[to].op = "ENDIF"
  BY DEF IsEnvelope
<1>2. PICK m \in start + 3 .. to :
        /\ (m - start) % 2 = 1
        /\ \A i \in start + 3 .. m - 1 :
             IF (i - start) % 2 = 1 THEN IsFieldChunk(s[i]) ELSE IsValueChunk(s[i])
        /\ \/ m = to
           \/ /\ s[m].op = "OP_0" /\ m + 1 < to
              /\ \A i \in m + 1 .. to - 1 : IsValueChunk(s[i])
  BY DEF IsEnvelope
<1>3. /\ k \in Nat /\ Len(s) \in Nat
      /\ stop = (start + 3) + 2 * k /\ stop <= Len(s) + 1
      /\ \A n \in Nat : n < k => IsPair(s, (start + 3) + 2 * n)
      /\ ~IsPair(s, stop)
  BY <1>1, PairsAre DEF Stop
<1>4. ~IsFieldChunk(s[m])
  BY <1>1, <1>2 DEF IsFieldChunk
<1>5. stop = m
  <2> HIDE DEF k, stop
  <2> DEFINE x == m - (start + 3)
             n == x \div 2
  <2>1. x \in Nat /\ m - start = x + 3 /\ m = (start + 3) + x
    BY <1>3
  <2>2. (x + 3) % 2 = 1
    BY <1>2, <2>1
  <2> HIDE DEF x
  <2>3. n \in Nat /\ x = 2 * n
    BY <2>1, <2>2
  <2> HIDE DEF n
  <2>4. m = (start + 3) + 2 * n
    BY <2>1, <2>3
  <2>5. ~(n < k)
    <3>1. ~IsPair(s, m)
      BY <1>4 DEF IsPair
    <3>2. QED
      BY <1>3, <2>3, <2>4, <3>1
  <2>6. ~(k < n)
    <3>1. SUFFICES ASSUME k < n
                   PROVE  FALSE
      OBVIOUS
    <3>2. stop \in start + 3 .. m - 1 /\ stop + 1 \in start + 3 .. m - 1
      BY <1>3, <2>3, <2>4, <3>1
    <3>3. (stop - start) % 2 = 1 /\ ((stop + 1) - start) % 2 # 1
      <4>1. stop - start = 2 * k + 3 /\ (stop + 1) - start = 2 * k + 4
        BY <1>3
      <4>2. QED
        BY <1>3, <4>1
    <3>4. IsFieldChunk(s[stop]) /\ IsValueChunk(s[stop + 1])
      BY <1>2, <3>2, <3>3
    <3>5. stop + 1 <= Len(s)
      BY <1>3, <3>2
    <3>6. QED
      BY <1>3, <3>4, <3>5 DEF IsPair
  <2>7. QED
    BY <1>3, <2>3, <2>4, <2>5, <2>6
<1>6. /\ ParseOne(s, start).valid
           = (Ended(s, start) /\ (HasBody(s, start) => ParseOne(s, start).parts # << >>))
      /\ HasBody(s, start) => ParseOne(s, start).parts
                                = [i \in 1 .. (end - stop) - 1 |-> s[stop + i].bytes]
  BY <1>1, ParseOneIs
<1>7. CASE m = to
  <2>1. ~HasBody(s, start)
    BY <1>1, <1>5, <1>7 DEF HasBody
  <2>2. end = stop
    BY <2>1 DEF End
  <2>3. Ended(s, start)
    BY <1>1, <1>5, <1>7, <2>2 DEF Ended
  <2>4. QED
    BY <1>6, <2>1, <2>3
<1>8. CASE m # to
  <2>1. /\ s[m].op = "OP_0" /\ m + 1 < to
        /\ \A i \in m + 1 .. to - 1 : IsValueChunk(s[i])
    BY <1>2, <1>8
  <2>2. HasBody(s, start) /\ stop \in 1 .. Len(s)
    BY <1>3, <1>5, <2>1 DEF HasBody
  <2>3. end = BodyEnd(s, stop)
    BY <2>2 DEF End
  <2> HIDE DEF end, stop
  <2>4. /\ end \in stop + 1 .. Len(s) + 1
        /\ \A j \in stop + 1 .. end - 1 : IsValueChunk(s[j])
        /\ end <= Len(s) => ~IsValueChunk(s[end])
    BY <2>2, <2>3, BodyEndIs
  <2>5. ~IsValueChunk(s[to])
    BY <1>1 DEF IsValueChunk, IsFieldChunk
  <2>6. end = to
    <3>1. ~(end < to)
      <4>1. SUFFICES ASSUME end < to
                     PROVE  FALSE
        OBVIOUS
      <4>2. end \in m + 1 .. to - 1 /\ end <= Len(s)
        BY <1>3, <1>5, <2>1, <2>4, <4>1
      <4>3. QED
        BY <2>1, <2>4, <4>2
    <3>2. ~(to < end)
      <4>1. SUFFICES ASSUME to < end
                     PROVE  FALSE
        OBVIOUS
      <4>2. to \in stop + 1 .. end - 1
        BY <1>3, <1>5, <2>1, <2>4, <4>1
      <4>3. QED
        BY <2>4, <2>5, <4>2
    <3>3. QED
      BY <1>3, <2>4, <3>1, <3>2
  <2>7. Ended(s, start)
    BY <1>1, <2>6 DEF Ended, end
  <2>8. [i \in 1 .. (end - stop) - 1 |-> s[stop + i].bytes] # << >>
    <3>1. 1 \in 1 .. (end - stop) - 1
      BY <1>3, <1>5, <2>1, <2>4, <2>6
    <3>2. QED
      BY <3>1
  <2>9. QED
    BY <1>6, <2>2, <2>7, <2>8
<1>9. QED
  BY <1>7, <1>8

-----------------------------------------------------------------------------
(* The scan for them.                                                         *)

\* What is read at a place where an envelope starts: it begins there, and the
\* search goes on behind it.
LEMMA OneRead ==
  ASSUME NEW C, NEW s \in Seq(C), NEW j \in 1 .. Len(s), StartsAt(s, j)
  PROVE  LET env == ParseOne(s, j)
         IN  /\ env.start = j
             /\ env.next \in j + 1 .. Len(s) + 1
             /\ env.next = LastOf(s, env) + 1
<1> DEFINE env == ParseOne(s, j)
<1>1. /\ Stop(s, j) \in j + 3 .. Len(s) + 1 /\ End(s, j) \in Stop(s, j) .. Len(s) + 1
      /\ Len(s) \in Nat
  BY EndIs
<1>2. /\ env.start = j /\ env.end = End(s, j) /\ env.terminated = Ended(s, j)
      /\ env.next = IF Ended(s, j) THEN End(s, j) + 1 ELSE Len(s) + 1
  BY ParseOneIs
<1>3. Ended(s, j) => End(s, j) <= Len(s)
  BY DEF Ended
<1> HIDE DEF env
<1>4. env.next = LastOf(s, env) + 1
  BY <1>2 DEF LastOf
<1>5. env.next \in j + 1 .. Len(s) + 1
  BY <1>1, <1>2, <1>3
<1>6. QED
  BY <1>2, <1>4, <1>5 DEF env

\* Where envelopes start, what is read there, and what n rounds of the scan
\* have read of s.
Starts(s) == {j \in 1 .. Len(s) : StartsAt(s, j)}
Envelopes(s) == {ParseOne(s, j) : j \in Starts(s)}
ReadAt(s, env) == env.start \in Starts(s) /\ env = ParseOne(s, env.start)
Scans(s, n, envs) ==
  /\ envs \in Seq(Envelopes(s)) /\ Len(envs) <= n
  /\ \A i \in 1 .. Len(envs) : ReadAt(s, envs[i]) /\ i <= envs[i].start
  /\ \A i \in 2 .. Len(envs) : envs[i - 1].next <= envs[i].start
  /\ \A j \in Starts(s) :
       j < From(envs) => \E i \in 1 .. Len(envs) : envs[i].start <= j /\ j < envs[i].next
  /\ Len(envs) < n => \A j \in Starts(s) : j < From(envs)
  /\ envs # << >> => \A j \in Starts(s) : envs[1].start <= j

LEMMA FromIs ==
  ASSUME NEW C, NEW s \in Seq(C), NEW envs \in Seq(Envelopes(s)),
         \A i \in 1 .. Len(envs) : ReadAt(s, envs[i])
  PROVE  /\ From(envs) \in 1 .. Len(s) + 1
         /\ envs # << >> => From(envs) = envs[Len(envs)].next /\ Len(envs) \in 1 .. Len(envs)
<1>1. CASE envs = << >>
  BY <1>1 DEF From
<1>2. CASE envs # << >>
  <2>1. Len(envs) \in 1 .. Len(envs) /\ From(envs) = envs[Len(envs)].next
    BY <1>2 DEF From, Last
  <2> DEFINE env == envs[Len(envs)]
  <2>2. env.start \in 1 .. Len(s) /\ StartsAt(s, env.start) /\ env = ParseOne(s, env.start)
    BY <2>1 DEF ReadAt, Starts
  <2> HIDE DEF env
  <2>3. env.next \in env.start + 1 .. Len(s) + 1
    BY <2>2, OneRead
  <2>4. QED
    BY <2>1, <2>2, <2>3 DEF env
<1>3. QED
  BY <1>1, <1>2

LEMMA OneScanned ==
  ASSUME NEW C, NEW s \in Seq(C), NEW n \in Nat, NEW envs, Scans(s, n, envs)
  PROVE  Scans(s, n + 1, Scanned(s, envs))
<1> DEFINE starts == {j \in From(envs) .. Len(s) : StartsAt(s, j)}
<1>1. /\ envs \in Seq(Envelopes(s)) /\ Len(envs) \in Nat /\ Len(envs) <= n
      /\ \A i \in 1 .. Len(envs) : ReadAt(s, envs[i]) /\ i <= envs[i].start
  BY DEF Scans
<1>2. From(envs) \in 1 .. Len(s) + 1 /\ Len(s) \in Nat
  BY <1>1, FromIs
<1>3. starts = {j \in Starts(s) : From(envs) <= j}
  BY <1>2 DEF Starts
<1>4. CASE starts = {}
  <2>1. Scanned(s, envs) = envs
    BY <1>4 DEF Scanned
  <2>2. \A j \in Starts(s) : j < From(envs)
    <3>1. \A j \in Starts(s) : j \in Nat
      BY DEF Starts
    <3>2. QED
      BY <1>2, <1>3, <1>4, <3>1
  <2>3. QED
    BY <1>1, <2>1, <2>2 DEF Scans
<1>5. CASE starts # {}
  <2> DEFINE k == Min(starts)
             env == ParseOne(s, k)
             more == Append(envs, env)
  <2>1. Scanned(s, envs) = more
    BY <1>5 DEF Scanned
  <2>2. starts \in SUBSET Nat
    BY <1>2
  <2>3. k \in starts /\ \A j \in starts : k <= j
    <3> HIDE DEF starts
    <3>1. QED
      BY <1>5, <2>2, MinIsLeast
  <2> HIDE DEF k
  <2>4. /\ k \in Starts(s) /\ From(envs) <= k /\ k \in 1 .. Len(s) /\ StartsAt(s, k)
        /\ \A j \in Starts(s) : From(envs) <= j => k <= j
    BY <1>3, <2>3 DEF Starts
  <2>5. env.start = k /\ env.next \in k + 1 .. Len(s) + 1
    BY <2>4, OneRead
  <2>6. env \in Envelopes(s) /\ ReadAt(s, env)
    BY <2>4, <2>5 DEF Envelopes, ReadAt
  <2> HIDE DEF env
  <2>7. /\ more \in Seq(Envelopes(s)) /\ Len(more) = Len(envs) + 1
        /\ more[Len(envs) + 1] = env
        /\ \A i \in 1 .. Len(envs) : more[i] = envs[i]
    BY <1>1, <2>6
  <2> HIDE DEF more, starts
  <2>8. From(more) = env.next
    BY <1>1, <2>7 DEF From, Last
  <2>9. \A i \in 1 .. Len(more) : ReadAt(s, more[i])
    BY <1>1, <2>6, <2>7
  <2>10. Len(envs) + 1 <= k
    <3>1. CASE Len(envs) = 0
      BY <2>4, <3>1
    <3>2. CASE Len(envs) # 0
      <4>1. Len(envs) \in 1 .. Len(envs) /\ envs # << >>
        BY <1>1, <3>2
      <4>2. ReadAt(s, envs[Len(envs)]) /\ Len(envs) <= envs[Len(envs)].start
        BY <1>1, <4>1
      <4>3. From(envs) = envs[Len(envs)].next
        BY <1>1, <4>1, FromIs
      <4> DEFINE last == envs[Len(envs)]
      <4>4. last.start \in 1 .. Len(s) /\ last.next \in last.start + 1 .. Len(s) + 1
        BY <4>2, OneRead DEF ReadAt, Starts
      <4>5. QED
        BY <1>1, <2>4, <4>2, <4>3, <4>4
    <3>3. QED
      BY <3>1, <3>2
  <2>11. \A i \in 1 .. Len(more) : i <= more[i].start
    BY <1>1, <2>5, <2>7, <2>10
  <2>12. \A i \in 2 .. Len(more) : more[i - 1].next <= more[i].start
    <3>1. ASSUME NEW i \in 2 .. Len(more)
          PROVE  more[i - 1].next <= more[i].start
      <4>1. CASE i \in 2 .. Len(envs)
        <5>1. envs[i - 1].next <= envs[i].start
          BY <4>1 DEF Scans
        <5>2. i - 1 \in 1 .. Len(envs) /\ i \in 1 .. Len(envs)
          BY <1>1, <4>1
        <5>3. QED
          BY <2>7, <5>1, <5>2
      <4>2. CASE i = Len(envs) + 1
        <5>1. Len(envs) \in 1 .. Len(envs) /\ envs # << >> /\ i - 1 = Len(envs)
          BY <1>1, <2>7, <4>2
        <5>2. From(envs) = envs[Len(envs)].next
          BY <1>1, <5>1, FromIs
        <5>3. QED
          BY <2>4, <2>5, <2>7, <4>2, <5>1, <5>2
      <4>3. QED
        BY <1>1, <2>7, <4>1, <4>2
    <3>2. QED
      BY <3>1
  <2>13. ASSUME NEW j \in Starts(s), j < From(more)
         PROVE  \E i \in 1 .. Len(more) : more[i].start <= j /\ j < more[i].next
    <3>1. CASE j < From(envs)
      <4>1. PICK i \in 1 .. Len(envs) : envs[i].start <= j /\ j < envs[i].next
        BY <3>1 DEF Scans
      <4>2. i \in 1 .. Len(more) /\ more[i] = envs[i]
        BY <1>1, <2>7
      <4>3. QED
        BY <4>1, <4>2
    <3>2. CASE ~(j < From(envs))
      <4>1. k <= j
        BY <1>2, <2>4, <3>2 DEF Starts
      <4>2. Len(envs) + 1 \in 1 .. Len(more)
        BY <1>1, <2>7
      <4>3. QED
        BY <2>5, <2>7, <2>8, <2>13, <4>1, <4>2
    <3>3. QED
      BY <3>1, <3>2
  <2>14. Len(more) < n + 1 => \A j \in Starts(s) : j < From(more)
    <3>1. ASSUME Len(more) < n + 1
          PROVE  FALSE
      <4>1. Len(envs) < n
        BY <1>1, <2>7, <3>1
      <4>2. k < From(envs)
        BY <2>4, <4>1 DEF Scans
      <4>3. QED
        BY <1>2, <2>4, <4>2
    <3>2. QED
      BY <3>1
  <2>15. \A j \in Starts(s) : more[1].start <= j
    <3>1. CASE envs = << >>
      <4>1. From(envs) = 1 /\ more[1] = env
        BY <2>7, <3>1 DEF From
      <4>2. QED
        BY <2>4, <2>5, <4>1 DEF Starts
    <3>2. CASE envs # << >>
      <4>1. 1 \in 1 .. Len(envs) /\ \A j \in Starts(s) : envs[1].start <= j
        BY <1>1, <3>2 DEF Scans
      <4>2. QED
        BY <2>7, <4>1
    <3>3. QED
      BY <3>1, <3>2
  <2>16. Len(more) <= n + 1
    BY <1>1, <2>7
  <2>17. QED
    BY <2>1, <2>7, <2>9, <2>11, <2>12, <2>13, <2>14, <2>15, <2>16 DEF Scans
<1>6. QED
  BY <1>4, <1>5

\* parseEnvelopes.
LEMMA ParseEnvelopesIs ==
  ASSUME NEW C, NEW s \in Seq(C), NEW limit \in Nat
  PROVE  Scans(s, limit, ParseEnvelopes(s, limit))
<1> DEFINE S == Seq(Envelopes(s))
           T == {envs \in S : \A i \in 1 .. Len(envs) : ReadAt(s, envs[i])}
           next == [n \in 1 .. limit |-> [envs \in T |-> Scanned(s, envs)]]
           Loops(f) == f = [n \in 0 .. limit |->
                              IF n = 0 THEN << >> ELSE Scanned(s, f[n - 1])]
           envs == CHOOSE f : Loops(f)
           Reached == {n \in 0 .. limit : Scans(s, n, envs[n])}
<1>1. ParseEnvelopes(s, limit) = envs[limit]
  BY DEF ParseEnvelopes
<1>2. << >> \in T
  OBVIOUS
<1>3. \A e \in T : Scanned(s, e) \in T
  <2>1. ASSUME NEW e \in T
        PROVE  Scanned(s, e) \in T
    <3> DEFINE starts == {j \in From(e) .. Len(s) : StartsAt(s, j)}
    <3>1. e \in S /\ (\A i \in 1 .. Len(e) : ReadAt(s, e[i])) /\ Len(e) \in Nat
      OBVIOUS
    <3>2. From(e) \in 1 .. Len(s) + 1
      BY <3>1, FromIs
    <3>3. CASE starts = {}
      <4>1. Scanned(s, e) = e
        BY <3>3 DEF Scanned
      <4>2. QED
        BY <4>1
    <3>4. CASE starts # {}
      <4> DEFINE k == Min(starts)
      <4>1. Scanned(s, e) = Append(e, ParseOne(s, k))
        BY <3>4 DEF Scanned
      <4>2. starts \in SUBSET Nat
        BY <3>2
      <4>3. k \in starts
        <5> HIDE DEF starts
        <5>1. QED
          BY <3>4, <4>2, MinIsLeast
      <4> HIDE DEF k
      <4>4. k \in 1 .. Len(s) /\ StartsAt(s, k)
        BY <3>2, <4>3
      <4>5. ParseOne(s, k).start = k
        BY <4>4, OneRead
      <4>6. ParseOne(s, k) \in Envelopes(s) /\ ReadAt(s, ParseOne(s, k))
        BY <4>4, <4>5 DEF Envelopes, ReadAt, Starts
      <4> DEFINE env == ParseOne(s, k)
                 more == Append(e, env)
      <4> HIDE DEF env
      <4>7. more \in S /\ Len(more) = Len(e) + 1 /\ more[Len(e) + 1] = env
            /\ \A i \in 1 .. Len(e) : more[i] = e[i]
        BY <3>1, <4>6 DEF env
      <4> HIDE DEF more
      <4>8. \A i \in 1 .. Len(more) : ReadAt(s, more[i])
        BY <3>1, <4>6, <4>7 DEF env
      <4>9. QED
        BY <4>1, <4>7, <4>8 DEF more, env
    <3>5. QED
      BY <3>3, <3>4
  <2>2. QED
    BY <2>1
<1> HIDE DEF T
<1>4. \E f : Loops(f)
  <2>1. next \in [1 .. limit -> [T -> T]]
    BY <1>3
  <2>2. PICK g \in [0 .. limit -> T] : Iteration(g, limit, << >>, next)
    <3> HIDE DEF next
    <3>1. QED
      BY <1>2, <2>1, Iterates
  <2>3. ASSUME NEW n \in 0 .. limit
        PROVE  (IF n = 0 THEN << >> ELSE next[n][g[n - 1]])
                 = IF n = 0 THEN << >> ELSE Scanned(s, g[n - 1])
    <3>1. CASE n # 0
      <4>1. n \in 1 .. limit /\ g[n - 1] \in T
        BY <3>1
      <4>2. QED
        BY <3>1, <4>1
    <3>2. QED
      BY <3>1
  <2>4. g = [n \in 0 .. limit |-> IF n = 0 THEN << >> ELSE next[n][g[n - 1]]]
    BY <2>2 DEF Iteration
  <2> HIDE DEF next
  <2>5. Loops(g)
    BY <2>3, <2>4
  <2>6. QED
    BY <2>5
<1>5. Loops(envs)
  <2> HIDE DEF Loops
  <2>1. QED
    BY <1>4
<1> HIDE DEF envs
<1>6. 0 \in Reached
  <2>1. envs[0] = << >> /\ 0 \in 0 .. limit
    BY <1>5
  <2>2. \A j \in Starts(s) : j >= 1 /\ j \in Nat
    BY DEF Starts
  <2>3. From(<< >>) = 1
    BY DEF From
  <2>4. Scans(s, 0, << >>)
    BY <2>2, <2>3 DEF Scans
  <2>5. QED
    BY <2>1, <2>4
<1>7. ASSUME NEW n \in 1 .. limit, n - 1 \in Reached
      PROVE  n \in Reached
  <2>1. n \in 0 .. limit /\ n # 0 /\ n - 1 \in Nat /\ (n - 1) + 1 = n
    OBVIOUS
  <2>2. envs[n] = Scanned(s, envs[n - 1])
    BY <1>5, <2>1
  <2>3. Scans(s, (n - 1) + 1, Scanned(s, envs[n - 1]))
    BY <1>7, <2>1, OneScanned
  <2>4. QED
    BY <2>1, <2>2, <2>3
<1>8. \A n \in 0 .. limit : n \in Reached
  <2> HIDE DEF Reached
  <2>1. QED
    BY <1>6, <1>7, StepByStep
<1>9. QED
  BY <1>1, <1>8

\* The first of them.
LEMMA FirstEnvelope ==
  ASSUME NEW C, NEW s \in Seq(C), NEW limit \in Nat \ {0}
  PROVE  LET envs == ParseEnvelopes(s, limit)
             k == Min(Starts(s))
         IN  /\ Starts(s) = {} => envs = << >>
             /\ Starts(s) # {} =>
                  /\ envs # << >> /\ Len(envs) \in Nat \ {0} /\ DOMAIN envs = 1 .. Len(envs)
                  /\ k \in Starts(s) /\ k \in 1 .. Len(s) /\ StartsAt(s, k)
                  /\ \A j \in Starts(s) : k <= j
                  /\ envs[1] = ParseOne(s, k)
<1> DEFINE envs == ParseEnvelopes(s, limit)
           k == Min(Starts(s))
<1>1. Scans(s, limit, envs)
  BY ParseEnvelopesIs
<1> HIDE DEF envs
<1>2. /\ envs \in Seq(Envelopes(s)) /\ Len(envs) \in Nat /\ DOMAIN envs = 1 .. Len(envs)
      /\ \A i \in 1 .. Len(envs) : ReadAt(s, envs[i])
      /\ Len(envs) < limit => \A j \in Starts(s) : j < From(envs)
      /\ envs # << >> => \A j \in Starts(s) : envs[1].start <= j
  BY <1>1 DEF Scans
<1>3. envs # << >> => 1 \in 1 .. Len(envs)
  BY <1>2
<1>4. ASSUME Starts(s) = {}
      PROVE  envs = << >>
  BY <1>2, <1>3, <1>4 DEF ReadAt
<1>5. ASSUME Starts(s) # {}
      PROVE  /\ envs # << >>
             /\ k \in Starts(s) /\ k \in 1 .. Len(s) /\ StartsAt(s, k)
             /\ \A j \in Starts(s) : k <= j
             /\ envs[1] = ParseOne(s, k)
  <2>1. Starts(s) \in SUBSET Nat
    BY DEF Starts
  <2>2. k \in Starts(s) /\ \A j \in Starts(s) : k <= j
    BY <1>5, <2>1, MinIsLeast
  <2> HIDE DEF k
  <2>3. k \in 1 .. Len(s) /\ StartsAt(s, k)
    BY <2>2 DEF Starts
  <2>4. envs # << >>
    <3>1. SUFFICES ASSUME envs = << >>
                   PROVE  FALSE
      OBVIOUS
    <3>2. From(envs) = 1 /\ Len(envs) = 0
      BY <3>1 DEF From
    <3>3. QED
      BY <1>2, <2>2, <2>3, <3>2
  <2>5. envs[1].start \in Starts(s) /\ envs[1] = ParseOne(s, envs[1].start)
        /\ \A j \in Starts(s) : envs[1].start <= j
    BY <1>2, <1>3, <2>4 DEF ReadAt
  <2>6. envs[1].start = k
    <3>1. envs[1].start \in Nat /\ envs[1].start <= k /\ k <= envs[1].start
      BY <2>1, <2>2, <2>5
    <3>2. QED
      BY <2>3, <3>1
  <2>7. QED
    BY <2>2, <2>3, <2>4, <2>5, <2>6
<1>6. QED
  BY <1>2, <1>3, <1>4, <1>5 DEF envs, k

-----------------------------------------------------------------------------
(* The scanner.                                                               *)

\* ScannerReadsEnvelopes, of any script.
LEMMA ScannerReads ==
  ASSUME NEW C, NEW s \in Seq(C)
  PROVE  LET envs == ParseEnvelopes(s, Len(s))
         IN  /\ \A i \in DOMAIN envs :
                  /\ envs[i].valid <=> \E to \in DOMAIN s : IsEnvelope(s, envs[i].start, to)
                  /\ envs[i].valid => IsEnvelope(s, envs[i].start, envs[i].end)
                  /\ i > 1 => envs[i].start > LastOf(s, envs[i - 1])
             /\ \A j \in DOMAIN s : StartsAt(s, j) => j \in Inside(s, envs)
<1> DEFINE envs == ParseEnvelopes(s, Len(s))
<1>1. Len(s) \in Nat /\ DOMAIN s = 1 .. Len(s)
  OBVIOUS
<1>2. Scans(s, Len(s), envs)
  BY <1>1, ParseEnvelopesIs
<1> HIDE DEF envs
<1>3. /\ envs \in Seq(Envelopes(s)) /\ Len(envs) \in Nat /\ DOMAIN envs = 1 .. Len(envs)
      /\ Len(envs) <= Len(s)
      /\ \A i \in 1 .. Len(envs) : ReadAt(s, envs[i]) /\ i <= envs[i].start
      /\ \A i \in 2 .. Len(envs) : envs[i - 1].next <= envs[i].start
      /\ \A j \in Starts(s) :
           j < From(envs) => \E i \in 1 .. Len(envs) : envs[i].start <= j /\ j < envs[i].next
      /\ Len(envs) < Len(s) => \A j \in Starts(s) : j < From(envs)
  BY <1>2 DEF Scans
<1>4. ASSUME NEW i \in 1 .. Len(envs)
      PROVE  /\ envs[i].start \in 1 .. Len(s) /\ StartsAt(s, envs[i].start)
             /\ envs[i] = ParseOne(s, envs[i].start)
             /\ envs[i].next \in envs[i].start + 1 .. Len(s) + 1
             /\ envs[i].next = LastOf(s, envs[i]) + 1
             /\ envs[i].end = End(s, envs[i].start)
  <2> DEFINE k == envs[i].start
  <2>1. k \in 1 .. Len(s) /\ StartsAt(s, k) /\ envs[i] = ParseOne(s, k)
    BY <1>3 DEF ReadAt, Starts
  <2> HIDE DEF k
  <2>2. /\ ParseOne(s, k).next \in k + 1 .. Len(s) + 1
        /\ ParseOne(s, k).next = LastOf(s, ParseOne(s, k)) + 1
    BY <2>1, OneRead
  <2>3. ParseOne(s, k).end = End(s, k)
    BY <2>1, ParseOneIs
  <2>4. QED
    BY <2>1, <2>2, <2>3 DEF k
<1>5. ASSUME NEW i \in 1 .. Len(envs)
      PROVE  /\ envs[i].valid <=> \E to \in DOMAIN s : IsEnvelope(s, envs[i].start, to)
             /\ envs[i].valid => IsEnvelope(s, envs[i].start, envs[i].end)
  <2> DEFINE k == envs[i].start
  <2>1. k \in 1 .. Len(s) /\ StartsAt(s, k) /\ envs[i] = ParseOne(s, k) /\ envs[i].end = End(s, k)
    BY <1>4
  <2> HIDE DEF k
  <2>2. ParseOne(s, k).valid => End(s, k) \in 1 .. Len(s) /\ IsEnvelope(s, k, End(s, k))
    BY <2>1, ValidIsEnvelope
  <2>3. \A to \in 1 .. Len(s) : IsEnvelope(s, k, to) => ParseOne(s, k).valid
    BY <2>1, EnvelopeIsValid
  <2>4. QED
    BY <1>1, <2>1, <2>2, <2>3 DEF k
<1>6. ASSUME NEW i \in 1 .. Len(envs), i > 1
      PROVE  envs[i].start > LastOf(s, envs[i - 1])
  <2>1. i \in 2 .. Len(envs) /\ i - 1 \in 1 .. Len(envs)
    BY <1>3, <1>6
  <2>2. envs[i - 1].next <= envs[i].start
    BY <1>3, <2>1
  <2>3. envs[i - 1].next = LastOf(s, envs[i - 1]) + 1 /\ envs[i - 1].next \in Int
    BY <1>1, <1>4, <2>1
  <2>4. envs[i].start \in Int
    BY <1>4
  <2>5. LastOf(s, envs[i - 1]) \in Int
    <3>1. envs[i - 1].end = End(s, envs[i - 1].start) /\ envs[i - 1].start \in 1 .. Len(s)
          /\ StartsAt(s, envs[i - 1].start)
      BY <1>4, <2>1
    <3>2. End(s, envs[i - 1].start) \in Int
      <4> DEFINE k == envs[i - 1].start
      <4> HIDE DEF k
      <4>1. /\ Stop(s, k) \in k + 3 .. Len(s) + 1
            /\ End(s, k) \in Stop(s, k) .. Len(s) + 1
        BY <3>1, EndIs DEF k
      <4>2. QED
        BY <1>1, <4>1 DEF k
    <3>3. QED
      BY <1>1, <3>1, <3>2 DEF LastOf
  <2>6. QED
    BY <2>2, <2>3, <2>4, <2>5
<1>7. ASSUME NEW j \in Starts(s)
      PROVE  j < From(envs)
  <2>1. CASE Len(envs) < Len(s)
    BY <1>3, <2>1
  <2>2. CASE ~(Len(envs) < Len(s))
    <3>1. j \in 1 .. Len(s)
      BY DEF Starts
    <3>2. Len(envs) <= Len(s) /\ Len(envs) \in Nat /\ Len(s) \in Nat
      BY <1>1, <1>3
    <3>3. Len(envs) = Len(s)
      BY <2>2, <3>2
    <3>4. Len(envs) = Len(s) /\ j \in 1 .. Len(s)
      BY <3>1, <3>3
    <3>5. Len(s) \in 1 .. Len(envs)
      BY <1>1, <3>4
    <3>6. Len(s) <= envs[Len(s)].start /\ envs[Len(s)].start \in 1 .. Len(s)
          /\ StartsAt(s, envs[Len(s)].start)
      BY <1>3, <1>4, <3>5
    <3>7. QED
      BY <1>1, <3>6 DEF StartsAt
  <2>3. QED
    BY <2>1, <2>2
<1>8. ASSUME NEW j \in DOMAIN s, StartsAt(s, j)
      PROVE  j \in Inside(s, envs)
  <2>1. j \in Starts(s) /\ j \in Nat
    BY <1>1, <1>8 DEF Starts
  <2>2. PICK i \in 1 .. Len(envs) : envs[i].start <= j /\ j < envs[i].next
    BY <1>3, <1>7, <2>1
  <2> DEFINE env == envs[i]
  <2>3. env \in ToSet(envs)
    BY <1>3 DEF ToSet
  <2>4. env.start \in Int /\ env.next = LastOf(s, env) + 1 /\ env.next \in Int
    BY <1>1, <1>4
  <2>5. LastOf(s, env) \in Int
    <3>1. env.end = End(s, env.start) /\ env.start \in 1 .. Len(s) /\ StartsAt(s, env.start)
      BY <1>4
    <3> DEFINE k == env.start
    <3> HIDE DEF k
    <3>2. /\ Stop(s, k) \in k + 3 .. Len(s) + 1
          /\ End(s, k) \in Stop(s, k) .. Len(s) + 1
      BY <3>1, EndIs DEF k
    <3>3. End(s, k) \in Int
      BY <1>1, <3>1, <3>2 DEF k
    <3>4. QED
      BY <1>1, <3>1, <3>3 DEF LastOf, k
  <2>6. j \in env.start .. LastOf(s, env)
    BY <2>1, <2>2, <2>4, <2>5
  <2>7. QED
    BY <2>3, <2>6 DEF Inside
<1>9. QED
  BY <1>1, <1>3, <1>5, <1>6, <1>8 DEF envs

-----------------------------------------------------------------------------
(* The inductive invariant.                                                   *)

\* Before the first request there is nothing to say of an answer.
LEMMA IInvStarts == Init => IInv
BY DEF Init, IInv

\* An answer depends on the output alone, and a request leaves that as it is.
LEMMA SameAnswer ==
  ASSUME NEW concat, NEW sats, NEW resolve, NEW deploy, UNCHANGED <<script, doc>>
  PROVE  LET answered == Answer(ParseEnvelopes(script, MaxEnvelopes), sats, concat, resolve, deploy)
         IN  answered' = answered
BY DEF Answer, View, Rendered, Document

\* A request keeps the output, and gets an answer of it.
LEMMA IInvStep == IInv /\ [Next]_vars => IInv'
<1> SUFFICES ASSUME IInv, [Next]_vars
             PROVE  IInv'
  OBVIOUS
<1>1. CASE UNCHANGED vars
  <2>1. UNCHANGED <<script, doc, satoshis, asked, answer>>
    BY <1>1 DEF vars
  <2>2. \E o \in Outputs : script' = o.script /\ doc' = o.doc /\ satoshis' = o.satoshis
    BY <2>1 DEF IInv
  <2>3. ASSUME answer # None
        PROVE  \E concat, resolve \in BOOLEAN, sats \in {None, satoshis}', deploy \in Deploys \cup {NotJson} :
                 /\ asked' = [concat |-> concat, resolve |-> resolve]
                 /\ answer' = Answer(ParseEnvelopes(script, MaxEnvelopes), sats, concat, resolve, deploy)'
    <3>1. PICK concat \in BOOLEAN, resolve \in BOOLEAN, sats \in {None, satoshis}, deploy \in Deploys \cup {NotJson} :
            /\ asked = [concat |-> concat, resolve |-> resolve]
            /\ answer = Answer(ParseEnvelopes(script, MaxEnvelopes), sats, concat, resolve, deploy)
      BY <2>3 DEF IInv
    <3>2. Answer(ParseEnvelopes(script, MaxEnvelopes), sats, concat, resolve, deploy)'
            = Answer(ParseEnvelopes(script, MaxEnvelopes), sats, concat, resolve, deploy)
      BY <2>1, SameAnswer
    <3>3. QED
      BY <2>1, <3>1, <3>2
  <2>4. QED
    BY <2>1, <2>2, <2>3 DEF IInv
<1>2. CASE Next
  <2>1. PICK concat \in BOOLEAN, resolve \in BOOLEAN :
          \E sats \in {Known(fast, tooLarge) : fast, tooLarge \in BOOLEAN},
             deploy \in IF resolve THEN Deploys ELSE {NotJson} :
            Request(concat, sats, resolve, deploy)
    BY <1>2 DEF Next
  <2>2. PICK sats \in {Known(fast, tooLarge) : fast, tooLarge \in BOOLEAN},
             deploy \in IF resolve THEN Deploys ELSE {NotJson} :
               Request(concat, sats, resolve, deploy)
    BY <2>1
  <2>3. sats \in {None, satoshis}
    BY DEF Known
  <2>4. deploy \in Deploys \cup {NotJson}
    OBVIOUS
  <2>5. script' = script /\ satoshis' = satoshis /\ doc' = doc
    BY <2>2 DEF Request
  <2>6. asked' = [concat |-> concat, resolve |-> resolve]
    BY <2>2 DEF Request
  <2>7. answer' = Answer(ParseEnvelopes(script, MaxEnvelopes), sats, concat, resolve, deploy)'
    <3>1. answer' = Answer(ParseEnvelopes(script, MaxEnvelopes), sats, concat, resolve, deploy)
      BY <2>2 DEF Request
    <3>2. Answer(ParseEnvelopes(script, MaxEnvelopes), sats, concat, resolve, deploy)'
            = Answer(ParseEnvelopes(script, MaxEnvelopes), sats, concat, resolve, deploy)
      BY <2>5, SameAnswer
    <3>3. QED
      BY <3>1, <3>2
  <2>8. \E o \in Outputs : script' = o.script /\ doc' = o.doc /\ satoshis' = o.satoshis
    BY <2>5 DEF IInv
  <2>9. QED
    BY <2>3, <2>4, <2>5, <2>6, <2>7, <2>8 DEF IInv
<1>3. QED
  BY <1>1, <1>2

\* The output is always one of those there may be, and the answer one that a
\* request for it gets. (ordinals.js:228-345)
THEOREM ParsingInductive == Spec => []IInv
<1>1. Init => IInv
  BY IInvStarts
<1>2. IInv /\ [Next]_vars => IInv'
  BY IInvStep
<1>3. QED
  BY <1>1, <1>2, PTL DEF Spec

\* The script of an output is a sequence, and so on.
LEMMA ScriptIs ==
  ASSUME IInv
  PROVE  script \in Seq(ToSet(script)) /\ Readable(doc)
BY OutputAssumption DEF IInv

-----------------------------------------------------------------------------
(* The scanner.                                                               *)

\* The scan finds the complete envelopes of a script and no others, whatever
\* the script. (envelope.js:43-56, 169-199)
THEOREM ScansEnvelopes == Spec => []ScannerReadsEnvelopes
<1>1. ASSUME IInv
      PROVE  ScannerReadsEnvelopes
  <2>1. script \in Seq(ToSet(script))
    BY <1>1, ScriptIs
  <2>2. QED
    BY <2>1, ScannerReads DEF ScannerReadsEnvelopes
<1>2. QED
  BY <1>1, ParsingInductive, PTL

-----------------------------------------------------------------------------
(* What an answer shows.                                                      *)

\* An envelope as it is shown.
LEMMA RenderedIs ==
  ASSUME NEW s, NEW env, NEW body
  PROVE  LET shown == Rendered(s, env, body, Here)
         IN  /\ shown # NoInscription
             /\ shown.valid = env.valid
             /\ shown.token = DetectToken(Document(body), ContentType(env), Here)
             /\ shown.contentHash = body
             /\ shown.contentType = ContentType(env)
<1> DEFINE shown == Rendered(s, env, body, Here)
<1>1. shown # NoInscription
  <2>1. DOMAIN shown # {}
    BY DEF Rendered
  <2>2. DOMAIN << >> = {}
    OBVIOUS
  <2>3. QED
    BY <2>1, <2>2, Zenon DEF NoInscription
<1>2. shown.valid = env.valid
  BY SMT DEF Rendered
<1>3. shown.token = DetectToken(Document(body), ContentType(env), Here)
  BY SMT DEF Rendered
<1>4. shown.contentHash = body
  BY SMT DEF Rendered
<1>5. shown.contentType = ContentType(env)
  BY SMT DEF Rendered
<1>6. QED
  BY <1>1, <1>2, <1>3, <1>4, <1>5

\* The view of the output as it was found, and what the answer makes of it.
Found(sats, concat) == View(script, ParseEnvelopes(script, MaxEnvelopes), sats, concat, Here)
Answers(concat, sats, resolve, deploy) ==
  LET raw == Raw(ParseEnvelopes(script, MaxEnvelopes), concat)
  IN  /\ asked.concat = concat /\ asked.resolve = resolve
      /\ answer.view = IF resolve THEN WithTokenDeploy(Found(sats, concat), deploy)
                                 ELSE Found(sats, concat)
      /\ answer.content = Content(raw, concat)
      /\ answer.field = SelectBytes(raw, "", concat)
      /\ answer.type = SelectBytes(raw, "01", concat)

\* Every answer comes of some request.
LEMMA Answered ==
  ASSUME IInv, answer # None
  PROVE  \E concat, resolve \in BOOLEAN, sats \in {None, satoshis}, deploy \in Deploys \cup {NotJson} :
           Answers(concat, sats, resolve, deploy)
<1> DEFINE envs == ParseEnvelopes(script, MaxEnvelopes)
<1>1. PICK concat \in BOOLEAN, resolve \in BOOLEAN, sats \in {None, satoshis},
           deploy \in Deploys \cup {NotJson} :
             /\ asked = [concat |-> concat, resolve |-> resolve]
             /\ answer = Answer(envs, sats, concat, resolve, deploy)
  BY DEF IInv
<1> DEFINE answered == Answer(envs, sats, concat, resolve, deploy)
           view == View(script, envs, sats, concat, Here)
           raw == Raw(envs, concat)
<1> HIDE DEF envs
<1>2. /\ answered.view = IF resolve THEN WithTokenDeploy(view, deploy) ELSE view
      /\ answered.content = Content(raw, concat)
      /\ answered.field = SelectBytes(raw, "", concat)
      /\ answered.type = SelectBytes(raw, "01", concat)
  <2>1. answered.view = IF resolve THEN WithTokenDeploy(view, deploy) ELSE view
    BY SMT DEF Answer
  <2>2. answered.content = Content(raw, concat)
    BY SMT DEF Answer
  <2>3. answered.field = SelectBytes(raw, "", concat)
    BY SMT DEF Answer
  <2>4. answered.type = SelectBytes(raw, "01", concat)
    BY SMT DEF Answer
  <2>5. QED
    BY <2>1, <2>2, <2>3, <2>4
<1>3. answer = answered
  BY <1>1
<1>4. asked.concat = concat /\ asked.resolve = resolve
  BY <1>1
<1> HIDE DEF answered, view, raw
<1>5. /\ answer.view = IF resolve THEN WithTokenDeploy(view, deploy) ELSE view
      /\ answer.content = Content(raw, concat)
      /\ answer.field = SelectBytes(raw, "", concat)
      /\ answer.type = SelectBytes(raw, "01", concat)
  BY <1>2, <1>3
<1>6. Answers(concat, sats, resolve, deploy)
  BY <1>4, <1>5 DEF Answers, Found, view, raw, envs
<1>7. QED
  BY <1>6

\* What of an output is shown: its first envelope, if it has any.
FirstOne == ParseOne(script, Min(Starts(script)))
Shows(view, envs, sats, concat) ==
  LET rest == SplitLock(Lock(script, envs))
  IN  /\ Starts(script) = {} => envs = << >> /\ view.inscription = NoInscription
      /\ Starts(script) # {} =>
           /\ envs # << >> /\ Len(envs) \in Nat \ {0} /\ DOMAIN envs = 1 .. Len(envs)
           /\ envs[1] = FirstOne
           /\ Min(Starts(script)) \in 1 .. Len(script) /\ StartsAt(script, Min(Starts(script)))
           /\ view.inscription = Rendered(script, FirstOne, ContentOf(FirstOne, concat), Here)
           /\ view.isOrdinal = IF sats = None THEN None ELSE sats = 1 /\ FirstOne.valid
      /\ view.address = ToAddress(rest.lock)
      /\ view.opReturn = rest.opReturn
      /\ view.ignored = Max({Len(envs) - 1, 0})

\* That is what is shown.
LEMMA FoundIs ==
  ASSUME NEW sats, NEW concat, IInv
  PROVE  Shows(Found(sats, concat), ParseEnvelopes(script, MaxEnvelopes), sats, concat)
<1> DEFINE view == Found(sats, concat)
           envs == ParseEnvelopes(script, MaxEnvelopes)
           rest == SplitLock(Lock(script, envs))
           k == Min(Starts(script))
           env == ParseOne(script, Min(Starts(script)))
<1>1. script \in Seq(ToSet(script))
  BY ScriptIs
<1>2. /\ Starts(script) = {} => envs = << >>
      /\ Starts(script) # {} =>
           /\ envs # << >> /\ Len(envs) \in Nat \ {0} /\ DOMAIN envs = 1 .. Len(envs)
           /\ k \in 1 .. Len(script) /\ StartsAt(script, k)
           /\ envs[1] = env
  BY <1>1, LimitAssumption, FirstEnvelope
<1> HIDE DEF envs, k, env
<1>3. /\ view.inscription =
           IF envs = << >> THEN NoInscription
           ELSE Rendered(script, envs[1], ContentOf(envs[1], concat), Here)
      /\ view.isOrdinal = IF envs = << >> THEN FALSE
                          ELSE IF sats = None THEN None ELSE sats = 1 /\ envs[1].valid
      /\ view.address = ToAddress(rest.lock)
      /\ view.opReturn = rest.opReturn
      /\ view.ignored = Max({Len(envs) - 1, 0})
  <2>1. view = View(script, envs, sats, concat, Here)
    BY DEF Found, envs
  <2>2. view.inscription = IF envs = << >> THEN NoInscription
                           ELSE Rendered(script, envs[1], ContentOf(envs[1], concat), Here)
    BY <2>1, SMT DEF View
  <2>3. view.isOrdinal = IF envs = << >> THEN FALSE
                         ELSE IF sats = None THEN None ELSE sats = 1 /\ envs[1].valid
    BY Zenon DEF View, Found, envs
  <2>4. view.address = ToAddress(rest.lock)
    BY <2>1, SMT DEF View
  <2>5. view.opReturn = rest.opReturn
    BY <2>1, SMT DEF View
  <2>6. view.ignored = Max({Len(envs) - 1, 0})
    BY <2>1, SMT DEF View
  <2>7. QED
    BY <2>2, <2>3, <2>4, <2>5, <2>6
<1> HIDE DEF view
<1>4. Starts(script) = {} => envs = << >> /\ view.inscription = NoInscription
  BY <1>2, <1>3
<1>5. ASSUME Starts(script) # {}
      PROVE  /\ view.inscription = Rendered(script, env, ContentOf(env, concat), Here)
             /\ view.isOrdinal = IF sats = None THEN None ELSE sats = 1 /\ env.valid
  <2>1. envs # << >> /\ envs[1] = env
    BY <1>2, <1>5
  <2>2. view.inscription = Rendered(script, env, ContentOf(env, concat), Here)
    BY <1>3, <2>1
  <2>3. view.isOrdinal = IF sats = None THEN None ELSE sats = 1 /\ env.valid
    BY <1>3, <2>1, Zenon
  <2>4. QED
    BY <2>2, <2>3
<1> HIDE DEF rest
<1>6. /\ view.address = ToAddress(rest.lock)
      /\ view.opReturn = rest.opReturn
      /\ view.ignored = Max({Len(envs) - 1, 0})
  BY <1>3
<1> USE DEF k, env
<1>7. QED
  BY <1>2, <1>4, <1>5, <1>6, Zenon DEF view, envs, rest, Shows, FirstOne

-----------------------------------------------------------------------------
(* The index and the API, of one output.                                      *)

\* A lock without OP_RETURN data is the whole of what is outside the envelopes.
LEMMA WholeLock ==
  ASSUME NEW C, NEW s \in Seq(C), ~SplitLock(s).opReturn
  PROVE  SplitLock(s).lock = s
<1> DEFINE places == {j \in 1 .. Len(s) + 1 : j = Len(s) + 1 \/ s[j].op = "RETURN"}
           first == Min(places)
<1>1. places \in SUBSET Nat /\ Len(s) + 1 \in places /\ Len(s) \in Nat
  OBVIOUS
<1>2. first \in 1 .. Len(s) + 1
  <2> HIDE DEF places
  <2>1. first \in places
    BY <1>1, MinIsLeast
  <2>2. QED
    BY <2>1 DEF places
<1>3. ReturnAt(s) = IF first \in 2 .. Len(s) /\ s[first - 1].op = "OP_0" THEN first - 1 ELSE first
  BY DEF ReturnAt
<1> HIDE DEF first
<1>4. ~(ReturnAt(s) <= Len(s))
  BY DEF SplitLock
<1>5. ReturnAt(s) = Len(s) + 1
  BY <1>1, <1>2, <1>3, <1>4
<1>6. ReturnAt(s) - 1 = Len(s)
  BY <1>1, <1>5
<1>7. SplitLock(s).lock = SubSeq(s, 1, Len(s))
  BY <1>6 DEF SplitLock
<1>8. QED
  BY <1>7

\* What of a script the rules take for the envelope, where it is terminated.
LEMMA LockOfIs ==
  ASSUME NEW C, NEW s \in Seq(C), Starts(s) # {},
         Ended(s, Min(Starts(s)))
  PROVE  LockOf(s) = Without(s, Min(Starts(s)) .. End(s, Min(Starts(s))))
<1> DEFINE starts == {j \in DOMAIN s : StartsAt(s, j)}
           k == Min(Starts(s))
           ends(j) == {i \in j .. Len(s) : s[i].op = "ENDIF"} \cup {Len(s)}
           E == ends(k)
<1>1. starts = Starts(s) /\ Starts(s) \in SUBSET Nat /\ Len(s) \in Nat
  BY DEF Starts
<1>2. k \in Starts(s)
  BY <1>1, MinIsLeast
<1>3. LockOf(s) = Without(s, k .. Min(E))
  BY <1>1 DEF LockOf
<1> HIDE DEF k
<1>4. k \in 1 .. Len(s) /\ StartsAt(s, k)
  BY <1>2 DEF Starts
<1>5. /\ Stop(s, k) \in k + 3 .. Len(s) + 1
      /\ End(s, k) \in Stop(s, k) .. Len(s) + 1
      /\ \A i \in k .. End(s, k) - 1 : s[i].op # "ENDIF"
  BY <1>4, EndIs
<1>6. End(s, k) <= Len(s) /\ s[End(s, k)].op = "ENDIF"
  BY DEF Ended, k
<1>7. End(s, k) \in Int /\ End(s, k) >= k /\ End(s, k) \in k .. Len(s)
  BY <1>1, <1>4, <1>5, <1>6
<1>8. E \in SUBSET Nat /\ End(s, k) \in E /\ \A i \in E : i >= End(s, k)
  <2>1. E \in SUBSET Nat
    BY <1>1, <1>4
  <2>2. End(s, k) \in E
    BY <1>6, <1>7
  <2>3. ASSUME NEW i \in E, ~(i >= End(s, k))
        PROVE  FALSE
    <3>1. i \in Nat /\ i < End(s, k)
      BY <1>7, <2>1, <2>3
    <3>2. i # Len(s)
      BY <1>1, <1>7, <3>1
    <3>3. i >= k /\ s[i].op = "ENDIF"
      BY <1>1, <1>4, <2>3, <3>2
    <3>4. i \in k .. End(s, k) - 1
      BY <1>4, <1>7, <3>1, <3>3
    <3>5. QED
      BY <1>5, <3>3, <3>4
  <2>4. QED
    BY <2>1, <2>2, <2>3
<1> HIDE DEF E
<1>9. Min(E) \in E /\ \A i \in E : Min(E) <= i
  BY <1>8, MinIsLeast
<1>10. Min(E) = End(s, k)
  <2>1. Min(E) \in Nat /\ Min(E) >= End(s, k)
    BY <1>8, <1>9
  <2>2. Min(E) <= End(s, k)
    BY <1>8, <1>9
  <2>3. QED
    BY <1>7, <2>1, <2>2
<1>11. QED
  BY <1>3, <1>10 DEF k

\* A valid envelope is terminated, and it ends where the OP_ENDIF is.
LEMMA ValidEnds ==
  ASSUME NEW C, NEW s \in Seq(C), NEW k \in 1 .. Len(s), StartsAt(s, k), ParseOne(s, k).valid
  PROVE  ParseOne(s, k).start = k /\ Ended(s, k) /\ LastOf(s, ParseOne(s, k)) = End(s, k)
<1> DEFINE env == ParseOne(s, k)
<1>1. env.start = k /\ env.end = End(s, k)
  BY ParseOneIs
<1>2. env.terminated = Ended(s, k)
  BY ParseOneIs
<1>3. env.valid = (Ended(s, k) /\ (HasBody(s, k) => env.parts # << >>))
  BY ParseOneIs
<1> HIDE DEF env
<1>4. Ended(s, k)
  BY <1>3 DEF env
<1>5. LastOf(s, env) = End(s, k)
  BY <1>1, <1>2, <1>4 DEF LastOf
<1>6. QED
  BY <1>1, <1>4, <1>5 DEF env

\* The lock the view shows beside one envelope is the one the rules read.
LEMMA LocksAgree ==
  ASSUME NEW C, NEW s \in Seq(C), Starts(s) # {},
         NEW envs, Len(envs) = 1, DOMAIN envs = {1}, envs[1] = ParseOne(s, Min(Starts(s))), envs[1].valid,
         ~SplitLock(Lock(s, envs)).opReturn
  PROVE  SplitLock(Lock(s, envs)).lock = LockOf(s)
<1> DEFINE k == Min(Starts(s))
<1>1. Starts(s) \in SUBSET Nat
  BY DEF Starts
<1>2. k \in 1 .. Len(s) /\ StartsAt(s, k)
  <2>1. k \in Starts(s)
    BY <1>1, MinIsLeast
  <2>2. QED
    BY <2>1 DEF Starts
<1>3. envs[1] = ParseOne(s, k)
  OBVIOUS
<1>4. Ended(s, k) => LockOf(s) = Without(s, k .. End(s, k))
  BY LockOfIs
<1> HIDE DEF k
<1>5. ParseOne(s, k).valid
  BY <1>3
<1>6. ParseOne(s, k).start = k /\ Ended(s, k) /\ LastOf(s, ParseOne(s, k)) = End(s, k)
  BY <1>2, <1>5, ValidEnds
<1>7. envs[1].start = k /\ LastOf(s, envs[1]) = End(s, k)
  BY <1>3, <1>6
<1>8. ToSet(envs) = {envs[1]}
  BY DEF ToSet
<1>9. Inside(s, envs) = k .. End(s, k)
  BY <1>7, <1>8 DEF Inside
<1>10. Lock(s, envs) = LockOf(s)
  BY <1>4, <1>6, <1>9 DEF Lock
<1>11. Lock(s, envs) \in Seq(C)
  <2> DEFINE rest == DOMAIN s \ Inside(s, envs)
  <2>1. rest \in SUBSET (1 .. Len(s))
    OBVIOUS
  <2>2. Lock(s, envs) = Chosen(s, rest)
    BY DEF Lock, Without
  <2> HIDE DEF rest
  <2>3. QED
    BY <2>1, <2>2, ChosenIs
<1>12. QED
  BY <1>10, <1>11, WholeLock

\* A valid envelope that has no body marker has no body.
LEMMA NoBodyIs ==
  ASSUME NEW C, NEW s \in Seq(C), NEW k \in 1 .. Len(s), StartsAt(s, k),
         ~ParseOne(s, k).bodyPresent
  PROVE  ParseOne(s, k).body = NoBytes
<1> DEFINE env == ParseOne(s, k)
<1>1. env.bodyPresent = HasBody(s, k)
  BY ParseOneIs
<1>2. env.parts = IF HasBody(s, k)
                  THEN [i \in 1 .. (End(s, k) - Stop(s, k)) - 1 |-> s[Stop(s, k) + i].bytes]
                  ELSE << >>
  BY ParseOneIs
<1>3. env.body = IF env.parts = << >> THEN NoBytes ELSE env.parts[1]
  BY ParseOneIs
<1> HIDE DEF env
<1>4. ~HasBody(s, k)
  BY <1>1 DEF env
<1>5. env.parts = << >>
  BY <1>2, <1>4
<1>6. QED
  BY <1>3, <1>5 DEF env

\* The index and the API see the same token, satoshis and, where only the lock
\* is left beside one envelope, owner in an output, whatever the output and
\* however many envelopes the API reads. (inscription.js:125-137,
\* rules.js:43-60; lib/inscription.js:63, 133-142)
THEOREM IndexAgreesWithView == Spec => []IndexSeesWhatViewShows
<1>1. ASSUME IInv
      PROVE  IndexSeesWhatViewShows
  <2> SUFFICES ASSUME answer # None, ~asked.concat, ~asked.resolve
               PROVE
    LET token == TokenAt(script, Here)
    IN  /\ token # NoToken <=> Inscription # NoInscription /\ Inscription.valid /\ Inscription.token # NoToken
        /\ token # NoToken =>
             /\ Inscription.token = token
             /\ Indexed.satoshis = 1 => answer.view.isOrdinal \in {TRUE, None}
             /\ InscriptionAt(script, Here).token = token
             /\ answer.view.ignored = 0 /\ ~answer.view.opReturn =>
                  answer.view.address = Indexed.owner
    BY DEF IndexSeesWhatViewShows
  <2> DEFINE s == script
             C == ToSet(script)
             envs == ParseEnvelopes(script, MaxEnvelopes)
             one == ParseEnvelopes(script, 1)
             k == Min(Starts(script))
             env == ParseOne(script, Min(Starts(script)))
             seen == DetectToken(Document(env.body), ContentType(env), Here)
             token == TokenAt(script, Here)
  <2>1. PICK concat \in BOOLEAN, resolve \in BOOLEAN, sats \in {None, satoshis},
             deploy \in Deploys \cup {NotJson} : Answers(concat, sats, resolve, deploy)
    BY <1>1, Answered
  <2>2. answer.view = Found(sats, FALSE)
    BY <2>1 DEF Answers
  <2>3. s \in Seq(C)
    BY <1>1, ScriptIs
  <2>4. /\ Starts(s) = {} => Inscription = NoInscription
        /\ Starts(s) # {} =>
             /\ Len(envs) \in Nat \ {0} /\ DOMAIN envs = 1 .. Len(envs)
             /\ envs[1] = env
             /\ k \in 1 .. Len(s) /\ StartsAt(s, k)
             /\ Inscription = Rendered(s, env, ContentOf(env, FALSE), Here)
             /\ answer.view.isOrdinal = IF sats = None THEN None ELSE sats = 1 /\ env.valid
        /\ answer.view.address = ToAddress(SplitLock(Lock(s, envs)).lock)
        /\ answer.view.opReturn = SplitLock(Lock(s, envs)).opReturn
        /\ answer.view.ignored = Max({Len(envs) - 1, 0})
    <3>1. Shows(Found(sats, FALSE), envs, sats, FALSE)
      BY <1>1, FoundIs
    <3>2. Shows(answer.view, envs, sats, FALSE)
      BY <2>2, <3>1
    <3> HIDE DEF envs
    <3>3. QED
      BY <3>2 DEF Shows, FirstOne, Inscription
  <2>5. /\ Starts(s) = {} => one = << >>
        /\ Starts(s) # {} => one # << >> /\ one[1] = env
    BY <2>3, FirstEnvelope
  <2>6. token = IF one = << >> \/ ~one[1].valid \/ ~one[1].bodyPresent THEN NoToken
                ELSE DetectToken(Document(one[1].body), ContentType(one[1]), Here)
    BY DEF TokenAt, TokenIn
  <2> HIDE DEF s, C, envs, one, k, env, token
  <2>7. CASE Starts(s) = {}
    <3>1. token = NoToken /\ Inscription = NoInscription
      BY <2>4, <2>5, <2>6, <2>7
    <3>2. QED
      BY <3>1 DEF token
  <2>8. CASE Starts(s) # {}
    <3>1. /\ Inscription # NoInscription
          /\ Inscription.valid = env.valid
          /\ Inscription.token = seen
      <4>1. Inscription = Rendered(s, env, env.body, Here)
        BY <2>4, <2>8 DEF ContentOf
      <4>2. QED
        BY <4>1, RenderedIs
    <3>2. token = IF ~env.valid \/ ~env.bodyPresent THEN NoToken ELSE seen
      BY <2>5, <2>6, <2>8
    <3>3. ~env.bodyPresent => seen = NoToken
      <4>1. SUFFICES ASSUME ~env.bodyPresent
                     PROVE  seen = NoToken
        OBVIOUS
      <4>2. env.body = NoBytes
        BY <2>3, <2>4, <2>8, <4>1, NoBodyIs DEF env, k, s
      <4>3. QED
        BY <4>2, NothingAssumption DEF DetectToken, Document
    <3> HIDE DEF seen
    <3>4. token # NoToken <=> Inscription # NoInscription /\ Inscription.valid /\ Inscription.token # NoToken
      BY <3>1, <3>2, <3>3
    <3>5. ASSUME token # NoToken
          PROVE  /\ Inscription.token = token
                 /\ Indexed.satoshis = 1 => answer.view.isOrdinal \in {TRUE, None}
                 /\ InscriptionAt(script, Here).token = token
                 /\ answer.view.ignored = 0 /\ ~answer.view.opReturn =>
                      answer.view.address = Indexed.owner
      <4>1. env.valid /\ token = seen
        BY <3>2, <3>5
      <4>2. Indexed.satoshis = satoshis /\ Indexed.owner = ToAddress(LockOf(script))
        <5>1. Indexed.satoshis = satoshis
          BY <3>5, SMT DEF Indexed, RulesRead, token
        <5>2. Indexed.owner = ToAddress(LockOf(script))
          BY <3>5, SMT DEF Indexed, RulesRead, token
        <5>3. QED
          BY <5>1, <5>2
      <4>3. Indexed.satoshis = 1 => answer.view.isOrdinal \in {TRUE, None}
        BY <2>4, <2>8, <4>1, <4>2
      <4>4. InscriptionAt(script, Here).token = token
        <5>1. InscriptionAt(script, Here) = InscriptionIn(script, one, Here)
          BY DEF InscriptionAt, one
        <5>2. InscriptionIn(script, one, Here).token
                = DetectToken(Document(one[1].body), ContentType(one[1]), Here)
          BY <2>5, <2>8, <4>1, SMT DEF InscriptionIn
        <5>3. QED
          BY <2>5, <2>8, <4>1, <5>1, <5>2 DEF seen
      <4>5. ASSUME answer.view.ignored = 0, ~answer.view.opReturn
            PROVE  answer.view.address = Indexed.owner
        <5>1. Len(envs) \in Nat \ {0} /\ DOMAIN envs = 1 .. Len(envs) /\ envs[1] = env
          BY <2>4, <2>8
        <5>2. Len(envs) = 1
          <6> DEFINE n == Len(envs) - 1
          <6>1. n \in Int /\ n >= 0
            BY <5>1
          <6>2. Max({n, 0}) = 0
            BY <2>4, <4>5
          <6> HIDE DEF n
          <6>3. Max({n, 0}) = n
            BY <6>1, MaxOfTwo
          <6>4. QED
            BY <5>1, <6>2, <6>3 DEF n
        <5>3. DOMAIN envs = {1}
          BY <5>1, <5>2
        <5>4. ~SplitLock(Lock(s, envs)).opReturn
          BY <2>4, <4>5
        <5>5. SplitLock(Lock(s, envs)).lock = LockOf(s)
          BY <2>3, <2>8, <4>1, <5>1, <5>2, <5>3, <5>4, LocksAgree DEF env, s
        <5>6. QED
          BY <2>4, <4>2, <5>5 DEF s
      <4>6. QED
        BY <4>1, <3>1, <4>3, <4>4, <4>5
    <3>6. QED
      BY <3>4, <3>5 DEF token
  <2>9. QED
    BY <2>7, <2>8
<1>2. QED
  BY <1>1, ParsingInductive, PTL

-----------------------------------------------------------------------------
(* What a borrowed precision changes.                                         *)

\* The token a deploy's outpoint holds, and the tokens that look for one.
There(token, deploy) == IF deploy = NotJson THEN NoToken ELSE Classify(deploy, token.id)
Borrows(token) ==
  token # NoToken /\ token.id \notin {NoKey, Here} /\ token.decimals = None

\* Of the view, the token alone.
LEMMA BorrowedIs ==
  ASSUME IInv, NEW sats, NEW concat, NEW deploy, Starts(script) # {}
  PROVE  LET found == Found(sats, concat).inscription
             shown == WithTokenDeploy(Found(sats, concat), deploy).inscription
         IN  /\ shown # NoInscription
             /\ shown.contentHash = found.contentHash
             /\ shown.contentType = found.contentType
             /\ shown.token = IF Borrows(found.token)
                              THEN ApplyDeploy(found.token, There(found.token, deploy))
                              ELSE found.token
<1> DEFINE view == Found(sats, concat)
           found == view.inscription
           token == found.token
           new == ApplyDeploy(token, There(token, deploy))
           shown == WithTokenDeploy(Found(sats, concat), deploy).inscription
<1>1. /\ found = Rendered(script, FirstOne, ContentOf(FirstOne, concat), Here)
      /\ found # NoInscription
  <2>1. Shows(view, ParseEnvelopes(script, MaxEnvelopes), sats, concat)
    BY FoundIs
  <2>2. found = Rendered(script, FirstOne, ContentOf(FirstOne, concat), Here)
    BY <2>1 DEF Shows
  <2>3. QED
    BY <2>2, RenderedIs
<1>2. "inscription" \in DOMAIN view
  BY SMT DEF Found, View
<1>3. {"token", "contentHash", "contentType"} \subseteq DOMAIN found
  <2> HIDE DEF found
  <2>1. QED
    BY <1>1, SMT DEF Rendered
<1>4. WithTokenDeploy(view, deploy) = IF Borrows(token) THEN [view EXCEPT !.inscription.token = new]
                                      ELSE view
  <2> HIDE DEF view
  <2>1. QED
    BY <1>1 DEF WithTokenDeploy, Borrows, There
<1>5. CASE Borrows(token)
  <2> HIDE DEF view, new
  <2>1. shown = [found EXCEPT !.token = new]
    BY <1>2, <1>4, <1>5 DEF view
  <2> HIDE DEF found, shown
  <2>2. DOMAIN shown = DOMAIN found
    BY <2>1
  <2>3. shown # NoInscription
    <3>1. DOMAIN NoInscription = {}
      BY DEF NoInscription
    <3>2. QED
      BY <1>3, <2>2, <3>1
  <2>4. shown.token = new /\ shown.contentHash = found.contentHash /\ shown.contentType = found.contentType
    BY <1>3, <2>1
  <2>5. QED
    BY <1>5, <2>3, <2>4 DEF new, shown, found, view
<1>6. CASE ~Borrows(token)
  BY <1>1, <1>4, <1>6
<1>7. QED
  BY <1>5, <1>6

-----------------------------------------------------------------------------
(* The content.                                                               *)

\* The bytes served are those the hash is of, whatever the output, split bodies
\* and missing ones included. (ordinals.js:395-414, select.js:40-47,
\* lib/inscription.js:36, 75)
THEOREM ContentIsHashed == Spec => []ContentIsWhatViewHashes
<1>1. ASSUME IInv
      PROVE  ContentIsWhatViewHashes
  <2> SUFFICES ASSUME answer # None
               PROVE
    LET hashed == IF Inscription = NoInscription THEN NoBytes ELSE Inscription.contentHash
        type == IF Inscription = NoInscription THEN NoBytes ELSE Inscription.contentType
    IN  answer.content = hashed /\ answer.field = hashed /\ answer.type = type
    BY DEF ContentIsWhatViewHashes
  <2>1. PICK concat \in BOOLEAN, resolve \in BOOLEAN, sats \in {None, satoshis},
             deploy \in Deploys \cup {NotJson} : Answers(concat, sats, resolve, deploy)
    BY <1>1, Answered
  <2> DEFINE envs == ParseEnvelopes(script, MaxEnvelopes)
             raw == Raw(envs, concat)
             found == Found(sats, concat)
             lent == WithTokenDeploy(found, deploy)
             env == FirstOne
  <2>2. Shows(found, envs, sats, concat)
    BY <1>1, FoundIs
  <2>3. /\ answer.view = IF resolve THEN lent ELSE found
        /\ answer.content = Content(raw, concat)
        /\ answer.field = SelectBytes(raw, "", concat)
        /\ answer.type = SelectBytes(raw, "01", concat)
    BY <2>1 DEF Answers
  <2>4. /\ raw.body = IF envs = << >> THEN NoBytes ELSE ContentOf(envs[1], concat)
        /\ raw.parts = IF envs = << >> THEN << >> ELSE envs[1].parts
        /\ raw.fields = IF envs = << >> THEN << >> ELSE envs[1].fields
    <3> HIDE DEF envs
    <3>1. raw.body = IF envs = << >> THEN NoBytes ELSE ContentOf(envs[1], concat)
      BY SMT DEF Raw
    <3>2. raw.parts = IF envs = << >> THEN << >> ELSE envs[1].parts
      BY SMT DEF Raw
    <3>3. raw.fields = IF envs = << >> THEN << >> ELSE envs[1].fields
      BY SMT DEF Raw
    <3>4. QED
      BY <3>1, <3>2, <3>3
  <2>5. CASE Starts(script) = {}
    <3>1. envs = << >> /\ found.inscription = NoInscription
      BY <2>2, <2>5 DEF Shows
    <3>2. lent = found
      <4> HIDE DEF found
      <4>1. QED
        BY <3>1 DEF WithTokenDeploy
    <3> HIDE DEF envs, raw, found, lent
    <3>3. Inscription = NoInscription
      BY <2>3, <3>1, <3>2 DEF Inscription
    <3>4. raw.body = NoBytes /\ raw.parts = << >> /\ raw.fields = << >>
      BY <2>4, <3>1
    <3>5. Content(raw, concat) = NoBytes
      BY <3>4 DEF Content
    <3>6. SelectBytes(raw, "", concat) = NoBytes
      BY <3>4 DEF SelectBytes
    <3>7. SelectBytes(raw, "01", concat) = NoBytes
      BY <3>4 DEF SelectBytes
    <3>8. QED
      BY <2>3, <3>3, <3>5, <3>6, <3>7
  <2>6. CASE Starts(script) # {}
    <3> DEFINE hashed == ContentOf(env, concat)
    <3>1. envs # << >> /\ envs[1] = env
      BY <2>2, <2>6 DEF Shows
    <3>2. found.inscription = Rendered(script, env, hashed, Here)
      BY <2>2, <2>6 DEF Shows
    <3>3. /\ found.inscription # NoInscription
          /\ found.inscription.contentHash = hashed
          /\ found.inscription.contentType = ContentType(env)
      BY <3>2, RenderedIs
    <3>4. /\ lent.inscription # NoInscription
          /\ lent.inscription.contentHash = hashed
          /\ lent.inscription.contentType = ContentType(env)
      BY <1>1, <2>6, <3>3, BorrowedIs
    <3>5. /\ raw.body = hashed /\ raw.parts = env.parts /\ raw.fields = env.fields
      BY <2>4, <3>1
    <3>6. env.concat = IF env.parts = << >> THEN NoBytes ELSE Joined(env.parts)
      <4>1. script \in Seq(ToSet(script))
        BY <1>1, ScriptIs
      <4>2. Min(Starts(script)) \in 1 .. Len(script) /\ StartsAt(script, Min(Starts(script)))
        BY <2>2, <2>6 DEF Shows
      <4>3. QED
        BY <4>1, <4>2, ParseOneIs DEF FirstOne
    <3> HIDE DEF envs, raw, found, lent, env
    <3>7. /\ Inscription # NoInscription
          /\ Inscription.contentHash = hashed
          /\ Inscription.contentType = ContentType(env)
      BY <2>3, <3>3, <3>4 DEF Inscription
    <3>8. concat /\ Len(env.parts) > 1 => hashed = Joined(env.parts)
      <4>1. Len(env.parts) > 1 => env.parts # << >>
        OBVIOUS
      <4>2. QED
        BY <3>6, <4>1 DEF ContentOf
    <3> HIDE DEF hashed
    <3>9. Content(raw, concat) = hashed
      BY <3>5, <3>8 DEF Content
    <3>10. SelectBytes(raw, "", concat) = hashed
      BY <3>5, <3>8 DEF SelectBytes
    <3>11. SelectBytes(raw, "01", concat) = ContentType(env)
      BY <3>5 DEF SelectBytes, ContentType
    <3>12. QED
      BY <2>3, <3>7, <3>9, <3>10, <3>11
  <2>7. QED
    BY <2>5, <2>6
<1>2. QED
  BY <1>1, ParsingInductive, PTL

-----------------------------------------------------------------------------
(* Numbers.                                                                   *)

\* What digits stand for is a natural number.
LEMMA ValIs ==
  ASSUME NEW digits \in Seq(0 .. 9)
  PROVE  Val(digits) \in Nat
<1> DEFINE N == Len(digits)
           next == [n \in 1 .. N |-> [x \in Nat |-> 10 * x + digits[n]]]
           Reads(val) == val = [n \in 0 .. N |-> IF n = 0 THEN 0 ELSE 10 * val[n - 1] + digits[n]]
           val == CHOOSE v : Reads(v)
<1>1. N \in Nat /\ \A n \in 1 .. N : digits[n] \in Nat
  OBVIOUS
<1>2. next \in [1 .. N -> [Nat -> Nat]]
  <2>1. ASSUME NEW n \in 1 .. N, NEW x \in Nat
        PROVE  10 * x + digits[n] \in Nat
    BY <1>1
  <2>2. QED
    BY <2>1
<1>3. PICK g \in [0 .. N -> Nat] : Iteration(g, N, 0, next)
  <2> HIDE DEF N, next
  <2>1. QED
    BY <1>1, <1>2, Iterates
<1>4. Reads(g)
  <2>1. ASSUME NEW n \in 1 .. N
        PROVE  g[n] = 10 * g[n - 1] + digits[n] /\ n # 0
    <3>1. n - 1 \in 0 .. N /\ n # 0
      BY <1>1, <2>1
    <3>2. g[n - 1] \in Nat
      BY <3>1
    <3>3. g[n] = next[n][g[n - 1]]
      <4> HIDE DEF N, next
      <4>1. n \in 0 .. N /\ n # 0
        BY <1>1, <2>1
      <4>2. QED
        BY <1>3, <4>1 DEF Iteration
    <3>4. QED
      BY <3>1, <3>2, <3>3
  <2>2. g[0] = 0
    BY <1>3 DEF Iteration
  <2>3. \A n \in 0 .. N : g[n] = IF n = 0 THEN 0 ELSE 10 * g[n - 1] + digits[n]
    BY <1>1, <2>1, <2>2
  <2> HIDE DEF N, next
  <2>4. QED
    BY <2>3
<1>5. Reads(val)
  BY <1>4
<1>6. Val(digits) = val[N]
  BY DEF Val
<1> DEFINE P == {n \in 0 .. N : val[n] \in Nat}
<1> HIDE DEF val
<1>7. 0 \in P
  BY <1>1, <1>5
<1>8. ASSUME NEW n \in 1 .. N, n - 1 \in P
      PROVE  n \in P
  BY <1>1, <1>5, <1>8
<1> HIDE DEF P
<1>9. \A n \in 0 .. N : n \in P
  BY <1>1, <1>7, <1>8, StepByStep
<1>10. N \in P
  BY <1>1, <1>9
<1>11. QED
  BY <1>6, <1>10 DEF P

-----------------------------------------------------------------------------
(* What is read of a document.                                                *)

\* The amount and the precision a document states.
AmountOf(json) == IF Valued(Standard(json), json.op) THEN Uint(json.amt) ELSE None
PrecisionOf(json) ==
  IF Standard(json) # "unknown" /\ (IsDeploy(json) \/ json.dec # NoField)
  THEN Decimals(json.dec) ELSE None

\* What classifyToken makes of a document that names a token.
LEMMA ClassifyIs ==
  ASSUME NEW json, NEW outpoint, Classify(json, outpoint) # NoToken
  PROVE  LET token == Classify(json, outpoint)
             standard == Standard(json)
         IN  /\ token.standard = standard
             /\ standard # "unknown" => token.op = json.op
             /\ token.wellFormed = (standard # "unknown" /\ ~Faults(json, standard))
             /\ token.tick = IF standard = "BSV-20" /\ Present(json.tick)
                             THEN Lower[json.tick] ELSE NoKey
             /\ token.id = IdOf(json, standard, outpoint)
             /\ token.amount = AmountOf(json)
             /\ token.max = IF json.op = "deploy" THEN Uint(json.max) ELSE None
             /\ token.decimals = PrecisionOf(json)
             /\ token.shown = Shown(AmountOf(json), PrecisionOf(json))
<1> DEFINE token == Classify(json, outpoint)
           standard == Standard(json)
<1>1. json.p = "bsv-20"
  BY DEF Classify
<1>2. token.standard = standard /\ (standard # "unknown" => token.op = json.op)
  <2>1. token.standard = standard
    BY <1>1, SMT DEF Classify
  <2>2. ASSUME standard # "unknown"
        PROVE  token.op = json.op
    <3>1. json.op \in BSV20Ops \cup BSV21Ops
      BY <2>2 DEF Standard, BSV20Ops
    <3>2. Present(json.op)
      BY <3>1, NothingAssumption DEF Present
    <3>3. token.op = IF Present(json.op) THEN json.op ELSE None
      BY <1>1, SMT DEF Classify
    <3>4. QED
      BY <3>2, <3>3
  <2>3. QED
    BY <2>1, <2>2
<1>3. token.wellFormed = (standard # "unknown" /\ ~Faults(json, standard))
  BY <1>1, Zenon DEF Classify
<1>4. token.tick = IF standard = "BSV-20" /\ Present(json.tick) THEN Lower[json.tick] ELSE NoKey
  BY <1>1, SMT DEF Classify
<1>5. token.id = IdOf(json, standard, outpoint)
  BY <1>1, SMT DEF Classify
<1>6. token.amount = AmountOf(json)
  BY <1>1, SMT DEF Classify, AmountOf
<1>7. token.max = IF json.op = "deploy" THEN Uint(json.max) ELSE None
  BY <1>1, SMT DEF Classify
<1>8. token.decimals = PrecisionOf(json)
  BY <1>1, SMT DEF Classify, PrecisionOf
<1>9. token.shown = Shown(AmountOf(json), PrecisionOf(json))
  BY <1>1, SMT DEF Classify, AmountOf, PrecisionOf
<1>10. QED
  BY <1>2, <1>3, <1>4, <1>5, <1>6, <1>7, <1>8, <1>9

\* A number that parses is digits, in range.
LEMMA UintIs ==
  ASSUME NEW field, Digits(field) => field \in Seq(0 .. 9)
  PROVE  /\ Uint(field) # None <=> IsUint(field)
         /\ Uint(field) # None => /\ Uint(field) = field /\ field \in Seq(0 .. 9)
                                  /\ Val(field) \in 0 .. MaxUint
<1>1. CASE IsUint(field)
  <2>1. field \in Seq(0 .. 9) /\ Val(field) <= MaxUint
    BY <1>1 DEF IsUint
  <2>2. Val(field) \in Nat
    BY <2>1, ValIs
  <2>3. Val(field) \in 0 .. MaxUint
    <3>1. MaxUint \in Nat
      BY NothingAssumption
    <3>2. QED
      BY <2>1, <2>2, <3>1
  <2>4. field # None
    BY <2>1, NothingAssumption
  <2>5. Uint(field) = field
    BY <1>1 DEF Uint
  <2>6. QED
    BY <1>1, <2>1, <2>3, <2>4, <2>5
<1>2. CASE ~IsUint(field)
  BY <1>2 DEF Uint
<1>3. QED
  BY <1>1, <1>2

\* What the rules read of it.
LEMMA ReadIs ==
  ASSUME NEW token, NEW sats, NEW owner, token # NoToken
  PROVE  LET read == RulesRead(token, sats, owner)
             number(digits) == IF digits = None THEN None ELSE Val(digits)
         IN  /\ read.standard = token.standard /\ read.op = token.op
             /\ read.wellFormed = token.wellFormed
             /\ read.tick = token.tick /\ read.id = token.id
             /\ read.amount = number(token.amount)
             /\ read.max = number(token.max)
<1> DEFINE read == RulesRead(token, sats, owner)
           number(digits) == IF digits = None THEN None ELSE Val(digits)
<1>1. read.standard = token.standard
  BY SMT DEF RulesRead
<1>2. read.op = token.op
  BY SMT DEF RulesRead
<1>3. read.wellFormed = token.wellFormed
  BY SMT DEF RulesRead
<1>4. read.tick = token.tick
  BY SMT DEF RulesRead
<1>5. read.id = token.id
  BY SMT DEF RulesRead
<1>6. read.amount = number(token.amount)
  BY SMT DEF RulesRead
<1>7. read.max = number(token.max)
  BY SMT DEF RulesRead
<1>8. QED
  BY <1>1, <1>2, <1>3, <1>4, <1>5, <1>6, <1>7

\* The token of an output is what its document says.
LEMMA TokenIsRead ==
  ASSUME TokenAt(script, Here) # NoToken
  PROVE  TokenAt(script, Here) = Classify(doc, Here) /\ doc # NotJson
BY DEF TokenAt, TokenIn, DetectToken, Document

\* What is well formed is usable: as the property says, of any document.
LEMMA UsableIs ==
  ASSUME NEW json, Readable(json), NEW sats, NEW owner,
         Classify(json, Here) # NoToken, Classify(json, Here).wellFormed
  PROVE  LET read == RulesRead(Classify(json, Here), sats, owner)
             amount == Big(read.amount)
             key == KeyOf(read, Here)
         IN  /\ key # NoKey
             /\ read.standard = "BSV-20" => read.id \in {NoKey, Here}
             /\ read.standard = "BSV-21" => key = Here \/ key \in {OutpointAt[i] : i \in DOMAIN OutpointAt}
             /\ IsAuth(read) \/ read.op = "deploy" <=> read.amount = None
             /\ amount \in 0 .. MaxUint
             /\ read.op = "deploy" => read.max \in 0 .. MaxUint
<1> DEFINE token == Classify(json, Here)
           read == RulesRead(token, sats, owner)
           standard == Standard(json)
           key == KeyOf(read, Here)
           number(digits) == IF digits = None THEN None ELSE Val(digits)
<1>1. /\ token.standard = standard
      /\ standard # "unknown" => token.op = json.op
      /\ token.wellFormed = (standard # "unknown" /\ ~Faults(json, standard))
      /\ token.tick = IF standard = "BSV-20" /\ Present(json.tick) THEN Lower[json.tick] ELSE NoKey
      /\ token.id = IdOf(json, standard, Here)
      /\ token.amount = AmountOf(json)
      /\ token.max = IF json.op = "deploy" THEN Uint(json.max) ELSE None
  BY ClassifyIs
<1>2. token # NoToken /\ token.wellFormed
  OBVIOUS
<1> HIDE DEF token
<1>3. /\ read.standard = token.standard /\ read.op = token.op
      /\ read.tick = token.tick /\ read.id = token.id
      /\ read.amount = number(token.amount)
      /\ read.max = number(token.max)
  BY <1>2, ReadIs
<1> HIDE DEF read
<1>4. standard # "unknown" /\ ~Faults(json, standard)
  BY <1>1, <1>2
<1>5. /\ read.standard = standard /\ read.op = json.op
      /\ read.tick = IF standard = "BSV-20" /\ Present(json.tick) THEN Lower[json.tick] ELSE NoKey
      /\ read.id = IdOf(json, standard, Here)
      /\ read.amount = number(AmountOf(json))
      /\ read.max = number(IF json.op = "deploy" THEN Uint(json.max) ELSE None)
  BY <1>1, <1>3, <1>4
<1>6. standard \in {"BSV-20", "BSV-21"}
  BY <1>4 DEF Standard
<1>7. IsAuth(json) \/ json.op = "deploy" <=> ~Valued(standard, json.op)
  <2>1. standard = "BSV-20" => ~IsAuth(json)
    BY DEF Standard, IsAuth, BSV20Ops
  <2>2. json.op = "deploy" => standard = "BSV-20"
    BY DEF Standard
  <2>3. QED
    BY <1>6, <2>1, <2>2 DEF Valued, IsAuth
<1>8. /\ Uint(json.amt) # None <=> IsUint(json.amt)
      /\ Uint(json.amt) # None => Uint(json.amt) = json.amt /\ Val(json.amt) \in 0 .. MaxUint
  <2> DEFINE field == json.amt
  <2>1. Digits(field) => field \in Seq(0 .. 9)
    BY DEF Readable
  <2> HIDE DEF field
  <2>2. /\ Uint(field) # None <=> IsUint(field)
        /\ Uint(field) # None => Uint(field) = field /\ Val(field) \in 0 .. MaxUint
    BY <2>1, UintIs
  <2>3. QED
    BY <2>2 DEF field
<1>9. /\ Uint(json.max) # None <=> IsUint(json.max)
      /\ Uint(json.max) # None => Uint(json.max) = json.max /\ Val(json.max) \in 0 .. MaxUint
  <2> DEFINE field == json.max
  <2>1. Digits(field) => field \in Seq(0 .. 9)
    BY DEF Readable
  <2> HIDE DEF field
  <2>2. /\ Uint(field) # None <=> IsUint(field)
        /\ Uint(field) # None => Uint(field) = field /\ Val(field) \in 0 .. MaxUint
    BY <2>1, UintIs
  <2>3. QED
    BY <2>2 DEF field
<1>10. IsAuth(read) \/ read.op = "deploy" <=> read.amount = None
  <2>1. IsAuth(read) = IsAuth(json)
    BY <1>5 DEF IsAuth
  <2>2. Valued(standard, json.op) => read.amount # None
    <3>1. ASSUME Valued(standard, json.op)
          PROVE  read.amount # None
      <4>1. IsUint(json.amt)
        BY <1>4, <3>1 DEF Faults
      <4>2. read.amount = Val(json.amt) /\ Val(json.amt) \in Nat
        BY <1>5, <1>8, <3>1, <4>1 DEF AmountOf
      <4>3. QED
        BY <4>2, NothingAssumption
    <3>2. QED
      BY <3>1
  <2>3. ~Valued(standard, json.op) => read.amount = None
    BY <1>5 DEF AmountOf
  <2>4. QED
    BY <1>5, <1>7, <2>1, <2>2, <2>3
<1>11. Big(read.amount) \in 0 .. MaxUint
  <2>1. CASE AmountOf(json) = None
    <3>1. Big(read.amount) = 0
      BY <1>5, <2>1 DEF Big
    <3>2. MaxUint \in Nat
      BY NothingAssumption
    <3>3. QED
      BY <3>1, <3>2
  <2>2. CASE AmountOf(json) # None
    <3>1. read.amount = Val(json.amt) /\ Val(json.amt) \in 0 .. MaxUint
      BY <1>5, <1>8, <2>2 DEF AmountOf
    <3>2. read.amount # None
      <4>1. MaxUint \in Nat /\ None \notin Nat
        BY NothingAssumption
      <4>2. read.amount \in Nat
        BY <3>1, <4>1
      <4>3. QED
        BY <4>1, <4>2
    <3>3. QED
      BY <3>1, <3>2 DEF Big
  <2>3. QED
    BY <2>1, <2>2
<1>12. read.op = "deploy" => read.max \in 0 .. MaxUint
  <2>1. SUFFICES ASSUME read.op = "deploy"
                 PROVE  read.max \in 0 .. MaxUint
    OBVIOUS
  <2>2. json.op = "deploy" /\ IsUint(json.max)
    BY <1>5, <1>4, <2>1 DEF Faults
  <2>3. QED
    BY <1>5, <1>9, <2>2
<1>13. standard = "BSV-20" => key # NoKey /\ read.id \in {NoKey, Here}
  <2>1. SUFFICES ASSUME standard = "BSV-20"
                 PROVE  key # NoKey /\ read.id \in {NoKey, Here}
    OBVIOUS
  <2>2. Present(json.tick)
    BY <1>4, <2>1 DEF Faults
  <2>3. json.tick \in DOMAIN Lower
    BY <2>2 DEF Readable
  <2>4. key = Lower[json.tick]
    BY <1>5, <2>1, <2>2 DEF KeyOf
  <2>5. key # NoKey
    BY <2>3, <2>4, NothingAssumption
  <2>6. read.id \in {NoKey, Here}
    BY <1>5, <2>1 DEF IdOf
  <2>7. QED
    BY <2>5, <2>6
<1>14. standard = "BSV-21" => /\ key # NoKey
                              /\ key = Here \/ key \in {OutpointAt[i] : i \in DOMAIN OutpointAt}
  <2>1. SUFFICES ASSUME standard = "BSV-21"
                 PROVE  /\ key # NoKey
                        /\ key = Here \/ key \in {OutpointAt[i] : i \in DOMAIN OutpointAt}
    OBVIOUS
  <2>2. IsDeploy(read) = IsDeploy(json)
    BY <1>5 DEF IsDeploy
  <2>3. CASE IsDeploy(json)
    <3>1. key = Here
      BY <1>5, <2>1, <2>2, <2>3 DEF KeyOf
    <3>2. QED
      BY <3>1, NothingAssumption
  <2>4. CASE ~IsDeploy(json)
    <3>1. json.id \in DOMAIN OutpointAt
      BY <1>4, <2>1, <2>4 DEF Faults
    <3>2. Present(json.id)
      BY <3>1, NothingAssumption DEF Present
    <3>3. key = read.id
      BY <1>5, <2>1, <2>2, <2>4 DEF KeyOf
    <3>4. key = OutpointAt[json.id]
      BY <1>5, <2>1, <2>4, <3>1, <3>2, <3>3 DEF IdOf
    <3>5. QED
      BY <3>1, <3>4, NothingAssumption
  <2>5. QED
    BY <2>3, <2>4
<1>15. /\ key # NoKey
       /\ read.standard = "BSV-20" => read.id \in {NoKey, Here}
       /\ read.standard = "BSV-21" => key = Here \/ key \in {OutpointAt[i] : i \in DOMAIN OutpointAt}
  BY <1>5, <1>6, <1>13, <1>14
<1>16. QED
  BY <1>10, <1>11, <1>12, <1>15 DEF read, token

\* Whatever the document, one called well formed holds all the rules then work
\* with. (token.js:135-169, rules.js:115-228)
THEOREM WellFormedDocuments == Spec => []WellFormedIsUsable
<1>1. ASSUME IInv
      PROVE  WellFormedIsUsable
  <2> DEFINE token == TokenAt(script, Here)
             owner == ToAddress(LockOf(script))
             read == RulesRead(token, satoshis, owner)
  <2>1. SUFFICES ASSUME read # NoToken, read.wellFormed
                 PROVE
    LET amount == Big(read.amount)
        key == KeyOf(read, Here)
    IN  /\ key # NoKey
        /\ read.standard = "BSV-20" => read.id \in {NoKey, Here}
        /\ read.standard = "BSV-21" => key = Here \/ key \in {OutpointAt[i] : i \in DOMAIN OutpointAt}
        /\ IsAuth(read) \/ read.op = "deploy" <=> read.amount = None
        /\ amount \in 0 .. MaxUint
        /\ read.op = "deploy" => read.max \in 0 .. MaxUint
    BY DEF WellFormedIsUsable, Indexed
  <2>2. token # NoToken
    BY <2>1 DEF RulesRead
  <2>3. token = Classify(doc, Here)
    BY <2>2, TokenIsRead
  <2>4. Readable(doc)
    BY <1>1, ScriptIs
  <2> HIDE DEF token, owner
  <2>5. read.wellFormed = token.wellFormed
    BY <2>2, ReadIs
  <2> DEFINE json == doc
  <2>6. Readable(json) /\ Classify(json, Here) # NoToken /\ Classify(json, Here).wellFormed
    BY <2>1, <2>2, <2>3, <2>4, <2>5
  <2> HIDE DEF json
  <2>7. token = Classify(json, Here)
    BY <2>3 DEF json
  <2>8. LET mine == RulesRead(Classify(json, Here), satoshis, owner)
            amount == Big(mine.amount)
            key == KeyOf(mine, Here)
        IN  /\ key # NoKey
            /\ mine.standard = "BSV-20" => mine.id \in {NoKey, Here}
            /\ mine.standard = "BSV-21" => key = Here \/ key \in {OutpointAt[i] : i \in DOMAIN OutpointAt}
            /\ IsAuth(mine) \/ mine.op = "deploy" <=> mine.amount = None
            /\ amount \in 0 .. MaxUint
            /\ mine.op = "deploy" => mine.max \in 0 .. MaxUint
    BY <2>6, UsableIs
  <2>9. QED
    BY <2>7, <2>8
<1>2. QED
  BY <1>1, ParsingInductive, PTL

-----------------------------------------------------------------------------
(* Digits.                                                                    *)

Digit == 0 .. 9

\* Sequences of digits: when two are one, and what they are made of.
LEMMA SameDigits ==
  ASSUME NEW a \in Seq(Digit), NEW b \in Seq(Digit), Len(a) = Len(b),
         \A i \in 1 .. Len(a) : a[i] = b[i]
  PROVE  a = b
OBVIOUS

LEMMA ZerosAre ==
  ASSUME NEW n \in Int
  PROVE  LET z == IF n > 0 THEN n ELSE 0
         IN  /\ Zeros(n) \in Seq(Digit) /\ Len(Zeros(n)) = z
             /\ \A i \in 1 .. z : Zeros(n)[i] = 0
<1>1. CASE n > 0
  <2>1. n \in Nat
    BY <1>1
  <2>2. Zeros(n) \in [1 .. n -> Digit]
    BY DEF Zeros, Digit
  <2>3. Zeros(n) \in Seq(Digit) /\ Len(Zeros(n)) = n
    BY <2>1, <2>2
  <2>4. QED
    BY <1>1, <2>3 DEF Zeros
<1>2. CASE ~(n > 0)
  <2>1. 1 .. n = {}
    BY <1>2
  <2>2. Zeros(n) = << >>
    BY <2>1 DEF Zeros
  <2>3. QED
    BY <1>2, <2>2
<1>3. QED
  BY <1>1, <1>2

LEMMA JoinedDigits ==
  ASSUME NEW a \in Seq(Digit), NEW b \in Seq(Digit)
  PROVE  /\ a \o b \in Seq(Digit) /\ Len(a \o b) = Len(a) + Len(b)
         /\ \A i \in 1 .. Len(a) : (a \o b)[i] = a[i]
         /\ \A i \in 1 .. Len(b) : (a \o b)[Len(a) + i] = b[i]
OBVIOUS

LEMMA PartOfDigits ==
  ASSUME NEW a \in Seq(Digit), NEW from \in Nat \ {0}, NEW to \in Nat, to <= Len(a), from <= to + 1
  PROVE  LET part == SubSeq(a, from, to)
         IN  /\ part \in Seq(Digit) /\ Len(part) = (to - from) + 1
             /\ \A i \in 1 .. (to - from) + 1 : part[i] = a[(from - 1) + i]
OBVIOUS

\* Zeros in front change nothing.
LEMMA TrimmedIs ==
  ASSUME NEW a \in Seq(Digit), NEW n \in Int
  PROVE  Trimmed(Zeros(n) \o a) = Trimmed(a)
<1> DEFINE zeros == Zeros(n)
           z == Len(zeros)
           all == zeros \o a
           S == Significant(a)
           T == Significant(all)
<1>1. zeros \in Seq(Digit) /\ z \in Nat /\ \A i \in 1 .. z : zeros[i] = 0
  BY ZerosAre
<1>2. Len(a) \in Nat /\ DOMAIN a = 1 .. Len(a) /\ \A i \in 1 .. Len(a) : a[i] \in Digit
  OBVIOUS
<1> HIDE DEF zeros
<1>3. /\ all \in Seq(Digit) /\ Len(all) = z + Len(a) /\ DOMAIN all = 1 .. Len(all)
      /\ \A i \in 1 .. z : all[i] = zeros[i]
      /\ \A i \in 1 .. Len(a) : all[z + i] = a[i]
  BY <1>1, JoinedDigits
<1> HIDE DEF z, all
<1>4. S \in SUBSET Nat /\ \A i \in Nat : i \in S <=> i \in 1 .. Len(a) /\ a[i] # 0
  BY <1>2 DEF Significant
<1>5. T \in SUBSET Nat /\ \A i \in Nat : i \in T <=> i \in 1 .. Len(all) /\ all[i] # 0
  BY <1>3 DEF Significant
<1> HIDE DEF S, T
<1>6. ASSUME NEW i \in S
      PROVE  z + i \in T
  <2>1. i \in 1 .. Len(a) /\ a[i] # 0
    BY <1>4
  <2>2. z + i \in 1 .. Len(all) /\ z + i \in Nat
    BY <1>1, <1>2, <1>3, <2>1
  <2>3. QED
    BY <1>3, <1>5, <2>1, <2>2
<1>7. ASSUME NEW i \in T
      PROVE  i - z \in S
  <2>1. i \in Nat /\ i \in 1 .. Len(all) /\ all[i] # 0
    BY <1>5
  <2>2. i \notin 1 .. z
    BY <1>1, <1>3, <2>1
  <2>3. i - z \in 1 .. Len(a) /\ i = z + (i - z)
    BY <1>1, <1>2, <1>3, <2>1, <2>2
  <2>4. all[z + (i - z)] = a[i - z]
    BY <1>3, <2>3
  <2>5. a[i - z] # 0
    BY <2>1, <2>3, <2>4
  <2>6. QED
    BY <1>4, <2>3, <2>5
<1>8. CASE S = {}
  <2>1. T = {}
    BY <1>7, <1>8
  <2>2. QED
    BY <1>8, <2>1 DEF Trimmed, S, T, all, zeros
<1>9. CASE S # {}
  <2> DEFINE m == Min(S)
             k == Min(T)
  <2>1. m \in S /\ \A i \in S : m <= i
    BY <1>4, <1>9, MinIsLeast
  <2>2. z + m \in T
    BY <1>6, <2>1
  <2>3. k \in T /\ \A i \in T : k <= i
    BY <1>5, <2>2, MinIsLeast
  <2> HIDE DEF m, k
  <2>4. m \in Nat /\ k \in Nat
    BY <1>4, <1>5, <2>1, <2>3
  <2>5. k - z \in S /\ k <= z + m
    BY <1>7, <2>2, <2>3
  <2>6. m <= k - z
    BY <2>1, <2>5
  <2>7. k = z + m
    BY <1>1, <2>4, <2>5, <2>6
  <2>8. m \in 1 .. Len(a)
    BY <1>4, <2>1, <2>4
  <2> DEFINE x == SubSeq(all, k, Len(all))
             y == SubSeq(a, m, Len(a))
  <2>9. /\ y \in Seq(Digit) /\ Len(y) = (Len(a) - m) + 1
        /\ \A i \in 1 .. (Len(a) - m) + 1 : y[i] = a[(m - 1) + i]
    BY <1>2, <2>8, PartOfDigits
  <2>10. k \in Nat \ {0} /\ Len(all) \in Nat /\ k <= Len(all) + 1
    BY <1>1, <1>2, <1>3, <2>7, <2>8
  <2>11. /\ x \in Seq(Digit) /\ Len(x) = (Len(all) - k) + 1
         /\ \A i \in 1 .. (Len(all) - k) + 1 : x[i] = all[(k - 1) + i]
    BY <1>3, <2>10, PartOfDigits
  <2> HIDE DEF x, y
  <2>12. (Len(all) - k) + 1 = (Len(a) - m) + 1
    BY <1>1, <1>2, <1>3, <2>7, <2>8
  <2>13. ASSUME NEW i \in 1 .. Len(x)
         PROVE  x[i] = y[i]
    <3>1. i \in 1 .. (Len(a) - m) + 1
      BY <2>11, <2>12
    <3>2. (m - 1) + i \in 1 .. Len(a)
      BY <1>2, <2>8, <3>1
    <3>3. (k - 1) + i = z + ((m - 1) + i)
      BY <1>1, <2>7, <2>8, <3>1
    <3>4. x[i] = all[(k - 1) + i] /\ y[i] = a[(m - 1) + i]
      BY <2>9, <2>11, <2>12, <3>1
    <3>5. all[z + ((m - 1) + i)] = a[(m - 1) + i]
      BY <1>3, <3>2
    <3>6. QED
      BY <3>3, <3>4, <3>5
  <2>14. x = y
    BY <2>9, <2>11, <2>12, <2>13, SameDigits
  <2>15. T # {}
    BY <2>2
  <2>16. Trimmed(all) = x
    BY <2>15 DEF Trimmed, T, x, k
  <2>17. Trimmed(a) = y
    BY <1>9 DEF Trimmed, S, y, m
  <2>18. QED
    BY <2>14, <2>16, <2>17 DEF all, zeros
<1>10. QED
  BY <1>8, <1>9

\* The last of some places, if there are any.
LEMMA LastPlace ==
  ASSUME NEW n \in Nat, NEW S \in SUBSET (1 .. n)
  PROVE  Max(S \cup {0}) \in 0 .. n /\ \A i \in S : i <= Max(S \cup {0})
<1> DEFINE T == S \cup {0}
           m == IF S = {} THEN 0 ELSE Max(S)
<1>1. m \in T /\ \A y \in T : m >= y
  <2>1. CASE S = {}
    BY <2>1
  <2>2. CASE S # {}
    <3>1. Max(S) \in S /\ \A y \in S : Max(S) >= y
      BY <2>2, MaxIsGreatest
    <3>2. Max(S) \in 1 .. n
      BY <3>1
    <3>3. QED
      BY <2>2, <3>1, <3>2
  <2>3. QED
    BY <2>1, <2>2
<1> HIDE DEF m
<1>2. Max(T) \in T /\ \A y \in T : Max(T) >= y
  BY <1>1 DEF Max
<1> HIDE DEF T
<1>3. T = S \cup {0}
  BY DEF T
<1>4. Max(T) \in 0 .. n
  <2>1. \A y \in T : y \in 0 .. n
    BY <1>3
  <2>2. QED
    BY <1>2, <2>1
<1>5. \A i \in S : i <= Max(T)
  BY <1>2, <1>3, <1>4
<1>6. QED
  BY <1>4, <1>5 DEF T

\* What is displayed, with the zeros that were cut off, is the amount.
LEMMA DisplayedIs ==
  ASSUME NEW amount \in Seq(Digit), NEW decimals \in Nat
  PROVE  LET shown == Display(amount, decimals)
         IN  /\ shown.whole # << >>
             /\ Trimmed((shown.whole \o shown.fraction) \o Zeros(decimals - Len(shown.fraction)))
                  = Trimmed(amount)
<1> DEFINE lead == (decimals + 1) - Len(amount)
           padded == Zeros(lead) \o amount
           n == Len(padded)
           point == n - decimals
           rest == SubSeq(padded, point + 1, n)
           m == Max(Significant(rest) \cup {0})
           whole == SubSeq(padded, 1, point)
           fraction == SubSeq(rest, 1, m)
           shown == Display(amount, decimals)
<1>1. lead \in Int /\ Len(amount) \in Nat
  OBVIOUS
<1>2. shown.whole = whole
  BY SMT DEF Display
<1>3. shown.fraction = fraction
  BY Zenon DEF Display
<1> HIDE DEF shown
<1>4. padded \in Seq(Digit) /\ n \in Nat /\ n >= decimals + 1
  <2> DEFINE z == IF lead > 0 THEN lead ELSE 0
             zeros == Zeros(lead)
  <2> HIDE DEF lead
  <2>1. zeros \in Seq(Digit) /\ Len(zeros) = z
    BY <1>1, ZerosAre
  <2> HIDE DEF zeros
  <2>2. (zeros \o amount) \in Seq(Digit) /\ Len(zeros \o amount) = Len(zeros) + Len(amount)
    BY <2>1, JoinedDigits
  <2>3. Len(zeros \o amount) \in Nat /\ Len(zeros \o amount) >= decimals + 1
    BY <1>1, <2>1, <2>2 DEF lead
  <2>4. QED
    BY <2>2, <2>3 DEF zeros
<1>5. Trimmed(padded) = Trimmed(amount)
  <2> HIDE DEF lead
  <2>1. QED
    BY <1>1, TrimmedIs
<1> HIDE DEF padded, n, lead
<1>6. n = Len(padded)
  BY DEF n
<1>7. point \in Nat \ {0} /\ point <= n /\ n = point + decimals
  BY <1>4
<1> HIDE DEF point
<1>8. /\ whole \in Seq(Digit) /\ Len(whole) = point
      /\ \A i \in 1 .. point : whole[i] = padded[i]
  <2> DEFINE from == 1
             part == SubSeq(padded, from, point)
  <2>1. /\ from \in Nat \ {0} /\ point \in Nat /\ point <= Len(padded) /\ from <= point + 1
        /\ (point - from) + 1 = point /\ \A i \in 1 .. point : (from - 1) + i = i
    BY <1>4, <1>6, <1>7
  <2> HIDE DEF from
  <2>2. /\ part \in Seq(Digit) /\ Len(part) = (point - from) + 1
        /\ \A i \in 1 .. (point - from) + 1 : part[i] = padded[(from - 1) + i]
    BY <1>4, <2>1, PartOfDigits
  <2>3. whole = part
    BY DEF from
  <2> HIDE DEF whole, part
  <2>4. QED
    BY <2>1, <2>2, <2>3
<1>9. /\ rest \in Seq(Digit) /\ Len(rest) = decimals
      /\ \A i \in 1 .. decimals : rest[i] = padded[point + i]
  <2> DEFINE from == point + 1
             part == SubSeq(padded, from, n)
  <2>1. from \in Nat \ {0} /\ n \in Nat /\ n <= Len(padded) /\ from <= n + 1
    BY <1>4, <1>6, <1>7
  <2>2. (n - from) + 1 = decimals /\ from - 1 = point
    BY <1>4, <1>7
  <2> HIDE DEF from
  <2>3. /\ part \in Seq(Digit) /\ Len(part) = (n - from) + 1
        /\ \A i \in 1 .. (n - from) + 1 : part[i] = padded[(from - 1) + i]
    BY <1>4, <2>1, PartOfDigits
  <2>4. rest = part
    BY DEF from
  <2> HIDE DEF rest, part
  <2>5. QED
    BY <2>2, <2>3, <2>4
<1> HIDE DEF rest, whole
<1>10. m \in 0 .. decimals /\ \A i \in 1 .. decimals : rest[i] # 0 => i <= m
  <2> DEFINE S == Significant(rest)
  <2>1. S \in SUBSET (1 .. decimals) /\ \A i \in 1 .. decimals : rest[i] # 0 => i \in S
    BY <1>9 DEF Significant
  <2> HIDE DEF S
  <2>2. Max(S \cup {0}) \in 0 .. decimals /\ \A i \in S : i <= Max(S \cup {0})
    BY <2>1, LastPlace
  <2>3. QED
    BY <2>1, <2>2 DEF S
<1> HIDE DEF m
<1>11. /\ fraction \in Seq(Digit) /\ Len(fraction) = m
       /\ \A i \in 1 .. m : fraction[i] = rest[i]
  <2>1. /\ fraction \in Seq(Digit) /\ Len(fraction) = (m - 1) + 1
        /\ \A i \in 1 .. (m - 1) + 1 : fraction[i] = rest[(1 - 1) + i]
    BY <1>9, <1>10, PartOfDigits
  <2> HIDE DEF fraction
  <2>2. QED
    BY <1>10, <2>1
<1> HIDE DEF fraction
<1> DEFINE gap == decimals - m
           zeros == Zeros(gap)
           most == whole \o fraction
           all == most \o zeros
<1>12. zeros \in Seq(Digit) /\ Len(zeros) = gap /\ gap \in Nat /\ \A i \in 1 .. gap : zeros[i] = 0
  <2>1. gap \in Nat
    BY <1>10
  <2> HIDE DEF gap
  <2>2. QED
    BY <2>1, ZerosAre
<1> HIDE DEF zeros
<1>13. /\ most \in Seq(Digit) /\ Len(most) = point + m
       /\ \A i \in 1 .. point : most[i] = whole[i]
       /\ \A i \in 1 .. m : most[point + i] = fraction[i]
  BY <1>8, <1>11, JoinedDigits
<1> HIDE DEF most
<1> HIDE DEF gap
<1>14. /\ all \in Seq(Digit) /\ Len(all) = (point + m) + gap
       /\ \A i \in 1 .. point + m : all[i] = most[i]
       /\ \A i \in 1 .. gap : all[(point + m) + i] = zeros[i]
  <2>1. /\ all \in Seq(Digit) /\ Len(all) = Len(most) + Len(zeros)
        /\ \A i \in 1 .. Len(most) : all[i] = most[i]
        /\ \A i \in 1 .. Len(zeros) : all[Len(most) + i] = zeros[i]
    BY <1>12, <1>13, JoinedDigits
  <2> HIDE DEF all
  <2>2. Len(most) = point + m /\ Len(zeros) = gap
    BY <1>12, <1>13
  <2>3. QED
    BY <2>1, <2>2
<1>15. Len(all) = Len(padded)
  BY <1>6, <1>7, <1>10, <1>14 DEF gap
<1> HIDE DEF all
<1>16. ASSUME NEW i \in 1 .. Len(all)
       PROVE  all[i] = padded[i]
  <2>1. i \in 1 .. n
    BY <1>6, <1>15
  <2>2. CASE i <= point
    <3>1. i \in 1 .. point /\ i \in 1 .. point + m
      BY <1>7, <1>10, <2>1, <2>2
    <3>2. QED
      BY <1>8, <1>13, <1>14, <3>1
  <2>3. CASE i > point /\ i <= point + m
    <3> DEFINE j == i - point
    <3>1. j \in 1 .. m /\ i = point + j /\ i \in 1 .. point + m /\ j \in 1 .. decimals
      BY <1>7, <1>10, <2>1, <2>3
    <3> HIDE DEF j
    <3>2. all[i] = fraction[j]
      BY <1>13, <1>14, <3>1
    <3>3. fraction[j] = padded[point + j]
      BY <1>9, <1>11, <3>1
    <3>4. QED
      BY <3>1, <3>2, <3>3
  <2>4. CASE i > point + m
    <3> DEFINE j == i - point
               l == i - (point + m)
    <3>1. /\ j \in 1 .. decimals /\ i = point + j /\ j > m
          /\ l \in 1 .. gap /\ i = (point + m) + l
      BY <1>4, <1>7, <1>10, <2>1, <2>4 DEF gap
    <3> HIDE DEF j, l
    <3>2. all[i] = 0
      BY <1>12, <1>14, <3>1
    <3>3. rest[j] = 0
      BY <1>10, <3>1
    <3>4. padded[i] = rest[j]
      BY <1>9, <3>1
    <3>5. QED
      BY <3>2, <3>3, <3>4
  <2>5. QED
    BY <1>4, <1>7, <1>10, <2>1, <2>2, <2>3, <2>4
<1>17. all = padded
  BY <1>4, <1>14, <1>15, <1>16, SameDigits
<1>18. whole # << >>
  BY <1>7, <1>8
<1>19. all = (shown.whole \o shown.fraction) \o Zeros(decimals - Len(shown.fraction))
  BY <1>2, <1>3, <1>11 DEF all, most, zeros, gap
<1>20. QED
  BY <1>2, <1>5, <1>17, <1>18, <1>19 DEF shown

\* A precision is a natural number.
LEMMA DecimalsAre ==
  ASSUME NEW field, Digits(field) => field \in Seq(0 .. 9)
  PROVE  Decimals(field) \in Nat
<1>1. CASE ~Digits(field)
  BY <1>1 DEF Decimals
<1>2. CASE Digits(field)
  <2> DEFINE S == {Val(field), 18}
  <2>1. Val(field) \in Nat
    BY <1>2, ValIs
  <2>2. S \in SUBSET Nat /\ S # {}
    BY <2>1
  <2>3. Min(S) \in S
    <3> HIDE DEF S
    <3>1. QED
      BY <2>2, MinIsLeast
  <2>4. QED
    BY <1>2, <2>2, <2>3 DEF Decimals
<1>3. QED
  BY <1>1, <1>2

\* The amount and the precision of what a document says, if it states them.
LEMMA StatedAre ==
  ASSUME NEW json, Readable(json)
  PROVE  /\ AmountOf(json) # None => AmountOf(json) \in Seq(Digit)
         /\ PrecisionOf(json) # None => PrecisionOf(json) \in Nat
<1>1. AmountOf(json) # None => AmountOf(json) \in Seq(Digit)
  <2> DEFINE field == json.amt
  <2>1. Digits(field) => field \in Seq(0 .. 9)
    BY DEF Readable
  <2> HIDE DEF field
  <2>2. Uint(field) # None => Uint(field) = field /\ field \in Seq(0 .. 9)
    BY <2>1, UintIs
  <2>3. QED
    BY <2>2 DEF AmountOf, Digit, field
<1>2. PrecisionOf(json) # None => PrecisionOf(json) \in Nat
  <2> DEFINE field == json.dec
  <2>1. Digits(field) => field \in Seq(0 .. 9)
    BY DEF Readable
  <2> HIDE DEF field
  <2>2. Decimals(field) \in Nat
    BY <2>1, DecimalsAre
  <2>3. QED
    BY <2>2 DEF PrecisionOf, field
<1>3. QED
  BY <1>1, <1>2

\* Any token that shows its amount as Shown does shows it exactly.
LEMMA ExactIs ==
  ASSUME NEW token, NEW amount, NEW decimals,
         amount # None => amount \in Seq(Digit), decimals # None => decimals \in Nat,
         token.amount = amount, token.decimals = decimals,
         token.shown = Shown(amount, decimals), token.shown # None
  PROVE  ShowsExactly(token)
<1>1. amount # None /\ decimals # None /\ token.shown = Display(amount, decimals)
  BY DEF Shown
<1>2. amount \in Seq(Digit) /\ decimals \in Nat
  BY <1>1
<1> DEFINE shown == Display(amount, decimals)
<1>3. /\ shown.whole # << >>
      /\ Trimmed((shown.whole \o shown.fraction) \o Zeros(decimals - Len(shown.fraction)))
           = Trimmed(amount)
  BY <1>2, DisplayedIs
<1> HIDE DEF shown
<1>4. token.shown = shown
  BY <1>1 DEF shown
<1>5. QED
  BY <1>3, <1>4 DEF ShowsExactly

\* As it is inscribed.
LEMMA InscribedIsExact ==
  ASSUME NEW json, NEW outpoint, Readable(json), Classify(json, outpoint) # NoToken,
         Classify(json, outpoint).shown # None
  PROVE  ShowsExactly(Classify(json, outpoint))
<1> DEFINE token == Classify(json, outpoint)
<1>1. /\ token.amount = AmountOf(json) /\ token.decimals = PrecisionOf(json)
      /\ token.shown = Shown(AmountOf(json), PrecisionOf(json))
  BY ClassifyIs
<1>2. token.shown # None
  OBVIOUS
<1> HIDE DEF token
<1> DEFINE amount == AmountOf(json)
           decimals == PrecisionOf(json)
<1>3. (amount # None => amount \in Seq(Digit)) /\ (decimals # None => decimals \in Nat)
  BY StatedAre
<1>4. token.amount = amount /\ token.decimals = decimals /\ token.shown = Shown(amount, decimals)
  BY <1>1
<1> HIDE DEF amount, decimals
<1>5. ShowsExactly(token)
  BY <1>2, <1>3, <1>4, ExactIs
<1>6. QED
  BY <1>5 DEF token

\* With the precision of its deploy.
LEMMA BorrowedIsExact ==
  ASSUME NEW json, NEW outpoint, Readable(json), Classify(json, outpoint) # NoToken,
         NEW deploy, NEW other, deploy # NotJson => Readable(deploy),
         NEW there, there = IF deploy = NotJson THEN NoToken ELSE Classify(deploy, other),
         Classify(json, outpoint).decimals = None,
         ApplyDeploy(Classify(json, outpoint), there).shown # None
  PROVE  ShowsExactly(ApplyDeploy(Classify(json, outpoint), there))
<1> DEFINE token == Classify(json, outpoint)
           new == ApplyDeploy(token, there)
           amount == AmountOf(json)
<1>1. /\ token.amount = amount /\ token.decimals = PrecisionOf(json)
      /\ token.shown = Shown(amount, PrecisionOf(json))
  BY ClassifyIs
<1>2. {"amount", "decimals", "shown", "tick"} \subseteq DOMAIN token
  BY SMT DEF Classify
<1>3. token # NoToken /\ token.decimals = None /\ new.shown # None
  OBVIOUS
<1> HIDE DEF token
<1>4. token.shown = None
  BY <1>1, <1>3 DEF Shown
<1>5. there # NoToken /\ there.decimals # None
  BY <1>3, <1>4 DEF ApplyDeploy
<1>6. new = [token EXCEPT !.decimals = there.decimals,
                          !.shown = Shown(token.amount, there.decimals),
                          !.tick = IF @ = NoKey THEN there.tick ELSE @]
  BY <1>3, <1>5 DEF ApplyDeploy
<1> HIDE DEF new
<1> DEFINE decimals == there.decimals
<1>7. new.decimals = decimals
  BY <1>2, <1>6
<1>8. new.shown = Shown(amount, decimals)
  BY <1>1, <1>2, <1>6
<1>9. new.amount = amount
  BY <1>1, <1>2, <1>6
<1>10. amount # None => amount \in Seq(Digit)
  BY StatedAre
<1>11. decimals \in Nat
  <2>1. deploy # NotJson /\ there = Classify(deploy, other) /\ Readable(deploy)
    BY <1>5
  <2>2. decimals = PrecisionOf(deploy)
    BY <1>5, <2>1, ClassifyIs
  <2>3. QED
    BY <1>5, <2>1, <2>2, StatedAre
<1> HIDE DEF amount, decimals
<1>12. ShowsExactly(new)
  BY <1>3, <1>7, <1>8, <1>9, <1>10, <1>11, ExactIs
<1>13. QED
  BY <1>12 DEF new, token

\* An amount shown is the amount inscribed, at its own precision or its
\* deploy's, whatever the digits and the precision. (token.js:45-53, 193-206)
THEOREM DisplaysExactly == Spec => []DisplayIsExact
<1>1. ASSUME IInv
      PROVE  DisplayIsExact
  <2> SUFFICES ASSUME answer # None, Inscription # NoInscription,
                      Inscription.token # NoToken, Inscription.token.shown # None
               PROVE  ShowsExactly(Inscription.token)
    BY DEF DisplayIsExact
  <2>1. PICK concat \in BOOLEAN, resolve \in BOOLEAN, sats \in {None, satoshis},
             deploy \in Deploys \cup {NotJson} : Answers(concat, sats, resolve, deploy)
    BY <1>1, Answered
  <2> DEFINE found == Found(sats, concat)
             lent == WithTokenDeploy(found, deploy)
             hashed == ContentOf(FirstOne, concat)
             token == found.inscription.token
  <2>2. Shows(found, ParseEnvelopes(script, MaxEnvelopes), sats, concat)
    BY <1>1, FoundIs
  <2>3. answer.view = IF resolve THEN lent ELSE found
    BY <2>1 DEF Answers
  <2>4. Starts(script) # {}
    <3>1. SUFFICES ASSUME Starts(script) = {}
                   PROVE  FALSE
      OBVIOUS
    <3>2. found.inscription = NoInscription
      BY <2>2, <3>1 DEF Shows
    <3>3. lent = found
      <4> HIDE DEF found
      <4>1. QED
        BY <3>2 DEF WithTokenDeploy
    <3> HIDE DEF found, lent
    <3>4. QED
      BY <2>3, <3>2, <3>3 DEF Inscription
  <2>5. token = DetectToken(Document(hashed), ContentType(FirstOne), Here)
    <3>1. found.inscription = Rendered(script, FirstOne, hashed, Here)
      BY <2>2, <2>4 DEF Shows
    <3> HIDE DEF found
    <3>2. QED
      BY <3>1, RenderedIs
  <2>6. lent.inscription.token = IF Borrows(token) THEN ApplyDeploy(token, There(token, deploy))
                                 ELSE token
    BY <1>1, <2>4, BorrowedIs
  <2> HIDE DEF found, lent
  <2>7. Inscription.token = IF resolve /\ Borrows(token) THEN ApplyDeploy(token, There(token, deploy))
                            ELSE token
    BY <2>3, <2>6 DEF Inscription
  <2> HIDE DEF token
  <2>8. token # NoToken
    BY <2>7 DEF Borrows
  <2> DEFINE json == doc
  <2>9. token = Classify(json, Here)
    BY <2>5, <2>8 DEF DetectToken, Document
  <2>10. Readable(json)
    BY <1>1, ScriptIs
  <2> HIDE DEF json
  <2>11. CASE resolve /\ Borrows(token)
    <3> DEFINE there == There(token, deploy)
    <3>1. there = IF deploy = NotJson THEN NoToken ELSE Classify(deploy, token.id)
      BY DEF There
    <3>2. deploy # NotJson => Readable(deploy)
      BY OutputAssumption
    <3> HIDE DEF there
    <3>3. Inscription.token = ApplyDeploy(Classify(json, Here), there)
      BY <2>7, <2>9, <2>11 DEF there
    <3>4. Classify(json, Here).decimals = None /\ Classify(json, Here) # NoToken
      BY <2>9, <2>11 DEF Borrows
    <3> DEFINE other == token.id
    <3> HIDE DEF other
    <3>5. there = IF deploy = NotJson THEN NoToken ELSE Classify(deploy, other)
      BY <3>1 DEF other
    <3>6. ApplyDeploy(Classify(json, Here), there).shown # None
      BY <3>3
    <3>7. ShowsExactly(ApplyDeploy(Classify(json, Here), there))
      BY <2>10, <3>2, <3>4, <3>5, <3>6, BorrowedIsExact
    <3>8. QED
      BY <3>3, <3>7
  <2>12. CASE ~(resolve /\ Borrows(token))
    <3>1. Inscription.token = Classify(json, Here)
      BY <2>7, <2>9, <2>12
    <3>2. Classify(json, Here) # NoToken /\ Classify(json, Here).shown # None
      BY <3>1
    <3>3. ShowsExactly(Classify(json, Here))
      BY <2>10, <3>2, InscribedIsExact
    <3>4. QED
      BY <3>1, <3>3
  <2>13. QED
    BY <2>11, <2>12
<1>2. QED
  BY <1>1, ParsingInductive, PTL

=============================================================================
