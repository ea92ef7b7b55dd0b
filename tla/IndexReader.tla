----------------------------- MODULE IndexReader -----------------------------
(* src/routes/index.js over a database that the indexer process is writing:   *)
(* every read is a statement of its own, so a transaction of the writer may   *)
(* commit between the two reads of an answer. Of the index, one token output   *)
(* is followed, with the record and the balances of its token.                *)
EXTENDS Integers, Sequences, FiniteSets

CONSTANTS
  Nobody,           \* a field or a record that is not there
  Spender,          \* the transactions that may spend the output
  MaxCommits        \* bound: transactions of the writer

VARIABLES
  db,               \* what is committed: utxo, spentIn, supply, held
  past,             \* what the writer can go back to, oldest first
  commits,
  reading,          \* the answer being made, or Nobody
  answers           \* the answer just made, or Nobody

reader == <<db, past, commits, reading, answers>>

Empty == [utxo |-> FALSE, spentIn |-> Nobody, supply |-> 0, held |-> 0]
Routes == {"localSpend", "outpoint", "token"}

ReaderInit ==
  /\ db = Empty /\ past = << >> /\ commits = 0
  /\ reading = Nobody /\ answers = Nobody

-----------------------------------------------------------------------------
(* The writer: rules.js through sqliteStore.js, a transaction at a time. *)

\* Every state the database is in while a request lasts, and whether a block
\* was taken back meanwhile.
Noticed(undone) ==
  IF reading = Nobody THEN Nobody
  ELSE [reading EXCEPT !.window = @ \cup {db'}, !.undone = @ \/ undone]

Commits(to) ==
  /\ commits < MaxCommits
  /\ commits' = commits + 1
  /\ db' = to
  /\ past' = Append(past, db)
  /\ reading' = Noticed(FALSE)
  /\ UNCHANGED answers

\* The output is minted; it is transferred, or burned; others mint on.
Creates == db = Empty /\ Commits([Empty EXCEPT !.utxo = TRUE, !.supply = 1, !.held = 1])
Spends(tx, held) ==
  db.utxo /\ Commits([db EXCEPT !.utxo = FALSE, !.spentIn = tx, !.held = held])
Mints ==
  db.supply > 0 /\ Commits([db EXCEPT !.supply = @ + 1, !.held = @ + 1])

\* A block's transactions are taken back at once, by revert().
TakesBack(n) ==
  /\ commits < MaxCommits
  /\ commits' = commits + 1
  /\ db' = past[n]
  /\ past' = SubSeq(past, 1, n - 1)
  /\ reading' = Noticed(TRUE)
  /\ UNCHANGED answers

-----------------------------------------------------------------------------
(* The handlers. *)

Reads(route) == IF route = "token" THEN {"supply", "held"} ELSE {"utxo", "spentIn"}

\* Mutant of FirstRead: each handler's two reads swapped.
FirstReadSwapped(route) ==
  CASE route = "localSpend" -> "utxo"
    [] route = "outpoint" -> "spentIn"
    [] route = "token" -> "held"

\* What each handler reads first: localSpend the spend, the outpoint's route
\* the output, the token's route the token record.
FirstRead(route) ==
  CASE route = "localSpend" -> "spentIn"
    [] route = "outpoint" -> "utxo"
    [] route = "token" -> "supply"

Begin(route) ==
  /\ reading = Nobody
  /\ reading' = [route |-> route, first |-> db[FirstRead(route)], window |-> {db}, undone |-> FALSE]
  /\ answers' = Nobody
  /\ UNCHANGED <<db, past, commits>>

\* The answer, from what was read first and what the database holds now.
Answer(r, seen) ==
  CASE r.route = "localSpend" /\ seen.spentIn # Nobody -> [spent |-> TRUE, spentIn |-> seen.spentIn]
    [] r.route = "localSpend" /\ seen.spentIn = Nobody ->
         IF seen.utxo THEN [spent |-> FALSE] ELSE [unknown |-> TRUE]
    [] r.route = "outpoint" ->
         IF ~seen.utxo /\ seen.spentIn = Nobody THEN [notFound |-> TRUE]
         ELSE [unspent |-> seen.utxo, spentIn |-> seen.spentIn]
    [] r.route = "token" ->
         IF seen.supply = 0 THEN [notFound |-> TRUE]
         ELSE [supply |-> seen.supply, circulating |-> seen.held]

Answers ==
  /\ reading # Nobody
  /\ LET seen == [f \in Reads(reading.route) |->
                    IF f = FirstRead(reading.route) THEN reading.first ELSE db[f]]
     IN answers' = [request |-> reading, answer |-> Answer(reading, seen)]
  /\ reading' = Nobody
  /\ UNCHANGED <<db, past, commits>>

Writes ==
  \/ Creates
  \/ \E tx \in Spender, held \in {0, db.held} : Spends(tx, held)
  \/ Mints
  \/ \E n \in DOMAIN past : TakesBack(n)

-----------------------------------------------------------------------------
(* Properties. *)

\* As long as no block was taken back during the request, what each field of an
\* answer says was true at some moment of it, though its two reads fall on both
\* sides of a commit: an output is not found only if at some moment the index
\* had not heard of it; it is called unspent only if it was live at some moment,
\* and spent only by what spent it. The fields need not be true of one moment:
\* unspent may stand beside a spender, and circulation above the supply, but
\* only if something was committed in between. (routes/index.js:53-60, 104-165)
ReadsHoldTogether ==
  answers # Nobody /\ ~answers.request.undone =>
    LET r == answers.request
        a == answers.answer
        Says(f) == f \in DOMAIN a
    IN  /\ r.route = "token" /\ Says("notFound") => \E s \in r.window : s.supply = 0
        /\ r.route # "token" /\ Says("notFound") =>
             \E s \in r.window : ~s.utxo /\ s.spentIn = Nobody
        /\ a = [spent |-> FALSE] \/ (Says("unspent") /\ a.unspent) =>
             \E s \in r.window : s.utxo
        /\ Says("spentIn") => \E s \in r.window : s.spentIn = a.spentIn
        /\ Cardinality(r.window) = 1 =>
             /\ Says("supply") => a.circulating <= a.supply
             /\ Says("unspent") => (a.unspent <=> a.spentIn = Nobody)

-----------------------------------------------------------------------------
(* The inductive invariant behind it.                                         *)

\* A state of the database: a live output is not spent, and nobody holds what
\* was not minted.
Database ==
  {s \in [utxo : BOOLEAN, spentIn : Spender \cup {Nobody}, supply : Nat, held : Nat] :
     (s.utxo => s.spentIn = Nobody) /\ s.held <= s.supply}

\* The first read was of a state of the window, and a spend known then is known
\* still, unless a block was taken back.
FirstReadWas(r, s) ==
  /\ s \in Database
  /\ s[FirstRead(r.route)] = r.first
  /\ ~r.undone /\ s.spentIn # Nobody => db.spentIn = s.spentIn

ReadingOK(r) ==
  /\ DOMAIN r = {"route", "first", "window", "undone"}
  /\ r.route \in Routes
  /\ IsFiniteSet(r.window)
  /\ db \in r.window
  /\ \E s \in r.window : FirstReadWas(r, s)

ReaderIInv ==
  /\ db \in Database
  /\ past \in Seq(Database)
  /\ reading # Nobody => ReadingOK(reading)
  /\ ReadsHoldTogether

=============================================================================
