-------------------------------- MODULE Api --------------------------------
(* A request is charged for before its handler reads: the limiter of           *)
(* src/lib/rateLimit.js in front of the routes of src/routes/index.js, as       *)
(* app.js mounts them, while the indexer process writes the database.           *)
EXTENDS RateLimit, IndexReader

VARIABLES waiting    \* the route of the request let through, or Nobody

apiVars == <<limiter, reader, waiting>>

Init == LimiterInit /\ ReaderInit /\ waiting = Nobody

\* The limiter is middleware: what it lets through goes on to its handler. Up to
\* the reply it is one turn of this process, so only the other process (Writer)
\* and the clock come in between.
LetsIn(c, route) ==
  /\ waiting = Nobody /\ reading = Nobody
  /\ Admit(c)
  /\ waiting' = route
  /\ UNCHANGED reader

TurnsAway(c) ==
  /\ waiting = Nobody /\ reading = Nobody
  /\ Refuse(c)
  /\ UNCHANGED <<reader, waiting>>

Handles ==
  /\ waiting # Nobody
  /\ Begin(waiting)
  /\ waiting' = Nobody
  /\ UNCHANGED limiter

Replies == Answers /\ UNCHANGED <<limiter, waiting>>
Writer == Writes /\ UNCHANGED <<limiter, waiting>>
Passes == (Tick \/ Sweep) /\ UNCHANGED <<reader, waiting>>

Next ==
  \/ \E c \in Client : (\E route \in Routes : LetsIn(c, route)) \/ TurnsAway(c)
  \/ Handles \/ Replies \/ Writer \/ Passes

Spec == Init /\ [][Next]_apiVars

\* The inductive invariant of the two together.
ApiIInv == LimiterIInv /\ ReaderIInv /\ waiting \in Routes \cup {Nobody}

=============================================================================
