---------------------------- MODULE FetchBudget ----------------------------
(* The budget one request may spend on fetching transactions (class Budget of *)
(* src/services/verify.js, and again of src/services/tokenValidate.js).       *)
EXTENDS Naturals, FiniteSets

CONSTANT MaxFetches          \* VERIFY_MAX_FETCHES, TOKEN_VALIDATE_MAX_FETCHES
ASSUME FetchAssumption == MaxFetches \in Nat

VARIABLES
  read,             \* the transactions in hand
  fetches           \* the fetches made, those that failed included

budget == <<read, fetches>>

\* Mutant of Obtain: the budget is not looked at.
ObtainFreely(t) ==
  /\ fetches' = IF t \in read THEN fetches ELSE fetches + 1
  /\ read' = read \cup {t}

\* tx(): in hand already, or fetched.
Obtain(t) ==
  /\ t \notin read => fetches < MaxFetches
  /\ fetches' = IF t \in read THEN fetches ELSE fetches + 1
  /\ read' = read \cup {t}

\* tx() throws: the budget is exhausted, or it was spent on a fetch that failed.
Refuse(t) ==
  /\ t \notin read
  /\ fetches' = IF fetches < MaxFetches THEN fetches + 1 ELSE fetches
  /\ UNCHANGED read

=============================================================================
