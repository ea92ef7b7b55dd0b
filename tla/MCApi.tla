------------------------------- MODULE MCApi -------------------------------
(* One client of a limiter whose idle time is as short as RateAssumption       *)
(* allows, and an index that takes three transactions, reverts included.       *)
EXTENDS Api

=============================================================================
