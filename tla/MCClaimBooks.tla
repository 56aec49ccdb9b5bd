--------------------------- MODULE MCClaimBooks ---------------------------
(* Instances of ClaimBooks small enough for TLC.                           *)
EXTENDS ClaimBooks, TLC

(* Both kinds of claim, of the first day.                                  *)
SomeExpenses == {[source |-> s, day |-> 1] : s \in {"ORG_WALLET", "OWN_MONEY"}}

(* Claims while periods close and reopen, and entries are reversed; manual *)
(* journals while they do, on one day more; the chart.                     *)
SomeLoads ==
  {[of |-> {"claim", "close", "reopen", "reverse"}, left |-> 2, days |-> 2],
   [of |-> {"journal", "close", "reopen", "reverse"}, left |-> 3, days |-> 3],
   [of |-> {"create", "update", "journal", "archive", "map"}, left |-> 3, days |-> 1]}

Symmetry == Permutations(Requests) \union Permutations(EntryKeys)
=============================================================================
