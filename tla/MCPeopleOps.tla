---------------------------- MODULE MCPeopleOps ----------------------------
(* Instances of PeopleOps small enough for TLC.                            *)
EXTENDS PeopleOps, TLC

CONSTANTS ann, bob, w1

(* Bob owns the workspace Ann works in.                                    *)
Staff == w1 :> (ann :> "MEMBER" @@ bob :> "OWNER")

Office == [user |-> None, days |-> {0, 1}, start |-> 0, end |-> 1, grace |-> 0, expected |-> 1,
           breakPaid |-> FALSE, window |-> None, outFrom |-> 1]

(* A shift of one person past midnight, with a window of arrival.          *)
Night == [Office EXCEPT !.user = ann, !.start = 1, !.end = 0, !.window = <<0, 1>>]

Lenient == [enforceWindow |-> FALSE, legacyWindow |-> None, legacyFence |-> TRUE,
            fence |-> "WARN", jobSites |-> TRUE, flags |-> TRUE, overtime |-> FALSE]
Strict  == [Lenient EXCEPT !.enforceWindow = TRUE, !.legacyWindow = <<0, 1>>, !.fence = "ENFORCE"]

SomeHours    == {Night}
SomePolicies == {Strict}
SomeRanges   == {<<0, 1>>}
Places       == {"depot"}
Where        == {"fence", "depot"}
Jobs         == {<<ann, "depot">>}
Spans        == {<<0, 1>>, <<1, 1>>}

(* Leave against leave and changing holidays; overtime, attendance entered *)
(* by hand and the rows that sum it up; flags raised and waived around a   *)
(* clock-in; reports; time entries; and the policy clocking in goes by.    *)
SomeLoads ==
  {[of |-> {"leave", "holiday"}, left |-> 5],
   [of |-> {"overtime", "manual", "rollup"}, left |-> 4],
   [of |-> {"clockIn", "clockOut", "rollup", "waive", "sweep"}, left |-> 4],
   [of |-> {"report"}, left |-> 5],
   [of |-> {"timer", "entry", "lock"}, left |-> 4],
   [of |-> {"clockIn", "presence", "closeAnywhere", "adjust", "hours", "policy", "site"}, left |-> 3]}

Symmetry == Permutations(Requests)
=============================================================================
