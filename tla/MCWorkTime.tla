---------------------------- MODULE MCWorkTime ----------------------------
(* Instances of WorkTime small enough for TLC.                             *)
EXTENDS WorkTime, TLC

CONSTANTS ann, w1, w2

(* Ann runs the people operations of one workspace and works in another.   *)
Staff == (w1 :> (ann :> "HR")) @@ (w2 :> (ann :> "MEMBER"))

Office == [user |-> None, days |-> {0, 1}, start |-> 0, end |-> 1, grace |-> 0, expected |-> 1,
           breakPaid |-> FALSE, window |-> None, outFrom |-> 1]

(* A shift of one person past midnight, with a window of arrival.          *)
Night == [Office EXCEPT !.user = ann, !.start = 2, !.end = 0, !.window = <<1, 2>>]

Lenient == [enforceWindow |-> FALSE, legacyWindow |-> None, legacyFence |-> FALSE,
            fence |-> "WARN", jobSites |-> TRUE, flags |-> TRUE, overtime |-> TRUE]
Strict  == [Lenient EXCEPT !.enforceWindow = TRUE, !.legacyWindow = <<0, 1>>, !.fence = "ENFORCE"]

SomeHours    == {Night}
SomePolicies == {Strict}
SomeRanges   == {<<0, 1>>}

(* Sessions that close in every way there is; attendance entered by hand;  *)
(* timers; and the policy.                                                 *)
SomeLoads ==
  {[of |-> {"clockIn", "clockOut", "closeAnywhere", "adjust", "presence", "sweep"}, left |-> 4],
   [of |-> {"clockIn", "manual", "sweep"}, left |-> 2],
   [of |-> {"timer", "entry", "lock"}, left |-> 3],
   [of |-> {"clockIn", "hours", "holiday", "policy", "sweep"}, left |-> 3]}

NoJobs       == {}
NoSites      == {}
AtFence      == {"fence"}

Symmetry == Permutations(Requests)
=============================================================================
