SPECIFICATION PeopleSpec
CONSTANTS
  None = None
  ann = ann
  bob = bob
  w1 = w1
  Users = {ann, bob}
  Workspaces = {w1}
  RoleIn <- Staff
  Requests = {r1, r2}
  DayLength = 2
  CloseGrace = 0
  Ceiling = 1
  MaxTime = 2
  MaxSessions = 2
  MaxIntervals = 3
  MaxCrashes = 0
  Hours <- SomeHours
  Policies <- SomePolicies
  StartPolicy <- Lenient
  StartHours <- Office
  Sites <- Places
  Positions <- Where
  JobSites <- Jobs
  Ranges <- SomeRanges
  Statuses = {"BREAK"}
  EntryIds = {e1}
  Loads <- SomeLoads
  LeaveSpans <- Spans
  Minutes = {1, 2}
  MaxLeaves = 2
SYMMETRY Symmetry
INVARIANT LeaveMatches
PROPERTIES DecisionsStand FlagsSettle
CHECK_DEADLOCK FALSE
