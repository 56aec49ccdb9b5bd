SPECIFICATION Spec
CONSTANTS
  None = None
  ann = ann
  w1 = w1
  w2 = w2
  Users = {ann}
  Workspaces = {w1, w2}
  RoleIn <- Staff
  Requests = {r1, r2}
  DayLength = 3
  CloseGrace = 0
  Ceiling = 1
  MaxTime = 3
  MaxSessions = 2
  MaxIntervals = 4
  MaxCrashes = 1
  Hours <- SomeHours
  Policies <- SomePolicies
  StartPolicy <- Lenient
  StartHours <- Office
  Sites <- NoSites
  Positions <- AtFence
  JobSites <- NoJobs
  Ranges <- SomeRanges
  Statuses = {"AVAILABLE", "BREAK"}
  EntryIds = {e1}
  Loads <- SomeLoads
INVARIANT ShiftsSafe
PROPERTIES ClosedStands ForgottenEnds
CHECK_DEADLOCK FALSE
