SPECIFICATION WorkspaceSpec
CONSTANTS
  None = None
  ann = ann
  bob = bob
  cam = cam
  dan = dan
  w1 = w1
  w2 = w2
  b1 = b1
  b2 = b2
  t1 = t1
  t2 = t2
  p1 = p1
  p2 = p2
  g1 = g1
  Emails = {ann, bob, cam, dan}
  Users = {ann, bob, cam, dan}
  GoogleIds <- Googles
  Workspaces = {w1, w2}
  Books = {b1, b2}
  Tasks = {t1, t2}
  Projects = {p1, p2}
  Owner <- Owners
  HomeOf <- Homes
  Staffs <- SomeStaffs
  Roles = {"MEMBER", "DEVELOPER"}
  Tags = {"TICKETING", "clear"}
  Requests = {r1, r2}
  Loads <- SomeLoads
  Desk = w1
  Wishes = {"TODO", "IN_REVIEW", "DONE"}
  Parts = {"PROJECT_MANAGER", "VIEWER"}
  Due <- SomeDue
  Threshold = 1
  MaxPassword = 3
  MaxSessions = 4
  MaxInvites = 2
  MaxKeys = 2
  MaxRefs = 2
  Limit = 1
  MaxRows = 3
  Attempts = 3
  MaxJobs = 3
  MaxFaults = 1
INVARIANTS WorkspaceSafe BoardSafe
PROPERTIES AccessStands BoardStands EveryoneTold
CHECK_DEADLOCK FALSE
