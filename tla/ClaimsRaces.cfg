SPECIFICATION BooksSpec
CONSTANTS
  Claims = {c1}
  Requests = {r1, r2}
  Operations = {"withdraw", "approve", "decline"}
  Faults = {"post", "record", "crash"}
  MaxVersion = 4
  None = None
  System = System
  Accounts = {a1, a2}
  Classes = {"EXPENSE", "ASSET"}
  Categories = {food}
  References = {m1, m2}
  EntryKeys = {e1, e2}
  Clerks = {r1, r2}
  LastDay = 3
  Expenses <- SomeExpenses
  Loads <- SomeLoads
  ClosingsMeet = FALSE
SYMMETRY Symmetry
INVARIANTS VersionPostsOnce ApprovedIsPosted
PROPERTY ReportsStand
CHECK_DEADLOCK FALSE
