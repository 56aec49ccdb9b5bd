SPECIFICATION Spec
CONSTANTS
  boss = boss
  amy = amy
  tin = tin
  weekly = weekly
  holiday = holiday
  extra = extra
  adult = adult
  child = child
  special = special
  senior = senior
  gold = gold
  silver = silver
  c1 = c1
  c2 = c2
  Users = {boss, amy}
  Staff <- OurStaff
  Wallets = {tin}
  Sessions = {weekly, holiday, extra}
  Runs <- OurRuns
  Types = {adult, child, special, senior}
  TypeOf <- OurTypes
  Tiers = {gold, silver}
  TierBook <- OurTiers
  Cards = {c1, c2}
  RuleBook <- OurRules
  Starts <- OurStarts
  Shapes <- OurShapes
  Orders <- OurOrders
  MaxDate = 2
  MaxSales = 2
  MaxShifts = 1
  MaxRequests = 4
  Operations = {"sell", "void", "close", "reopen", "shift", "count", "configure", "offer", "tier", "card", "renew", "book", "feature"}
INVARIANTS DeskSafe SeatsHold AllowanceHolds
PROPERTY ClosedDayFrozen
CHECK_DEADLOCK FALSE
