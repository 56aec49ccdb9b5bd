SPECIFICATION FairLockSpec
CONSTANTS
  Transactions = {t1, t2, t3}
  Rows <- TheRows
  Position <- ThePosition
  MaxPosition = 22
  Plans <- ServicePlans
  Retries = 1
INVARIANT DeadlocksDescend
PROPERTY EverySettles
CHECK_DEADLOCK FALSE
