SPECIFICATION Spec
CONSTANTS
  Wallets = {w1, w2}
  Txs = {t1, t2}
  Transfers = {x1}
  Requests = {r1}
  Moneys <- TwoMoneys
  Openings = {0, 2}
  Sums <- OneSum
  MaxVersion = 2
  Operations = {"direct", "edit", "delete", "transfer", "recalculate", "allowNegative", "archive", "remove"}
SYMMETRY Symmetry
INVARIANT WalletsAgree
CHECK_DEADLOCK FALSE
