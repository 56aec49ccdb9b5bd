SPECIFICATION Spec
CONSTANTS
  e1 = e1
  e2 = e2
  b1 = b1
  b2 = b2
  w1 = w1
  o1 = o1
  Entries = {e1}
  Books = {b1, b2}
  Wallets = {w1}
  Obligations = {}
  DeleteRequests = {d1}
  Requests = {r1, r2}
  Moneys <- TwoMoneys
  ObligationTerms <- OneReceivable
  Overdraftable = {w1}
  MaxVersion = 3
  Operations = {"createUnlinked", "edit", "relink", "reassign", "requestDelete", "reconcile", "describe"}
  Overlapping <- AnyPair
  NoWallet = NoWallet
  NoObligation = NoObligation
  Same = Same
SYMMETRY BookSymmetry
INVARIANTS ProbeIsSafe CachesFollowLedger BooksMatchInStep
PROPERTIES EntriesStayInStep ReconciledIsKept
CHECK_DEADLOCK FALSE
