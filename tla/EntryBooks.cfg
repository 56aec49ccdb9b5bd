SPECIFICATION Spec
CONSTANTS
  e1 = e1
  e2 = e2
  b1 = b1
  b2 = b2
  w1 = w1
  o1 = o1
  Entries = {e1, e2}
  Books = {b1}
  Wallets = {}
  Obligations = {o1}
  DeleteRequests = {}
  Requests = {r1, r2}
  Moneys <- TwoPayments
  ObligationTerms <- OneReceivable
  Overdraftable = {}
  MaxVersion = 2
  Operations = {"createUnlinked", "edit", "settle", "describe", "delete"}
  Overlapping <- AnyPair
  NoWallet = NoWallet
  NoObligation = NoObligation
  Same = Same
SYMMETRY Symmetry
PROPERTIES PaymentsStayCounted
CHECK_DEADLOCK FALSE
