SPECIFICATION Spec
CONSTANTS
  tent = tent
  e1 = e1
  o1 = o1
  i1 = i1
  Items = {tent}
  Docs = {e1, o1, i1}
  KindOf <- DocKinds
  Kinds <- ItemKinds
  Baskets <- SomeBaskets
  Bills <- SomeBills
  Manuals <- SomeManuals
  Requests = {r1, r2}
  MaxMoves = 7
  Operations = {"updateItem", "manual", "book", "edit", "delete", "send", "void", "return", "repeat"}
SYMMETRY Symmetry
INVARIANTS StockAgrees CostsAgree
PROPERTY KeepsPromise
CHECK_DEADLOCK FALSE
