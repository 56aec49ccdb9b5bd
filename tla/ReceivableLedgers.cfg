SPECIFICATION Spec
CONSTANTS
  Obligations = {o1, o2}
  Invoices = {i1}
  Payments = {p1, p2}
  Amounts = {1, 2}
  Types = {"RECEIVABLE", "PAYABLE"}
  Requests = {r1, r2}
  Operations = {"owe", "pay", "unpay", "archive", "invoice", "update", "send", "void", "delete"}
  Overlapping <- NoneSpoils
  NoInvoice = NoInvoice
SYMMETRY Symmetry
INVARIANTS LedgerCarriesWhatIsOwed DebtsAgree
PROPERTIES ArchivingCloses VoidSettles
CHECK_DEADLOCK FALSE
