--------------------------- MODULE ReceivablesProofs ---------------------------
(***************************************************************************)
(* What is owed, paid, written off and invoiced is one account of the same *)
(* debt, and the control accounts of the ledger carry it, for any number   *)
(* of obligations, invoices, payments and requests.                        *)
(***************************************************************************)
EXTENDS Receivables, PostingProofs

-----------------------------------------------------------------------------
(* The inductive invariant.                                                *)

(* What is assumed of the clients: an invoice that is sent is not sent,    *)
(* edited, voided or deleted by another request meanwhile, one that is     *)
(* voided is not voided twice or paid, and a payment that is taken back is *)
(* not taken back twice, nor is its obligation archived.                   *)
HarmsApart ==
  Overlapping \cap {{"send"}, {"send", "update"}, {"send", "void"}, {"send", "delete"},
                    {"void"}, {"pay", "void"}, {"unpay"}, {"unpay", "archive"}} = {}

(* Requests in progress together are a pair of Overlapping.                *)
KindsApart ==
  \A r, s \in Requests :
    r # s /\ req[r] # Idle /\ req[s] # Idle => {req[r].pc, req[s].pc} \in Overlapping

PaidOn(o) == Over([p \in PaymentsOn(o) |-> payment[p].amount], PaymentsOn(o))

(* What was written off.                                                   *)
Lost(o) == IF WriteOffKey(o) \in DOMAIN journals THEN journals[WriteOffKey(o)].draft.amount ELSE 0

Kinds ==
  /\ DOMAIN obligation \subseteq Obligations
  /\ \A o \in DOMAIN obligation : obligation[o] \in Obligation /\ obligation[o].total > 0
  /\ DOMAIN invoice \subseteq Invoices
  /\ \A i \in DOMAIN invoice : invoice[i] \in Invoice /\ invoice[i].total > 0
  /\ DOMAIN payment \subseteq Payments /\ IsFiniteSet(DOMAIN payment)
  /\ \A p \in DOMAIN payment : /\ payment[p] \in Payment /\ payment[p].amount > 0
                               /\ payment[p].obligation \in DOMAIN obligation
  /\ stock \in [Invoices -> [out : Nat, back : Nat]]
  /\ req \in [Requests -> Request]

(* An obligation is closed for good: nobody pays it or has paid it.        *)
Dead(o) ==
  /\ obligation[o].status = "CANCELLED"
  /\ PaymentsOn(o) = {}
  /\ \A r \in Requests : req[r].pc = "pay" => req[r].obligation # o

(* What is owed is the total less what was paid and what was written off.  *)
Owing(o) ==
  LET row == obligation[o] IN
  /\ row.outstanding = row.total - PaidOn(o) - Lost(o)
  /\ row.status # "CANCELLED" => WriteOffKey(o) \notin DOMAIN journals
  /\ row.status = "PAID" => row.outstanding = 0
  /\ row.status = "CANCELLED" /\ ~row.archived => row.outstanding = 0 /\ Dead(o)

(* Each row has its journals, and no other is there.                       *)
Opened(o) ==
  /\ OweKey(o) \in DOMAIN journals <=> o \in DOMAIN obligation /\ obligation[o].invoice = NoInvoice
  /\ OweKey(o) \in DOMAIN journals =>
       journals[OweKey(o)] = [status |-> "POSTED", draft |-> OweDraft(obligation[o].type, obligation[o].total)]
  /\ WriteOffKey(o) \in DOMAIN journals =>
       /\ o \in DOMAIN obligation /\ Lost(o) \in Nat
       /\ journals[WriteOffKey(o)] = [status |-> "POSTED", draft |-> WriteOffDraft(obligation[o].type, Lost(o))]

Settling(p) ==
  /\ PaymentKey(p) \in DOMAIN journals <=> p \in DOMAIN payment
  /\ p \in DOMAIN payment =>
       journals[PaymentKey(p)] = [status |-> IF payment[p].deleted THEN "REVERSED" ELSE "POSTED",
                                  draft |-> PaymentDraft(payment[p].obligation, payment[p].amount)]

RowsAreBooked ==
  /\ DOMAIN journals \subseteq Keys
  /\ \A o \in Obligations : Opened(o)
  /\ \A p \in Payments : Settling(p)

(* An invoice i in force with the obligation o it raised.                  *)
Matches(i, o) ==
  /\ invoice[i].total = obligation[o].total
  /\ PaidOn(o) <= invoice[i].paid
  /\ obligation[o].status # "CANCELLED" =>
       /\ invoice[i].due = obligation[o].outstanding
       /\ invoice[i].paid = obligation[o].total - obligation[o].outstanding

Billed(i) ==
  /\ stock[i].out <= 1 /\ stock[i].back <= stock[i].out
  /\ \A o, p \in RaisedBy(i) : o = p
  /\ i \in DOMAIN invoice =>
       LET row == invoice[i] IN
       /\ row.status = "DRAFT" =>
            RaisedBy(i) = {} /\ stock[i].out = 0 /\ row.paid = 0 /\ row.due = row.total
       /\ row.status \in Sent \union {"PAID"} =>
            stock[i].out = 1 /\ stock[i].back = 0 /\ \A o \in RaisedBy(i) : Matches(i, o)
       /\ row.status = "PAID" => row.paid > 0
       /\ row.status = "VOID" => stock[i].out = stock[i].back /\ \A o \in RaisedBy(i) : Dead(o)

(* What a request has read and still relies on.                            *)
Sound(q) ==
  /\ q.pc = "pay" => q.payment \notin DOMAIN payment /\ q.obligation \in DOMAIN obligation
  /\ q.pc = "unpay" => q.payment \in DOMAIN payment /\ ~payment[q.payment].deleted
  /\ q.pc = "archive" =>
       LET row == obligation[q.obligation] IN
       /\ q.obligation \in DOMAIN obligation /\ q.seen # "PARTIAL"
       /\ q.seen = "PAID" => row.archived \/ row.status = "PAID"
       /\ q.seen = "CANCELLED" => row.status = "CANCELLED"
  /\ q.pc = "send" =>
       /\ q.invoice \in DOMAIN invoice /\ invoice[q.invoice] = q.seen /\ q.seen.status = "DRAFT"
  /\ q.pc \in {"update", "delete"} /\ q.invoice \in DOMAIN invoice =>
       invoice[q.invoice].status \in {"DRAFT", "VOID"}
  /\ q.pc = "void" =>
       /\ q.seen.status \in Sent \union {"DRAFT"}
       /\ q.seen.status \in Sent => q.invoice \in DOMAIN invoice
       /\ q.invoice \in DOMAIN invoice => /\ invoice[q.invoice].status = q.seen.status
                                        /\ \A o \in RaisedBy(q.invoice) : PaymentsOn(o) = {}

PaymentsApart ==
  \A r, s \in Requests : r # s /\ req[r].pc = "pay" /\ req[s].pc = "pay" => req[r].payment # req[s].payment

DebtInv ==
  /\ Kinds /\ KindsApart /\ PaymentsApart /\ RowsAreBooked
  /\ \A o \in DOMAIN obligation : Owing(o)
  /\ \A i \in Invoices : Billed(i)
  /\ \A r \in Requests : Sound(req[r])

-----------------------------------------------------------------------------
(* Sums of payments.                                                       *)

LEMMA PaidIsSum ==
  ASSUME NEW o
  PROVE  MapThenSumSet(LAMBDA p : payment[p].amount, PaymentsOn(o)) = PaidOn(o)
<1> DEFINE S == PaymentsOn(o)
           f == [p \in S |-> payment[p].amount]
           A(h) == [s \in SUBSET S |-> IF s = {} THEN 0 ELSE payment[Pick(s)].amount + h[s \ {Pick(s)}]]
           B(h) == [s \in SUBSET S |-> IF s = {} THEN 0 ELSE f[Pick(s)] + h[s \ {Pick(s)}]]
<1>1. \A s \in SUBSET S : s # {} => f[Pick(s)] = payment[Pick(s)].amount
  BY PickIn
<1>2. \A h : A(h) = B(h)
  BY <1>1
<1>3. (CHOOSE h : h = A(h)) = (CHOOSE h : h = B(h))
  BY <1>2
<1>4. MapThenSumSet(LAMBDA p : payment[p].amount, S) = (CHOOSE h : h = A(h))[S]
  BY DEF MapThenSumSet, MapThenFoldSet, Pick
<1>5. PaidOn(o) = (CHOOSE h : h = B(h))[S]
  BY DEF PaidOn, Over, MapThenSumSet, MapThenFoldSet, Pick
<1> QED
  BY <1>3, <1>4, <1>5

LEMMA PaidType ==
  ASSUME Kinds, NEW o
  PROVE  /\ Summable([p \in PaymentsOn(o) |-> payment[p].amount], PaymentsOn(o))
         /\ PaidOn(o) \in Nat
         /\ \A p \in PaymentsOn(o) : 0 < payment[p].amount /\ payment[p].amount <= PaidOn(o)
         /\ PaymentsOn(o) = {} <=> PaidOn(o) = 0
<1> DEFINE S == PaymentsOn(o)
           f == [p \in S |-> payment[p].amount]
<1>1. /\ IsFiniteSet(S) /\ S \subseteq DOMAIN payment
      /\ \A p \in S : payment[p].amount \in Nat /\ payment[p].amount > 0
  BY FS_Subset DEF Kinds, PaymentsOn, Payment
<1> HIDE DEF S
<1>2. IsFiniteSet(S) /\ \A p \in S : f[p] \in Nat /\ f[p] = payment[p].amount
  BY <1>1
<1>3. Summable(f, S)
  BY <1>2 DEF Summable
<1> HIDE DEF f
<1>4. Over(f, S) \in Nat /\ \A p \in S : f[p] <= Over(f, S)
  BY <1>2, SumNat, SumAtLeast
<1>5. S = {} => Over(f, S) = 0
  BY SumEmpty
<1>6. S = {} <=> Over(f, S) = 0
  BY <1>1, <1>2, <1>4, <1>5
<1> QED
  BY <1>1, <1>2, <1>3, <1>4, <1>6 DEF S, f, PaidOn

(* The payments of o and their amounts are as they were.                   *)
SamePaid(o) ==
  /\ PaymentsOn(o)' = PaymentsOn(o)
  /\ \A p \in PaymentsOn(o) : payment'[p].amount = payment[p].amount

LEMMA PaidSame ==
  ASSUME NEW o, SamePaid(o)
  PROVE  PaidOn(o)' = PaidOn(o)
BY DEF SamePaid, PaidOn

LEMMA PaidUnchanged ==
  ASSUME NEW o, payment' = payment
  PROVE  SamePaid(o)
BY DEF SamePaid, PaymentsOn

LEMMA PaidMore ==
  ASSUME Kinds, NEW o, NEW p, p \notin DOMAIN payment, NEW x \in Nat,
         NEW row, row.obligation = o, row.amount = x, ~row.deleted, payment' = With(payment, p, row)
  PROVE  /\ PaymentsOn(o)' = PaymentsOn(o) \union {p}
         /\ PaidOn(o)' = PaidOn(o) + x
         /\ \A u : u # o => SamePaid(u)
<1>1. /\ DOMAIN payment' = DOMAIN payment \union {p}
      /\ payment'[p].obligation = o /\ payment'[p].amount = x /\ ~payment'[p].deleted
      /\ \A y \in DOMAIN payment : payment'[y] = payment[y]
  BY DEF With
<1>2. PaymentsOn(o)' = PaymentsOn(o) \union {p} /\ p \notin PaymentsOn(o)
  BY <1>1 DEF PaymentsOn
<1>3. \A u : u # o => SamePaid(u)
  BY <1>1 DEF PaymentsOn, SamePaid
<1> DEFINE S == PaymentsOn(o)
           f == [y \in S |-> payment[y].amount]
           g == [y \in S \union {p} |-> payment'[y].amount]
<1>4. Summable(f, S)
  BY PaidType
<1>5. \A y \in S : payment'[y].amount = payment[y].amount
  BY <1>1 DEF PaymentsOn
<1>6. PaidOn(o)' = Over(g, S \union {p}) /\ PaidOn(o) = Over(f, S) /\ p \notin S
  BY <1>2 DEF PaidOn
<1> HIDE DEF S
<1>7. g[p] = x /\ g[p] \in Int /\ \A y \in S : g[y] = f[y]
  BY <1>1, <1>5
<1> HIDE DEF f, g
<1>8. Over(g, S \union {p}) = Over(f, S) + g[p]
  BY <1>4, <1>6, <1>7, SumOneMore
<1> QED
  BY <1>2, <1>3, <1>6, <1>7, <1>8

LEMMA PaidLess ==
  ASSUME Kinds, NEW p \in DOMAIN payment, ~payment[p].deleted, NEW o, o = payment[p].obligation,
         payment' = [payment EXCEPT ![p].deleted = TRUE]
  PROVE  /\ PaymentsOn(o)' = PaymentsOn(o) \ {p}
         /\ PaidOn(o)' = PaidOn(o) - payment[p].amount
         /\ \A u : u # o => SamePaid(u)
<1>1. /\ DOMAIN payment' = DOMAIN payment
      /\ payment'[p].deleted /\ payment'[p].amount = payment[p].amount
      /\ payment'[p].obligation = o
      /\ \A y \in DOMAIN payment : y # p => payment'[y] = payment[y]
  BY DEF Kinds, Payment
<1>2. PaymentsOn(o)' = PaymentsOn(o) \ {p} /\ p \in PaymentsOn(o)
  BY <1>1 DEF PaymentsOn
<1>3. \A u : u # o => SamePaid(u)
  BY <1>1 DEF PaymentsOn, SamePaid
<1> DEFINE S == PaymentsOn(o)
           f == [y \in S |-> payment[y].amount]
           g == [y \in S \ {p} |-> payment'[y].amount]
<1>4. Summable(f, S)
  BY PaidType
<1>5. f[p] = payment[p].amount /\ \A y \in S \ {p} : g[y] = f[y]
  BY <1>1, <1>2 DEF PaymentsOn
<1>6. PaidOn(o)' = Over(g, S \ {p}) /\ PaidOn(o) = Over(f, S) /\ p \in S
  BY <1>2 DEF PaidOn
<1> HIDE DEF S, f, g
<1>7. Over(g, S \ {p}) = Over(f, S) - f[p]
  BY <1>4, <1>5, <1>6, SumOneLess
<1> QED
  BY <1>2, <1>3, <1>5, <1>6, <1>7

-----------------------------------------------------------------------------
(* Rows and keys.                                                          *)

LEMMA RowAt ==
  ASSUME Kinds, NEW o \in DOMAIN obligation
  PROVE  /\ o \in Obligations
         /\ obligation[o].type \in ObligationTypes
         /\ obligation[o].total \in Nat /\ obligation[o].total > 0
         /\ obligation[o].outstanding \in Nat
         /\ obligation[o].status \in ObligationStatuses
         /\ obligation[o].archived \in BOOLEAN
         /\ obligation[o].invoice \in Invoices \union {NoInvoice}
BY DEF Kinds, Obligation

LEMMA BillAt ==
  ASSUME Kinds, NEW i \in DOMAIN invoice
  PROVE  /\ i \in Invoices
         /\ invoice[i].total \in Nat /\ invoice[i].total > 0
         /\ invoice[i].paid \in Nat /\ invoice[i].due \in Nat
         /\ invoice[i].status \in InvoiceStatuses
BY DEF Kinds, Invoice

LEMMA PaymentAt ==
  ASSUME Kinds, NEW p \in DOMAIN payment
  PROVE  /\ p \in Payments /\ payment[p].amount \in Nat /\ payment[p].amount > 0
         /\ payment[p].obligation \in DOMAIN obligation /\ payment[p].deleted \in BOOLEAN
BY DEF Kinds, Payment

LEMMA StockAt ==
  ASSUME Kinds, NEW i \in Invoices
  PROVE  stock[i].out \in Nat /\ stock[i].back \in Nat
BY DEF Kinds

LEMMA RequestAt ==
  ASSUME Kinds, NEW r \in Requests
  PROVE  /\ req[r] \in Request
         /\ req[r].pc = "pay" => req[r].payment \in Payments /\ req[r].obligation \in Obligations
                                 /\ req[r].amount \in Amounts
         /\ req[r].pc = "unpay" => req[r].payment \in Payments
         /\ req[r].pc = "archive" => req[r].obligation \in Obligations /\ req[r].seen \in ObligationStatuses
         /\ req[r].pc \in {"send", "void"} => req[r].invoice \in Invoices /\ req[r].seen \in Invoice
         /\ req[r].pc \in {"update", "delete"} => req[r].invoice \in Invoices
<1>1. req[r] \in Request
  BY DEF Kinds
<1> QED
  BY <1>1 DEF Request, Idle

LEMMA IdleAt ==
  /\ Idle \in Request /\ Idle.pc = "idle"
  /\ \A q : q.pc # "idle" => q # Idle
BY DEF Idle, Request

LEMMA KeysApart ==
  /\ \A o, p : OweKey(o) # WriteOffKey(p) /\ OweKey(o) # PaymentKey(p) /\ WriteOffKey(o) # PaymentKey(p)
  /\ \A o, p : OweKey(o) = OweKey(p) => o = p
  /\ \A o, p : WriteOffKey(o) = WriteOffKey(p) => o = p
  /\ \A o, p : PaymentKey(o) = PaymentKey(p) => o = p
  /\ \A o \in Obligations : OweKey(o) \in Keys /\ WriteOffKey(o) \in Keys
  /\ \A p \in Payments : PaymentKey(p) \in Keys
BY DEF OweKey, WriteOffKey, PaymentKey, Keys

(* Two requests under way are not a pair that does harm.                   *)
LEMMA Apart ==
  ASSUME HarmsApart, KindsApart, NEW r \in Requests, NEW s \in Requests, r # s,
         req[r].pc # "idle", req[s].pc # "idle"
  PROVE  /\ req[r].pc = "send" => req[s].pc \notin {"send", "update", "void", "delete"}
         /\ req[r].pc = "update" => req[s].pc # "send"
         /\ req[r].pc = "delete" => req[s].pc # "send"
         /\ req[r].pc = "void" => req[s].pc \notin {"send", "void", "pay"}
         /\ req[r].pc = "pay" => req[s].pc # "void"
         /\ req[r].pc = "unpay" => req[s].pc \notin {"unpay", "archive"}
         /\ req[r].pc = "archive" => req[s].pc # "unpay"
<1>1. {req[r].pc, req[s].pc} \in Overlapping
  BY IdleAt DEF KindsApart
<1>2. \A j, k : {j, k} \in Overlapping =>
        /\ ~(j = "send" /\ k \in {"send", "update", "void", "delete"})
        /\ ~(j = "update" /\ k = "send")
        /\ ~(j = "delete" /\ k = "send")
        /\ ~(j = "void" /\ k \in {"send", "void", "pay"})
        /\ ~(j = "pay" /\ k = "void")
        /\ ~(j = "unpay" /\ k \in {"unpay", "archive"})
        /\ ~(j = "archive" /\ k = "unpay")
  <2> TAKE j, k
  <2> HAVE {j, k} \in Overlapping
  <2>1. {"send"} = {"send", "send"} /\ {"void"} = {"void", "void"} /\ {"unpay"} = {"unpay", "unpay"}
    OBVIOUS
  <2>2. \A a, b : {a, b} = {b, a}
    OBVIOUS
  <2> QED
    BY <2>1, <2>2 DEF HarmsApart
<1> QED
  BY <1>1, <1>2

-----------------------------------------------------------------------------
(* What of a request, an obligation or an invoice stays as it is when a    *)
(* step does not touch what it is about.                                   *)

(* No request that was not paying o is paying it now.                      *)
NoNewPays == \A s \in Requests : req'[s] = req[s] \/ req'[s].pc # "pay"

LEMMA Finished ==
  ASSUME Kinds, NEW r \in Requests, Finish(r)
  PROVE  /\ req' \in [Requests -> Request] /\ NoNewPays
         /\ req'[r] = Idle /\ req'[r].pc = "idle"
         /\ \A s \in Requests : s # r => req'[s] = req[s]
<1>1. req \in [Requests -> Request]
  BY DEF Kinds
<1>2. PICK q : q = Idle
  OBVIOUS
<1>3. q \in Request /\ q.pc = "idle"
  BY <1>2, IdleAt
<1>4. req' = [req EXCEPT ![r] = q]
  BY <1>2, Zenon DEF Finish
<1>5. req'[r] = q /\ (\A s \in Requests : s # r => req'[s] = req[s]) /\ req' \in [Requests -> Request]
  BY <1>1, <1>3, <1>4
<1> QED
  BY <1>2, <1>3, <1>5 DEF NoNewPays

LEMMA DeadStays ==
  ASSUME NoNewPays, NEW o, Dead(o), obligation'[o].status = "CANCELLED", SamePaid(o)
  PROVE  Dead(o)'
BY DEF Dead, SamePaid, NoNewPays

(* The journal under k, or that there is none.                             *)
SameJournal(k) ==
  /\ k \in DOMAIN journals' <=> k \in DOMAIN journals
  /\ k \in DOMAIN journals => journals'[k] = journals[k]

(* o is there or not as before, and what it was created with is the same.  *)
SameDebt(o) ==
  /\ o \in DOMAIN obligation' <=> o \in DOMAIN obligation
  /\ o \in DOMAIN obligation => /\ obligation'[o].type = obligation[o].type
                                /\ obligation'[o].total = obligation[o].total
                                /\ obligation'[o].invoice = obligation[o].invoice

LEMMA OpenedStays ==
  ASSUME NEW o, Opened(o), SameDebt(o), SameJournal(OweKey(o)), SameJournal(WriteOffKey(o))
  PROVE  Opened(o)'
<1>1. Lost(o)' = Lost(o)
  BY DEF Lost, SameJournal
<1> QED
  BY <1>1 DEF Opened, SameDebt, SameJournal

LEMMA SettlingStays ==
  ASSUME Kinds, NEW p, Settling(p), \A o \in DOMAIN obligation : SameDebt(o), SameJournal(PaymentKey(p)),
         p \in DOMAIN payment' <=> p \in DOMAIN payment,
         p \in DOMAIN payment => payment'[p] = payment[p]
  PROVE  Settling(p)'
<1>1. CASE p \in DOMAIN payment
  <2>1. PICK o : o = payment[p].obligation
    OBVIOUS
  <2>2. SameDebt(o) /\ o \in DOMAIN obligation /\ payment'[p] = payment[p]
    BY <1>1, <2>1, PaymentAt
  <2>3. \A x : PaymentDraft(o, x)' = PaymentDraft(o, x)
    BY <2>2 DEF PaymentDraft, SameDebt
  <2> QED
    BY <1>1, <2>1, <2>2, <2>3 DEF Settling, SameJournal
<1>2. CASE p \notin DOMAIN payment
  BY <1>2 DEF Settling, SameJournal
<1> QED
  BY <1>1, <1>2

LEMMA Posts ==
  ASSUME NEW key, key \notin DOMAIN journals, NEW d, journals' = PostIn(journals, key, d)
  PROVE  /\ DOMAIN journals' = DOMAIN journals \union {key}
         /\ journals'[key] = [status |-> "POSTED", draft |-> d]
         /\ \A k : k # key => SameJournal(k)
BY DEF PostIn, SameJournal

LEMMA OwingStays ==
  ASSUME NoNewPays, NEW o, Owing(o), obligation'[o] = obligation[o], SamePaid(o),
         SameJournal(WriteOffKey(o))
  PROVE  Owing(o)'
<1>1. PaidOn(o)' = PaidOn(o) /\ Lost(o)' = Lost(o)
  BY PaidSame DEF Lost, SameJournal
<1>2. Dead(o) => Dead(o)'
  BY DeadStays DEF Dead
<1> QED
  BY <1>1, <1>2 DEF Owing, SameJournal

LEMMA BilledStays ==
  ASSUME NoNewPays, NEW i \in Invoices, Billed(i),
         i \in DOMAIN invoice' <=> i \in DOMAIN invoice,
         i \in DOMAIN invoice => invoice'[i] = invoice[i],
         stock'[i] = stock[i],
         RaisedBy(i)' = RaisedBy(i),
         \A o \in RaisedBy(i) : obligation'[o] = obligation[o] /\ SamePaid(o)
  PROVE  Billed(i)'
<1>1. \A o \in RaisedBy(i) : PaidOn(o)' = PaidOn(o)
  BY PaidSame
<1>2. \A o \in RaisedBy(i) : Dead(o) => Dead(o)'
  BY DeadStays DEF Dead
<1>3. i \in DOMAIN invoice => \A o \in RaisedBy(i) : Matches(i, o) => Matches(i, o)'
  BY <1>1 DEF Matches
<1> QED
  BY <1>2, <1>3 DEF Billed

LEMMA SoundAgain ==
  ASSUME NEW s \in Requests, NEW q, req'[s] = q, Sound(q)'
  PROVE  Sound(req[s])'
BY DEF Sound

(* The requests go on as they were, but for one that ends.                 *)
LEMMA RequestsApart ==
  ASSUME KindsApart, PaymentsApart, NEW r \in Requests, req'[r].pc = "idle", req'[r] = Idle,
         \A s \in Requests : s # r => req'[s] = req[s]
  PROVE  KindsApart' /\ PaymentsApart'
BY DEF KindsApart, PaymentsApart

(* A reading, or a request given up: nothing but a request changes.        *)
LEMMA ReadsKeep ==
  ASSUME DebtInv, UNCHANGED <<obligation, invoice, payment, stock, journals>>,
         NEW r \in Requests, NEW q \in Request, req' = [req EXCEPT ![r] = q], Sound(q),
         q.pc = "pay" => /\ obligation[q.obligation].status # "CANCELLED"
                         /\ \A s \in Requests : req[s].pc = "pay" => req[s].payment # q.payment,
         q # Idle => \A s \in Requests \ {r} : req[s] # Idle => {q.pc, req[s].pc} \in Overlapping
  PROVE  DebtInv'
<1>1. /\ req' \in [Requests -> Request] /\ req'[r] = q
      /\ \A s \in Requests : s # r => req'[s] = req[s]
  BY DEF DebtInv, Kinds
<1>2. Kinds' /\ RowsAreBooked'
  BY <1>1 DEF DebtInv, Kinds, RowsAreBooked, Opened, Settling, Lost, PaymentDraft
<1>3. KindsApart'
  <2>1. \A a, b : {a, b} = {b, a}
    OBVIOUS
  <2> QED
    BY <1>1, <2>1 DEF DebtInv, KindsApart
<1>4. PaymentsApart'
  BY <1>1 DEF DebtInv, PaymentsApart
<1>5. \A o : SamePaid(o) /\ PaidOn(o)' = PaidOn(o) /\ Lost(o)' = Lost(o)
  BY PaidUnchanged, PaidSame DEF Lost
<1>6. \A o : Dead(o) => Dead(o)'
  BY <1>1, <1>5 DEF Dead, SamePaid
<1>7. \A o \in DOMAIN obligation' : Owing(o)'
  BY <1>5, <1>6 DEF DebtInv, Owing
<1>8. \A i \in Invoices : Billed(i)'
  <2> TAKE i \in Invoices
  <2>1. RaisedBy(i)' = RaisedBy(i)
    BY DEF RaisedBy
  <2>2. \A o : Matches(i, o) => Matches(i, o)'
    BY <1>5 DEF Matches
  <2> QED
    BY <1>6, <2>1, <2>2 DEF DebtInv, Billed
<1>9. \A s \in Requests : Sound(req[s])'
  <2> TAKE s \in Requests
  <2>1. PICK p : p = req'[s]
    OBVIOUS
  <2>2. Sound(p)
    BY <1>1, <2>1 DEF DebtInv
  <2>3. Sound(p)'
    BY <2>2 DEF Sound, RaisedBy, PaymentsOn
  <2> QED
    BY <2>1, <2>3, SoundAgain
<1> QED
  BY <1>2, <1>3, <1>4, <1>7, <1>8, <1>9 DEF DebtInv

-----------------------------------------------------------------------------
(* The readings.                                                           *)

LEMMA ReadPayKeeps ==
  ASSUME DebtInv, NEW r \in Requests, NEW p \in Payments, NEW o \in Obligations, NEW x \in Amounts,
         ReadPay(r, p, o, x)
  PROVE  DebtInv'
<1>1. PICK q : q = [pc |-> "pay", payment |-> p, obligation |-> o, amount |-> x]
  OBVIOUS
<1>2. /\ q \in Request /\ q.pc = "pay" /\ q.payment = p /\ q.obligation = o
  BY <1>1 DEF Request
<1>3. /\ p \notin DOMAIN payment /\ o \in DOMAIN obligation /\ obligation[o].status # "CANCELLED"
      /\ \A s \in Requests : req[s].pc = "pay" => req[s].payment # p
      /\ Admits(r, "pay")
      /\ UNCHANGED <<obligation, invoice, payment, stock, journals>>
  BY Zenon DEF ReadPay
<1>4. req' = [req EXCEPT ![r] = q]
  BY <1>1, Zenon DEF ReadPay
<1>5. \A s \in Requests \ {r} : req[s] # Idle => {q.pc, req[s].pc} \in Overlapping
  BY <1>2, <1>3 DEF Admits
<1>6. Sound(q)
  BY <1>2, <1>3 DEF Sound
<1> QED
  BY <1>2, <1>3, <1>4, <1>5, <1>6, ReadsKeep

LEMMA ReadUnpayKeeps ==
  ASSUME DebtInv, NEW r \in Requests, NEW p \in Payments, ReadUnpay(r, p)
  PROVE  DebtInv'
<1>1. PICK q : q = [pc |-> "unpay", payment |-> p]
  OBVIOUS
<1>2. q \in Request /\ q.pc = "unpay" /\ q.payment = p
  BY <1>1 DEF Request
<1>3. /\ p \in DOMAIN payment /\ ~payment[p].deleted /\ Admits(r, "unpay")
      /\ UNCHANGED <<obligation, invoice, payment, stock, journals>>
  BY Zenon DEF ReadUnpay
<1>4. req' = [req EXCEPT ![r] = q]
  BY <1>1, Zenon DEF ReadUnpay
<1>5. \A s \in Requests \ {r} : req[s] # Idle => {q.pc, req[s].pc} \in Overlapping
  BY <1>2, <1>3 DEF Admits
<1>6. Sound(q)
  BY <1>2, <1>3 DEF Sound
<1> QED
  BY <1>2, <1>3, <1>4, <1>5, <1>6, ReadsKeep

LEMMA ReadArchiveKeeps ==
  ASSUME DebtInv, NEW r \in Requests, NEW o \in Obligations, ReadArchive(r, o)
  PROVE  DebtInv'
<1>0. o \in DOMAIN obligation
  BY DEF ReadArchive
<1>1. PICK q : q = [pc |-> "archive", obligation |-> o, seen |-> obligation[o].status]
  OBVIOUS
<1>2. q \in Request /\ q.pc = "archive" /\ q.obligation = o /\ q.seen = obligation[o].status
  BY <1>0, <1>1, RowAt DEF Request, DebtInv
<1>3. /\ obligation[o].status # "PARTIAL" /\ Admits(r, "archive")
      /\ UNCHANGED <<obligation, invoice, payment, stock, journals>>
  BY Zenon DEF ReadArchive
<1>4. req' = [req EXCEPT ![r] = q]
  BY <1>1, Zenon DEF ReadArchive
<1>5. \A s \in Requests \ {r} : req[s] # Idle => {q.pc, req[s].pc} \in Overlapping
  BY <1>2, <1>3 DEF Admits
<1>6. Sound(q)
  BY <1>0, <1>2, <1>3 DEF Sound
<1> QED
  BY <1>2, <1>3, <1>4, <1>5, <1>6, ReadsKeep

(* An invoice that may be voided has no payment.                           *)
LEMMA Voidable ==
  ASSUME DebtInv, NEW i \in DOMAIN invoice, invoice[i].status # "VOID", invoice[i].paid <= 0
  PROVE  /\ invoice[i].status \in Sent \union {"DRAFT"}
         /\ \A o \in RaisedBy(i) : PaymentsOn(o) = {}
<1>1. Billed(i) /\ invoice[i].paid = 0 /\ invoice[i].status \in Sent \union {"DRAFT", "PAID"}
  BY BillAt DEF DebtInv, InvoiceStatuses, Sent
<1>2. invoice[i].status # "PAID"
  BY <1>1 DEF Billed
<1>3. ASSUME NEW o \in RaisedBy(i) PROVE PaymentsOn(o) = {}
  <2>1. PaidOn(o) <= 0
    BY <1>1, <1>2, <1>3 DEF Billed, Matches
  <2>2. Kinds
    BY DEF DebtInv
  <2>3. PaidOn(o) \in Nat /\ (PaymentsOn(o) = {} <=> PaidOn(o) = 0)
    BY <2>2, PaidType
  <2> QED
    BY <2>1, <2>3
<1> QED
  BY <1>1, <1>2, <1>3

LEMMA ReadInvoiceKeeps ==
  ASSUME DebtInv, NEW r \in Requests, NEW kind \in {"update", "send", "void", "delete"},
         NEW i \in Invoices, ReadInvoice(r, kind, i)
  PROVE  DebtInv'
<1>1. /\ i \in DOMAIN invoice /\ Allows(kind, invoice[i]) /\ Admits(r, kind)
      /\ UNCHANGED <<obligation, invoice, payment, stock, journals>>
  BY Zenon DEF ReadInvoice
<1>2. PICK q : q = IF kind \in {"send", "void"} THEN [pc |-> kind, invoice |-> i, seen |-> invoice[i]]
                                               ELSE [pc |-> kind, invoice |-> i]
  OBVIOUS
<1>3. req' = [req EXCEPT ![r] = q]
  BY <1>2, Zenon DEF ReadInvoice
<1>4. /\ q \in Request /\ q.pc = kind /\ q.invoice = i
      /\ kind \in {"send", "void"} => q.seen = invoice[i]
  BY <1>1, <1>2 DEF Request, DebtInv, Kinds
<1>5. \A s \in Requests \ {r} : req[s] # Idle => {q.pc, req[s].pc} \in Overlapping
  BY <1>1, <1>4 DEF Admits
<1>6. Sound(q)
  <2>1. CASE kind \in {"update", "send", "delete"}
    BY <1>1, <1>4, <2>1 DEF Sound, Allows
  <2>2. CASE kind = "void"
    <3>1. invoice[i].status # "VOID" /\ invoice[i].paid <= 0
      BY <1>1, <2>2 DEF Allows
    <3> QED
      BY <1>1, <1>4, <2>2, <3>1, Voidable DEF Sound
  <2> QED
    BY <2>1, <2>2
<1> QED
  BY <1>1, <1>3, <1>4, <1>5, <1>6, ReadsKeep

LEMMA AbandonKeeps ==
  ASSUME DebtInv, NEW r \in Requests, Abandon(r)
  PROVE  DebtInv'
<1>1. PICK q : q = Idle
  OBVIOUS
<1>2. q \in Request /\ q.pc = "idle"
  BY <1>1, IdleAt
<1>3. req' = [req EXCEPT ![r] = q] /\ UNCHANGED <<obligation, invoice, payment, stock, journals>>
  BY <1>1, Zenon DEF Abandon, Finish
<1>4. Sound(q)
  BY <1>2 DEF Sound
<1> QED
  BY <1>1, <1>2, <1>3, <1>4, ReadsKeep

-----------------------------------------------------------------------------
(* The rows that are created.                                              *)

LEMMA CreateObligationKeeps ==
  ASSUME DebtInv, NEW o \in Obligations, NEW t \in Types, NEW x \in Amounts, CreateObligation(o, t, x)
  PROVE  DebtInv'
<1>1. PICK row : row = [type |-> t, total |-> x, outstanding |-> x, status |-> "OPEN",
                        archived |-> FALSE, invoice |-> NoInvoice]
  OBVIOUS
<1>2. /\ row \in Obligation /\ row.total = x /\ row.outstanding = x /\ row.status = "OPEN"
      /\ row.type = t /\ row.invoice = NoInvoice /\ x \in Nat /\ x > 0
  BY <1>1, ReceivablesAssumption DEF Obligation, ObligationStatuses
<1>3. /\ o \notin DOMAIN obligation /\ obligation' = With(obligation, o, row)
      /\ journals' = PostIn(journals, OweKey(o), OweDraft(t, x))
      /\ invoice' = invoice /\ payment' = payment /\ stock' = stock /\ req' = req
  BY <1>1, Zenon DEF CreateObligation
<1>4. /\ DOMAIN obligation' = DOMAIN obligation \union {o} /\ obligation'[o] = row
      /\ \A u \in DOMAIN obligation : obligation'[u] = obligation[u] /\ u # o
  BY <1>3 DEF With
<1>5. /\ OweKey(o) \notin DOMAIN journals
      /\ DOMAIN journals' = DOMAIN journals \union {OweKey(o)}
      /\ journals'[OweKey(o)] = [status |-> "POSTED", draft |-> OweDraft(t, x)]
      /\ \A k : k # OweKey(o) => SameJournal(k)
  <2>1. OweKey(o) \notin DOMAIN journals
    BY <1>3 DEF DebtInv, RowsAreBooked, Opened
  <2> QED
    BY <1>3, <2>1, Posts
<1>6. NoNewPays /\ \A u : SamePaid(u)
  BY <1>3, PaidUnchanged DEF NoNewPays
<1>7. \A p \in DOMAIN payment : payment[p].obligation # o
  BY <1>3 DEF DebtInv, Kinds
<1>8. \A u \in DOMAIN obligation : Owing(u)'
  <2> TAKE u \in DOMAIN obligation
  <2>1. SameJournal(WriteOffKey(u))
    BY <1>5, KeysApart
  <2> QED
    BY <1>4, <1>6, <2>1, OwingStays DEF DebtInv
<1>9. Owing(o)'
  <2>1. PaymentsOn(o) = {}
    BY <1>7 DEF PaymentsOn
  <2>2. PaidOn(o)' = 0
    BY <1>6, <2>1, PaidSame, PaidType DEF DebtInv
  <2>3. WriteOffKey(o) \notin DOMAIN journals'
    BY <1>3, <1>5, KeysApart DEF DebtInv, RowsAreBooked, Opened, SameJournal
  <2> QED
    BY <1>2, <1>4, <2>2, <2>3 DEF Owing, Lost
<1>10. \A i \in Invoices : Billed(i)'
  <2> TAKE i \in Invoices
  <2>1. RaisedBy(i)' = RaisedBy(i)
    BY <1>2, <1>4, ReceivablesAssumption DEF RaisedBy
  <2> QED
    BY <1>3, <1>4, <1>6, <2>1, BilledStays DEF DebtInv, RaisedBy
<1>11. Kinds' /\ KindsApart' /\ PaymentsApart'
  BY <1>2, <1>3, <1>4 DEF DebtInv, Kinds, KindsApart, PaymentsApart
<1>12. RowsAreBooked'
  <2>1. DOMAIN journals' \subseteq Keys
    BY <1>5, KeysApart DEF DebtInv, RowsAreBooked
  <2>2. \A u : u # o => SameDebt(u)
    BY <1>4 DEF SameDebt
  <2>3. \A u \in Obligations : u # o => Opened(u)'
    BY <1>5, <2>2, KeysApart, OpenedStays DEF DebtInv, RowsAreBooked
  <2>4. Opened(o)'
    <3>1. WriteOffKey(o) \notin DOMAIN journals'
      BY <1>3, <1>5, KeysApart DEF DebtInv, RowsAreBooked, Opened, SameJournal
    <3> QED
      BY <1>2, <1>4, <1>5, <3>1 DEF Opened
  <2>5. \A p \in Payments : Settling(p)'
    BY <1>3, <1>5, <2>2, KeysApart, SettlingStays DEF DebtInv, RowsAreBooked
  <2> QED
    BY <2>1, <2>3, <2>4, <2>5 DEF RowsAreBooked
<1>13. \A s \in Requests : Sound(req[s])'
  <2> TAKE s \in Requests
  <2>1. PICK q : q = req[s]
    OBVIOUS
  <2>2. Sound(q) /\ req'[s] = q
    BY <1>3, <2>1 DEF DebtInv
  <2>3. \A i \in Invoices : RaisedBy(i)' = RaisedBy(i)
    BY <1>2, <1>4, ReceivablesAssumption DEF RaisedBy
  <2>4. q.pc = "archive" => obligation'[q.obligation] = obligation[q.obligation] /\ q.obligation \in DOMAIN obligation'
    BY <1>4, <2>2 DEF Sound
  <2>5. q.pc = "pay" => q.obligation \in DOMAIN obligation'
    BY <1>4, <2>2 DEF Sound
  <2>6. q.pc = "void" => q.invoice \in Invoices
    BY <2>1, RequestAt DEF DebtInv
  <2>7. Sound(q)'
    BY <1>3, <2>2, <2>3, <2>4, <2>5, <2>6 DEF Sound, PaymentsOn
  <2> QED
    BY <2>2, <2>7, SoundAgain
<1> QED
  BY <1>4, <1>8, <1>9, <1>10, <1>11, <1>12, <1>13 DEF DebtInv

LEMMA CreateInvoiceKeeps ==
  ASSUME DebtInv, NEW i \in Invoices, NEW x \in Amounts, CreateInvoice(i, x)
  PROVE  DebtInv'
<1>1. PICK row : row = [status |-> "DRAFT", total |-> x, paid |-> 0, due |-> x]
  OBVIOUS
<1>2. /\ row \in Invoice /\ row.status = "DRAFT" /\ row.total = x /\ row.paid = 0 /\ row.due = x
      /\ x \in Nat /\ x > 0
  BY <1>1, ReceivablesAssumption DEF Invoice, InvoiceStatuses
<1>3. /\ i \notin DOMAIN invoice /\ stock[i].out = 0
      /\ \A o \in DOMAIN obligation : obligation[o].invoice # i
      /\ obligation' = obligation /\ payment' = payment /\ stock' = stock
      /\ journals' = journals /\ req' = req
  BY Zenon DEF CreateInvoice
<1>4. invoice' = With(invoice, i, row)
  BY <1>1, Zenon DEF CreateInvoice
<1>5. /\ DOMAIN invoice' = DOMAIN invoice \union {i} /\ invoice'[i] = row
      /\ \A u \in DOMAIN invoice : invoice'[u] = invoice[u] /\ u # i
  BY <1>3, <1>4 DEF With
<1>6. NoNewPays /\ \A u : SamePaid(u) /\ SameJournal(u)
  BY <1>3, PaidUnchanged DEF NoNewPays, SameJournal
<1>7. \A o \in DOMAIN obligation' : Owing(o)'
  BY <1>3, <1>6, OwingStays DEF DebtInv
<1>8. Kinds' /\ KindsApart' /\ PaymentsApart' /\ RowsAreBooked'
  BY <1>2, <1>3, <1>5
     DEF DebtInv, Kinds, KindsApart, PaymentsApart, RowsAreBooked, Opened, Settling, Lost, PaymentDraft
<1>9. \A u \in Invoices : Billed(u)'
  <2> TAKE u \in Invoices
  <2>1. RaisedBy(u)' = RaisedBy(u) /\ RaisedBy(i) = {}
    BY <1>3 DEF RaisedBy
  <2>2. CASE u # i
    BY <1>3, <1>5, <1>6, <2>1, <2>2, BilledStays DEF DebtInv
  <2>3. CASE u = i
    <3>1. stock'[i].out = 0 /\ stock'[i].back = 0
      BY <1>3, StockAt DEF DebtInv, Billed
    <3> QED
      BY <1>2, <1>5, <2>1, <2>3, <3>1 DEF Billed, Sent
  <2> QED
    BY <2>2, <2>3
<1>10. \A s \in Requests : Sound(req[s])'
  <2> TAKE s \in Requests
  <2>1. PICK q : q = req[s]
    OBVIOUS
  <2>2. Sound(q) /\ req'[s] = q
    BY <1>3, <2>1 DEF DebtInv
  <2>3. \A u : RaisedBy(u)' = RaisedBy(u) /\ PaymentsOn(u)' = PaymentsOn(u)
    BY <1>3 DEF RaisedBy, PaymentsOn
  <2>4. RaisedBy(i) = {}
    BY <1>3 DEF RaisedBy
  <2>5. Sound(q)'
    BY <1>2, <1>3, <1>5, <2>2, <2>3, <2>4 DEF Sound
  <2> QED
    BY <2>2, <2>5, SoundAgain
<1> QED
  BY <1>7, <1>8, <1>9, <1>10 DEF DebtInv

-----------------------------------------------------------------------------
(* A payment made, and one taken back.                                     *)

(* What Settled leaves.                                                    *)
LEMMA SettledRow ==
  ASSUME Kinds, NEW o \in DOMAIN obligation, NEW y \in Nat, obligation' = Settled(o, y)
  PROVE  /\ DOMAIN obligation' = DOMAIN obligation
         /\ obligation'[o] \in Obligation /\ obligation'[o].outstanding = y
         /\ obligation'[o].status = "CANCELLED" <=> obligation[o].status = "CANCELLED"
         /\ obligation'[o].status = "PAID" => y = 0
         /\ obligation'[o].archived = obligation[o].archived
         /\ \A u : SameDebt(u)
         /\ \A u \in DOMAIN obligation : u # o => obligation'[u] = obligation[u]
<1>1. PICK st : st = ObligationStatus(obligation[o].total, y, obligation[o].status)
  OBVIOUS
<1>2. /\ st \in ObligationStatuses
      /\ st = "CANCELLED" <=> obligation[o].status = "CANCELLED"
      /\ st = "PAID" => y = 0
  BY <1>1, RowAt DEF ObligationStatus, ObligationStatuses
<1>3. PICK row : row = [obligation[o] EXCEPT !.outstanding = y, !.status = st]
  OBVIOUS
<1>4. obligation' = [obligation EXCEPT ![o] = row]
  BY <1>1, <1>3 DEF Settled
<1>5. /\ row \in Obligation /\ row.outstanding = y /\ row.status = st
      /\ row.archived = obligation[o].archived /\ row.type = obligation[o].type
      /\ row.total = obligation[o].total /\ row.invoice = obligation[o].invoice
  <2>1. obligation[o] \in Obligation
    BY DEF Kinds
  <2> QED
    BY <1>2, <1>3, <2>1 DEF Obligation
<1>6. /\ DOMAIN obligation' = DOMAIN obligation /\ obligation'[o] = row
      /\ \A u \in DOMAIN obligation : u # o => obligation'[u] = obligation[u]
  BY <1>4
<1>7. \A u : SameDebt(u)
  <2> TAKE u
  <2>1. CASE u = o
    BY <1>5, <1>6, <2>1 DEF SameDebt
  <2>2. CASE u # o
    BY <1>6, <2>2 DEF SameDebt
  <2> QED
    BY <2>1, <2>2
<1> QED
  BY <1>2, <1>5, <1>6, <1>7

(* What Synced leaves of the invoice of o, when it is in force.            *)
LEMMA SyncedRow ==
  ASSUME Kinds, NEW o \in DOMAIN obligation, NEW y \in Nat, invoice' = Synced(o, y),
         NEW i, i = obligation[o].invoice, i \in DOMAIN invoice,
         invoice[i].status \in Sent \union {"PAID"},
         invoice[i].total = obligation[o].total, y <= obligation[o].total
  PROVE  /\ DOMAIN invoice' = DOMAIN invoice
         /\ invoice'[i] \in Invoice /\ invoice'[i].total = invoice[i].total
         /\ invoice'[i].due = y /\ invoice'[i].paid = obligation[o].total - y
         /\ invoice'[i].status \in Sent \union {"PAID"}
         /\ invoice'[i].status = "PAID" => invoice'[i].paid > 0
         /\ \A u \in DOMAIN invoice : u # i => invoice'[u] = invoice[u]
<1>1. PICK t : t = invoice[i].total
  OBVIOUS
<1>2. t \in Nat /\ t > 0 /\ t = obligation[o].total /\ t - y \in Nat /\ t - y >= 0
  BY <1>1, BillAt
<1>3. PICK st : st = InvoiceStatus(t, y, invoice[i].status)
  OBVIOUS
<1>4. st \in Sent \union {"PAID"} /\ st \in InvoiceStatuses /\ (st = "PAID" => y = 0)
  BY <1>2, <1>3 DEF InvoiceStatus, Sent, InvoiceStatuses
<1>5. PICK row : row = [invoice[i] EXCEPT !.paid = t - y, !.due = y, !.status = st]
  OBVIOUS
<1>6. invoice' = [invoice EXCEPT ![i] = row]
  <2>1. ~(t - y < 0) /\ ~(y < 0)
    BY <1>2
  <2> QED
    BY <1>1, <1>3, <1>5, <2>1 DEF Synced
<1>7. /\ row \in Invoice /\ row.total = t /\ row.due = y /\ row.paid = t - y /\ row.status = st
  BY <1>1, <1>2, <1>4, <1>5 DEF Kinds, Invoice
<1>8. /\ DOMAIN invoice' = DOMAIN invoice /\ invoice'[i] = row
      /\ \A u \in DOMAIN invoice : u # i => invoice'[u] = invoice[u]
  BY <1>6
<1> QED
  BY <1>1, <1>2, <1>4, <1>7, <1>8

(* An obligation that is not dead was raised by no invoice that is there,  *)
(* or by one in force that agrees with it.                                 *)
LEMMA InForce ==
  ASSUME DebtInv, NEW o \in DOMAIN obligation, ~Dead(o), NEW i, i = obligation[o].invoice,
         i \in DOMAIN invoice
  PROVE  /\ i \in Invoices /\ o \in RaisedBy(i) /\ RaisedBy(i) = {o}
         /\ invoice[i].status \in Sent \union {"PAID"}
         /\ stock[i].out = 1 /\ stock[i].back = 0
         /\ Matches(i, o)
<1>1. i \in Invoices /\ o \in RaisedBy(i) /\ invoice[i].status \in InvoiceStatuses /\ Billed(i)
  BY BillAt DEF RaisedBy, DebtInv
<1>2. RaisedBy(i) = {o}
  BY <1>1 DEF Billed
<1>3. invoice[i].status \in Sent \union {"PAID"}
  BY <1>1 DEF Billed, InvoiceStatuses, Sent
<1> QED
  BY <1>1, <1>2, <1>3 DEF Billed

LEMMA OutstandingIs ==
  ASSUME DebtInv, NEW o \in DOMAIN obligation
  PROVE  /\ Lost(o) \in Nat /\ PaidOn(o) \in Nat
         /\ obligation[o].outstanding = obligation[o].total - PaidOn(o) - Lost(o)
         /\ obligation[o].outstanding + PaidOn(o) <= obligation[o].total
         /\ obligation[o].status # "CANCELLED" => Lost(o) = 0
<1>1. Lost(o) \in Nat
  BY RowAt DEF DebtInv, RowsAreBooked, Opened, Lost
<1>2. PaidOn(o) \in Nat
  BY PaidType DEF DebtInv
<1>3. Owing(o)
  BY DEF DebtInv
<1>4. /\ obligation[o].outstanding = obligation[o].total - PaidOn(o) - Lost(o)
      /\ obligation[o].status # "CANCELLED" => Lost(o) = 0
  BY <1>3 DEF Owing, Lost
<1>5. obligation[o].total \in Nat /\ obligation[o].outstanding \in Nat
  BY RowAt DEF DebtInv
<1> QED
  BY <1>1, <1>2, <1>4, <1>5

(* A step that changes what is outstanding on o, and the invoice of o with *)
(* it, moves no other obligation and no other invoice.                     *)
LEMMA OthersStay ==
  ASSUME DebtInv, NoNewPays, stock' = stock, NEW o \in DOMAIN obligation, ~Dead(o),
         DOMAIN obligation' = DOMAIN obligation, \A u : SameDebt(u),
         \A u \in DOMAIN obligation : u # o => obligation'[u] = obligation[u] /\ SamePaid(u),
         \A u : SameJournal(WriteOffKey(u)),
         DOMAIN invoice' = DOMAIN invoice,
         \A i \in DOMAIN invoice : i # obligation[o].invoice => invoice'[i] = invoice[i]
  PROVE  /\ \A u \in DOMAIN obligation : u # o => Owing(u)'
         /\ \A i \in Invoices : i # obligation[o].invoice \/ i \notin DOMAIN invoice => Billed(i)'
         /\ \A i : RaisedBy(i)' = RaisedBy(i)
<1>1. \A i : RaisedBy(i)' = RaisedBy(i)
  BY DEF RaisedBy, SameDebt
<1>2. \A u \in DOMAIN obligation : u # o => Owing(u)'
  BY OwingStays DEF DebtInv
<1>3. ASSUME NEW i \in Invoices, i # obligation[o].invoice
      PROVE  Billed(i)'
  <2>1. \A u \in RaisedBy(i) : u # o /\ u \in DOMAIN obligation
    BY <1>3 DEF RaisedBy
  <2> QED
    BY <1>1, <1>3, <2>1, BilledStays DEF DebtInv
<1>4. ASSUME NEW i \in Invoices, i \notin DOMAIN invoice
      PROVE  Billed(i)'
  BY <1>1, <1>4 DEF DebtInv, Billed
<1> QED
  BY <1>1, <1>2, <1>3, <1>4

LEMMA CommitPayKeeps ==
  ASSUME HarmsApart, DebtInv, NEW r \in Requests, CommitPay(r)
  PROVE  DebtInv'
<1>1. PICK o, p, x : o = req[r].obligation /\ p = req[r].payment /\ x = req[r].amount
  OBVIOUS
<1>2. PICK y : y = obligation[o].outstanding - x
  OBVIOUS
<1>3. PICK row : row = [obligation |-> o, amount |-> x, deleted |-> FALSE]
  OBVIOUS
<1>4. /\ req[r].pc = "pay" /\ Payable(o, x)
      /\ obligation' = Settled(o, y) /\ invoice' = Synced(o, y)
      /\ journals' = PostIn(journals, PaymentKey(p), PaymentDraft(o, x))
      /\ Finish(r) /\ stock' = stock
  BY <1>1, <1>2, Zenon DEF CommitPay
<1>5. payment' = With(payment, p, row)
  BY <1>1, <1>3, Zenon DEF CommitPay
<1>6. /\ o \in DOMAIN obligation /\ p \in Payments /\ p \notin DOMAIN payment
      /\ x \in Nat /\ x > 0 /\ x \in Amounts
  <2>1. Sound(req[r]) /\ Kinds
    BY DEF DebtInv
  <2>2. o \in DOMAIN obligation /\ p \notin DOMAIN payment
    BY <1>1, <1>4, <2>1 DEF Sound
  <2>3. p \in Payments /\ x \in Amounts
    BY <1>1, <1>4, <2>1, RequestAt
  <2> QED
    BY <2>2, <2>3, ReceivablesAssumption
<1>7. /\ row \in Payment /\ row.obligation = o /\ row.amount = x /\ ~row.deleted /\ row.deleted = FALSE
  BY <1>3, <1>6, RowAt DEF Payment, DebtInv
<1>8. y \in Nat /\ y + x = obligation[o].outstanding
  BY <1>2, <1>4, <1>6, RowAt DEF Payable, DebtInv
<1>9. ~Dead(o)
  BY <1>1, <1>4 DEF Dead
<1>10. /\ DOMAIN obligation' = DOMAIN obligation
       /\ obligation'[o] \in Obligation /\ obligation'[o].outstanding = y
       /\ obligation'[o].status = "CANCELLED" <=> obligation[o].status = "CANCELLED"
       /\ obligation'[o].status = "PAID" => y = 0
       /\ obligation'[o].archived = obligation[o].archived
       /\ \A u : SameDebt(u)
       /\ \A u \in DOMAIN obligation : u # o => obligation'[u] = obligation[u]
  BY <1>4, <1>6, <1>8, SettledRow DEF DebtInv
<1>11. /\ PaymentsOn(o)' = PaymentsOn(o) \union {p} /\ PaidOn(o)' = PaidOn(o) + x
       /\ \A u : u # o => SamePaid(u)
  BY <1>5, <1>6, <1>7, PaidMore DEF DebtInv
<1>12. /\ DOMAIN payment' = DOMAIN payment \union {p} /\ payment'[p] = row
       /\ \A u \in DOMAIN payment : payment'[u] = payment[u] /\ u # p
  BY <1>5, <1>6 DEF With
<1>13. /\ PaymentKey(p) \notin DOMAIN journals
       /\ DOMAIN journals' = DOMAIN journals \union {PaymentKey(p)}
       /\ journals'[PaymentKey(p)] = [status |-> "POSTED", draft |-> PaymentDraft(o, x)]
       /\ \A k : k # PaymentKey(p) => SameJournal(k)
  <2>1. PaymentKey(p) \notin DOMAIN journals
    BY <1>6 DEF DebtInv, RowsAreBooked, Settling
  <2> QED
    BY <1>4, <2>1, Posts
<1>14. /\ NoNewPays /\ req' \in [Requests -> Request] /\ req'[r] = Idle /\ req'[r].pc = "idle"
       /\ \A s \in Requests : s # r => req'[s] = req[s]
  BY <1>4, Finished DEF DebtInv
<1>15. PICK i : i = obligation[o].invoice
  OBVIOUS
<1>16. ASSUME i \in DOMAIN invoice
       PROVE  /\ i \in Invoices /\ RaisedBy(i) = {o}
              /\ stock[i].out = 1 /\ stock[i].back = 0
              /\ Matches(i, o)
              /\ invoice[i].status \in Sent \union {"PAID"}
              /\ DOMAIN invoice' = DOMAIN invoice
              /\ invoice'[i] \in Invoice /\ invoice'[i].total = invoice[i].total
              /\ invoice'[i].due = y /\ invoice'[i].paid = obligation[o].total - y
              /\ invoice'[i].status \in Sent \union {"PAID"}
              /\ invoice'[i].status = "PAID" => invoice'[i].paid > 0
              /\ \A u \in DOMAIN invoice : u # i => invoice'[u] = invoice[u]
  <2>1. /\ i \in Invoices /\ RaisedBy(i) = {o} /\ invoice[i].status \in Sent \union {"PAID"}
        /\ stock[i].out = 1 /\ stock[i].back = 0 /\ Matches(i, o)
    BY <1>6, <1>9, <1>15, <1>16, InForce
  <2>2. invoice[i].total = obligation[o].total /\ y <= obligation[o].total
    BY <1>6, <1>8, <2>1, OutstandingIs, RowAt DEF Matches, DebtInv
  <2>3. invoice' = Synced(o, y)
    BY <1>4
  <2> QED
    BY <1>6, <1>8, <1>15, <1>16, <2>1, <2>2, <2>3, SyncedRow DEF DebtInv
<1>17. i \notin DOMAIN invoice => invoice' = invoice
  BY <1>4, <1>15 DEF Synced
<1>18. /\ DOMAIN invoice' = DOMAIN invoice
       /\ \A u \in DOMAIN invoice : u # i => invoice'[u] = invoice[u]
  BY <1>16, <1>17
<1>19. \A u : SameJournal(WriteOffKey(u)) /\ SameJournal(OweKey(u))
  BY <1>13, KeysApart
<1>20. /\ \A u \in DOMAIN obligation : u # o => Owing(u)'
       /\ \A u \in Invoices : u # i \/ u \notin DOMAIN invoice => Billed(u)'
       /\ \A u : RaisedBy(u)' = RaisedBy(u)
  BY <1>4, <1>6, <1>9, <1>10, <1>11, <1>14, <1>15, <1>18, <1>19, OthersStay
<1>21. /\ obligation[o].total \in Nat /\ obligation[o].total > 0 /\ obligation'[o].total = obligation[o].total
       /\ PaidOn(o) \in Nat /\ Lost(o) \in Nat /\ Lost(o)' = Lost(o)
       /\ obligation[o].outstanding = obligation[o].total - PaidOn(o) - Lost(o)
  BY <1>6, <1>10, <1>19, OutstandingIs, RowAt DEF DebtInv, SameDebt, SameJournal, Lost
<1>22. Owing(o)'
  <2>1. Owing(o)
    BY <1>6 DEF DebtInv
  <2>2. obligation'[o].outstanding = obligation'[o].total - PaidOn(o)' - Lost(o)'
    BY <1>6, <1>8, <1>10, <1>11, <1>21
  <2>3. obligation'[o].status # "CANCELLED" => WriteOffKey(o) \notin DOMAIN journals'
    BY <1>10, <1>19, <2>1 DEF Owing, SameJournal
  <2>4. ~(obligation'[o].status = "CANCELLED" /\ ~obligation'[o].archived)
    BY <1>9, <1>10, <2>1 DEF Owing
  <2> QED
    BY <1>10, <2>2, <2>3, <2>4 DEF Owing
<1>23. i \in DOMAIN invoice => Billed(i)'
  <2> SUFFICES ASSUME i \in DOMAIN invoice PROVE Billed(i)'
    OBVIOUS
  <2>1. Matches(i, o)'
    <3>1. PaidOn(o)' <= invoice'[i].paid
      BY <1>6, <1>8, <1>11, <1>16, <1>21
    <3> QED
      BY <1>10, <1>16, <1>21, <3>1 DEF Matches
  <2>2. RaisedBy(i)' = {o} /\ stock'[i] = stock[i]
    BY <1>4, <1>16, <1>20
  <2>3. invoice'[i].status \notin {"DRAFT", "VOID"}
    BY <1>16 DEF Sent
  <2> QED
    BY <1>16, <2>1, <2>2, <2>3 DEF Billed
<1>24. Kinds'
  <2>1. \A u \in DOMAIN obligation' : obligation'[u] \in Obligation /\ obligation'[u].total > 0
    BY <1>10, <1>21 DEF DebtInv, Kinds
  <2>2. \A u \in DOMAIN invoice' : invoice'[u] \in Invoice /\ invoice'[u].total > 0
    BY <1>16, <1>17, <1>18 DEF DebtInv, Kinds
  <2>3. /\ DOMAIN payment' \subseteq Payments /\ IsFiniteSet(DOMAIN payment')
        /\ \A u \in DOMAIN payment' : /\ payment'[u] \in Payment /\ payment'[u].amount > 0
                                      /\ payment'[u].obligation \in DOMAIN obligation'
    BY <1>6, <1>7, <1>10, <1>12, FS_AddElement DEF DebtInv, Kinds
  <2> QED
    BY <1>4, <1>10, <1>14, <1>18, <2>1, <2>2, <2>3 DEF DebtInv, Kinds
<1>25. KindsApart' /\ PaymentsApart'
  BY <1>14, RequestsApart DEF DebtInv
<1>26. RowsAreBooked'
  <2>1. DOMAIN journals' \subseteq Keys
    BY <1>6, <1>13, KeysApart DEF DebtInv, RowsAreBooked
  <2>2. \A u \in Obligations : Opened(u)'
    BY <1>10, <1>19, OpenedStays DEF DebtInv, RowsAreBooked
  <2>3. \A u \in Payments : u # p => Settling(u)'
    BY <1>10, <1>12, <1>13, KeysApart, SettlingStays DEF DebtInv, RowsAreBooked
  <2>4. Settling(p)'
    <3>1. PaymentDraft(o, x)' = PaymentDraft(o, x)
      BY <1>6, <1>10 DEF PaymentDraft, SameDebt
    <3> QED
      BY <1>7, <1>12, <1>13, <3>1 DEF Settling
  <2> QED
    BY <2>1, <2>2, <2>3, <2>4 DEF RowsAreBooked
<1>27. \A s \in Requests : Sound(req[s])'
  <2> TAKE s \in Requests
  <2>1. CASE s = r
    <3>1. Sound(Idle)'
      BY IdleAt DEF Sound
    <3> QED
      BY <1>14, <2>1, <3>1, SoundAgain
  <2>2. CASE s # r
    <3>1. PICK q : q = req[s]
      OBVIOUS
    <3>2. Sound(q) /\ req'[s] = q
      BY <1>14, <2>2, <3>1 DEF DebtInv
    <3>3. q.pc # "void"
      BY <1>4, <2>2, <3>1, Apart DEF DebtInv
    <3>4. q.pc = "pay" => q.payment # p
      BY <1>1, <1>4, <2>2, <3>1 DEF DebtInv, PaymentsApart
    <3>5. q.pc = "archive" /\ obligation[q.obligation].status = "PAID" => q.obligation # o
      <4>1. obligation[o].status # "PAID"
        BY <1>6, <1>8 DEF DebtInv, Owing
      <4> QED
        BY <4>1
    <3>6. q.pc \in {"send", "update", "delete"} /\ q.invoice \in DOMAIN invoice =>
            invoice[q.invoice].status \in {"DRAFT", "VOID"}
      BY <3>2 DEF Sound
    <3>7. q.pc \in {"send", "update", "delete"} /\ q.invoice \in DOMAIN invoice =>
            invoice'[q.invoice] = invoice[q.invoice]
      BY <1>16, <1>17, <3>6 DEF Sent
    <3>8. q.pc = "archive" => Sound(q)'
      BY <1>10, <3>2, <3>5 DEF Sound
    <3>9. q.pc \in {"pay", "unpay"} => Sound(q)'
      BY <1>10, <1>12, <3>2, <3>4 DEF Sound
    <3>10. q.pc \in {"send", "update", "delete"} => Sound(q)'
      BY <1>18, <3>2, <3>7 DEF Sound
    <3>11. q.pc \notin {"archive", "pay", "unpay", "send", "update", "delete"} => Sound(q)'
      BY <3>3 DEF Sound
    <3> QED
      BY <3>2, <3>8, <3>9, <3>10, <3>11, SoundAgain
  <2> QED
    BY <2>1, <2>2
<1> QED
  BY <1>10, <1>20, <1>22, <1>23, <1>24, <1>25, <1>26, <1>27 DEF DebtInv

LEMMA CommitUnpayKeeps ==
  ASSUME HarmsApart, DebtInv, NEW r \in Requests, CommitUnpay(r)
  PROVE  DebtInv'
<1>1. PICK p, o, x : p = req[r].payment /\ o = payment[p].obligation /\ x = payment[p].amount
  OBVIOUS
<1>2. PICK y : y = obligation[o].outstanding + x
  OBVIOUS
<1>3. req[r].pc = "unpay" /\ Finish(r) /\ stock' = stock
  BY Zenon DEF CommitUnpay
<1>4. /\ p \in DOMAIN payment /\ ~payment[p].deleted /\ p \in Payments
      /\ o \in DOMAIN obligation /\ x \in Nat /\ x > 0
  <2>1. p \in DOMAIN payment /\ ~payment[p].deleted
    BY <1>1, <1>3 DEF DebtInv, Sound
  <2> QED
    BY <1>1, <2>1, PaymentAt DEF DebtInv
<1>5. p \in PaymentsOn(o)
  BY <1>1, <1>4 DEF PaymentsOn
<1>6. /\ obligation[o].total \in Nat /\ obligation[o].total > 0 /\ obligation[o].outstanding \in Nat
      /\ PaidOn(o) \in Nat /\ Lost(o) \in Nat /\ x <= PaidOn(o)
      /\ obligation[o].outstanding = obligation[o].total - PaidOn(o) - Lost(o)
  BY <1>1, <1>4, <1>5, OutstandingIs, PaidType, RowAt DEF DebtInv
<1>7. y \in Nat /\ y > 0 /\ y <= obligation[o].total /\ ~(y > obligation[o].total)
  BY <1>2, <1>4, <1>6
<1>8. /\ obligation' = Settled(o, y) /\ invoice' = Synced(o, y)
      /\ journals' = ReverseIn(journals, PaymentKey(p))
      /\ payment' = [payment EXCEPT ![p].deleted = TRUE]
  BY <1>1, <1>2, <1>7 DEF CommitUnpay
<1>9. ~Dead(o)
  BY <1>5 DEF Dead
<1>10. /\ DOMAIN obligation' = DOMAIN obligation
       /\ obligation'[o] \in Obligation /\ obligation'[o].outstanding = y
       /\ obligation'[o].status = "CANCELLED" <=> obligation[o].status = "CANCELLED"
       /\ obligation'[o].status = "PAID" => y = 0
       /\ obligation'[o].archived = obligation[o].archived
       /\ \A u : SameDebt(u)
       /\ \A u \in DOMAIN obligation : u # o => obligation'[u] = obligation[u]
  BY <1>4, <1>7, <1>8, SettledRow DEF DebtInv
<1>11. /\ PaymentsOn(o)' = PaymentsOn(o) \ {p} /\ PaidOn(o)' = PaidOn(o) - x
       /\ \A u : u # o => SamePaid(u)
  BY <1>1, <1>4, <1>8, PaidLess DEF DebtInv
<1>12. /\ DOMAIN payment' = DOMAIN payment /\ payment'[p] \in Payment
       /\ payment'[p].deleted = TRUE /\ payment'[p].obligation = o /\ payment'[p].amount = x
       /\ \A u \in DOMAIN payment : u # p => payment'[u] = payment[u]
  <2>1. PICK row : row = [payment[p] EXCEPT !.deleted = TRUE]
    OBVIOUS
  <2>2. payment' = [payment EXCEPT ![p] = row]
    BY <1>8, <2>1
  <2>3. row \in Payment /\ row.deleted = TRUE /\ row.obligation = o /\ row.amount = x
    BY <1>1, <1>4, <2>1 DEF DebtInv, Kinds, Payment
  <2> QED
    BY <1>4, <2>2, <2>3
<1>13. /\ DOMAIN journals' = DOMAIN journals
       /\ journals'[PaymentKey(p)] = [status |-> "REVERSED", draft |-> PaymentDraft(o, x)]
       /\ \A k : k # PaymentKey(p) => SameJournal(k)
  <2>1. /\ PaymentKey(p) \in DOMAIN journals
        /\ journals[PaymentKey(p)] = [status |-> "POSTED", draft |-> PaymentDraft(o, x)]
    BY <1>1, <1>4 DEF DebtInv, RowsAreBooked, Settling
  <2>2. PICK j : j = [journals[PaymentKey(p)] EXCEPT !.status = "REVERSED"]
    OBVIOUS
  <2>3. j = [status |-> "REVERSED", draft |-> PaymentDraft(o, x)]
    BY <2>1, <2>2
  <2>4. journals' = [journals EXCEPT ![PaymentKey(p)] = j]
    BY <1>8, <2>1, <2>2 DEF ReverseIn, IsPosted
  <2> QED
    BY <2>1, <2>3, <2>4 DEF SameJournal
<1>14. /\ NoNewPays /\ req' \in [Requests -> Request] /\ req'[r] = Idle /\ req'[r].pc = "idle"
       /\ \A s \in Requests : s # r => req'[s] = req[s]
  BY <1>3, Finished DEF DebtInv
<1>15. PICK i : i = obligation[o].invoice
  OBVIOUS
<1>16. ASSUME i \in DOMAIN invoice
       PROVE  /\ i \in Invoices /\ RaisedBy(i) = {o}
              /\ stock[i].out = 1 /\ stock[i].back = 0
              /\ Matches(i, o)
              /\ invoice[i].status \in Sent \union {"PAID"}
              /\ DOMAIN invoice' = DOMAIN invoice
              /\ invoice'[i] \in Invoice /\ invoice'[i].total = invoice[i].total
              /\ invoice'[i].due = y /\ invoice'[i].paid = obligation[o].total - y
              /\ invoice'[i].status \in Sent \union {"PAID"}
              /\ invoice'[i].status = "PAID" => invoice'[i].paid > 0
              /\ \A u \in DOMAIN invoice : u # i => invoice'[u] = invoice[u]
  <2>1. /\ i \in Invoices /\ RaisedBy(i) = {o} /\ invoice[i].status \in Sent \union {"PAID"}
        /\ stock[i].out = 1 /\ stock[i].back = 0 /\ Matches(i, o)
    BY <1>4, <1>9, <1>15, <1>16, InForce
  <2>2. invoice[i].total = obligation[o].total
    BY <2>1 DEF Matches
  <2>3. invoice' = Synced(o, y)
    BY <1>8
  <2> QED
    BY <1>4, <1>7, <1>15, <1>16, <2>1, <2>2, <2>3, SyncedRow DEF DebtInv
<1>17. i \notin DOMAIN invoice => invoice' = invoice
  BY <1>8, <1>15 DEF Synced
<1>18. /\ DOMAIN invoice' = DOMAIN invoice
       /\ \A u \in DOMAIN invoice : u # i => invoice'[u] = invoice[u]
  BY <1>16, <1>17
<1>19. \A u : SameJournal(WriteOffKey(u)) /\ SameJournal(OweKey(u))
  BY <1>13, KeysApart
<1>20. /\ \A u \in DOMAIN obligation : u # o => Owing(u)'
       /\ \A u \in Invoices : u # i \/ u \notin DOMAIN invoice => Billed(u)'
       /\ \A u : RaisedBy(u)' = RaisedBy(u)
  BY <1>3, <1>4, <1>9, <1>10, <1>11, <1>14, <1>15, <1>18, <1>19, OthersStay
<1>21. obligation'[o].total = obligation[o].total /\ Lost(o)' = Lost(o)
  BY <1>4, <1>10, <1>19 DEF SameDebt, SameJournal, Lost
<1>22. Owing(o)'
  <2>1. Owing(o)
    BY <1>4 DEF DebtInv
  <2>2. obligation'[o].outstanding = obligation'[o].total - PaidOn(o)' - Lost(o)'
    BY <1>2, <1>4, <1>6, <1>10, <1>11, <1>21
  <2>3. obligation'[o].status # "CANCELLED" => WriteOffKey(o) \notin DOMAIN journals'
    BY <1>10, <1>19, <2>1 DEF Owing, SameJournal
  <2>4. ~(obligation'[o].status = "CANCELLED" /\ ~obligation'[o].archived)
    BY <1>9, <1>10, <2>1 DEF Owing
  <2> QED
    BY <1>10, <2>2, <2>3, <2>4 DEF Owing
<1>23. i \in DOMAIN invoice => Billed(i)'
  <2> SUFFICES ASSUME i \in DOMAIN invoice PROVE Billed(i)'
    OBVIOUS
  <2>1. Matches(i, o)'
    <3>1. PaidOn(o)' <= invoice'[i].paid
      BY <1>2, <1>4, <1>6, <1>11, <1>16
    <3> QED
      BY <1>10, <1>16, <1>21, <3>1 DEF Matches
  <2>2. RaisedBy(i)' = {o} /\ stock'[i] = stock[i]
    BY <1>3, <1>16, <1>20
  <2>3. invoice'[i].status \notin {"DRAFT", "VOID"}
    BY <1>16 DEF Sent
  <2> QED
    BY <1>16, <2>1, <2>2, <2>3 DEF Billed
<1>24. Kinds'
  <2>1. \A u \in DOMAIN obligation' : obligation'[u] \in Obligation /\ obligation'[u].total > 0
    BY <1>6, <1>10, <1>21 DEF DebtInv, Kinds
  <2>2. \A u \in DOMAIN invoice' : invoice'[u] \in Invoice /\ invoice'[u].total > 0
    BY <1>16, <1>17, <1>18 DEF DebtInv, Kinds
  <2>3. /\ DOMAIN payment' \subseteq Payments /\ IsFiniteSet(DOMAIN payment')
        /\ \A u \in DOMAIN payment' : /\ payment'[u] \in Payment /\ payment'[u].amount > 0
                                      /\ payment'[u].obligation \in DOMAIN obligation'
    BY <1>4, <1>10, <1>12 DEF DebtInv, Kinds
  <2> QED
    BY <1>3, <1>10, <1>14, <1>18, <2>1, <2>2, <2>3 DEF DebtInv, Kinds
<1>25. KindsApart' /\ PaymentsApart'
  BY <1>14, RequestsApart DEF DebtInv
<1>26. RowsAreBooked'
  <2>1. DOMAIN journals' \subseteq Keys
    BY <1>13 DEF DebtInv, RowsAreBooked
  <2>2. \A u \in Obligations : Opened(u)'
    BY <1>10, <1>19, OpenedStays DEF DebtInv, RowsAreBooked
  <2>3. \A u \in Payments : u # p => Settling(u)'
    BY <1>10, <1>12, <1>13, KeysApart, SettlingStays DEF DebtInv, RowsAreBooked
  <2>4. Settling(p)'
    <3>1. PaymentDraft(o, x)' = PaymentDraft(o, x)
      BY <1>4, <1>10 DEF PaymentDraft, SameDebt
    <3>2. PaymentKey(p) \in DOMAIN journals
      BY <1>4 DEF DebtInv, RowsAreBooked, Settling
    <3> QED
      BY <1>4, <1>12, <1>13, <3>1, <3>2 DEF Settling
  <2> QED
    BY <2>1, <2>2, <2>3, <2>4 DEF RowsAreBooked
<1>27. \A s \in Requests : Sound(req[s])'
  <2> TAKE s \in Requests
  <2>1. CASE s = r
    <3>1. Sound(Idle)'
      BY IdleAt DEF Sound
    <3> QED
      BY <1>14, <2>1, <3>1, SoundAgain
  <2>2. CASE s # r
    <3>1. PICK q : q = req[s]
      OBVIOUS
    <3>2. Sound(q) /\ req'[s] = q
      BY <1>14, <2>2, <3>1 DEF DebtInv
    <3>3. q.pc \notin {"unpay", "archive"}
      BY <1>3, <2>2, <3>1, Apart DEF DebtInv
    <3>4. q.pc = "pay" => Sound(q)'
      BY <1>10, <1>12, <3>2 DEF Sound
    <3>5. q.pc \in {"send", "update", "delete"} /\ q.invoice \in DOMAIN invoice =>
            invoice[q.invoice].status \in {"DRAFT", "VOID"}
      BY <3>2 DEF Sound
    <3>6. q.pc \in {"send", "update", "delete"} /\ q.invoice \in DOMAIN invoice =>
            invoice'[q.invoice] = invoice[q.invoice]
      BY <1>16, <1>17, <3>5 DEF Sent
    <3>7. q.pc \in {"send", "update", "delete"} => Sound(q)'
      BY <1>18, <3>2, <3>6 DEF Sound
    <3>8. ASSUME q.pc = "void" PROVE Sound(q)'
      <4>1. q.invoice \in DOMAIN invoice => q.invoice # i /\ invoice'[q.invoice] = invoice[q.invoice]
        BY <1>5, <1>16, <1>18, <3>2, <3>8 DEF Sound
      <4>2. q.invoice \in DOMAIN invoice => \A u \in RaisedBy(q.invoice) : PaymentsOn(u)' = {}
        <5> SUFFICES ASSUME q.invoice \in DOMAIN invoice, NEW u \in RaisedBy(q.invoice)
                     PROVE  PaymentsOn(u)' = {}
          OBVIOUS
        <5>1. PaymentsOn(u) = {}
          BY <3>2, <3>8 DEF Sound
        <5> QED
          BY <1>5, <1>11, <5>1 DEF SamePaid
      <4> QED
        BY <1>18, <1>20, <3>2, <3>8, <4>1, <4>2 DEF Sound
    <3>9. q.pc \notin {"archive", "pay", "unpay", "send", "update", "delete", "void"} => Sound(q)'
      BY DEF Sound
    <3> QED
      BY <3>2, <3>3, <3>4, <3>7, <3>8, <3>9, SoundAgain
  <2> QED
    BY <2>1, <2>2
<1> QED
  BY <1>10, <1>20, <1>22, <1>23, <1>24, <1>25, <1>26, <1>27 DEF DebtInv
-----------------------------------------------------------------------------
(* An obligation is closed, and what is outstanding on it written off.     *)

LEMMA Closes ==
  ASSUME DebtInv, NEW o \in DOMAIN obligation, NEW row, row = Cancelled(obligation[o]),
         NEW js, js = WrittenOff(journals, o), journals' = js, SamePaid(o)
  PROVE  /\ row \in Obligation /\ row.status = "CANCELLED" /\ row.archived = obligation[o].archived
         /\ row.type = obligation[o].type /\ row.total = obligation[o].total
         /\ row.invoice = obligation[o].invoice
         /\ \A k : k # WriteOffKey(o) => SameJournal(k)
         /\ DOMAIN journals' \subseteq DOMAIN journals \union {WriteOffKey(o)}
         /\ WriteOffKey(o) \in DOMAIN journals' =>
              /\ Lost(o)' \in Nat
              /\ journals'[WriteOffKey(o)] =
                   [status |-> "POSTED", draft |-> WriteOffDraft(row.type, Lost(o)')]
         /\ row.outstanding = row.total - PaidOn(o)' - Lost(o)'
         /\ ~row.archived => row.outstanding = 0
<1>1. /\ obligation[o] \in Obligation /\ obligation[o].outstanding \in Nat /\ obligation[o].total \in Nat
      /\ obligation[o].type \in ObligationTypes
  BY RowAt DEF DebtInv, Kinds
<1>2. PaidOn(o)' = PaidOn(o) /\ PaidOn(o) \in Nat /\ Owing(o) /\ Opened(o)
  BY PaidSame, OutstandingIs, RowAt DEF DebtInv, RowsAreBooked
<1>3. CASE obligation[o].status = "CANCELLED"
  <2>1. row = obligation[o] /\ js = journals
    BY <1>3 DEF Cancelled, WrittenOff
  <2>2. Lost(o)' = Lost(o) /\ \A k : SameJournal(k)
    BY <2>1 DEF Lost, SameJournal
  <2>3. row.outstanding = row.total - PaidOn(o)' - Lost(o)' /\ (~row.archived => row.outstanding = 0)
    BY <1>2, <1>3, <2>1, <2>2 DEF Owing
  <2>4. WriteOffKey(o) \in DOMAIN journals' =>
          /\ Lost(o)' \in Nat
          /\ journals'[WriteOffKey(o)] = [status |-> "POSTED", draft |-> WriteOffDraft(row.type, Lost(o)')]
    BY <1>2, <2>1, <2>2 DEF Opened
  <2> QED
    BY <1>1, <1>3, <2>1, <2>2, <2>3, <2>4
<1>4. CASE obligation[o].status # "CANCELLED"
  <2>1. row = [obligation[o] EXCEPT !.status = "CANCELLED", !.outstanding = 0]
    BY <1>4 DEF Cancelled
  <2>2. /\ row \in Obligation /\ row.status = "CANCELLED" /\ row.archived = obligation[o].archived
        /\ row.type = obligation[o].type /\ row.total = obligation[o].total
        /\ row.invoice = obligation[o].invoice /\ row.outstanding = 0
    <3>1. PICK st, y : st = "CANCELLED" /\ y = 0
      OBVIOUS
    <3>2. st \in ObligationStatuses /\ y \in Nat
      BY <3>1 DEF ObligationStatuses
    <3>3. row = [obligation[o] EXCEPT !.status = st, !.outstanding = y]
      BY <2>1, <3>1
    <3>4. /\ row \in Obligation /\ row.status = st /\ row.archived = obligation[o].archived
          /\ row.type = obligation[o].type /\ row.total = obligation[o].total
          /\ row.invoice = obligation[o].invoice /\ row.outstanding = y
      BY <1>1, <3>2, <3>3 DEF Obligation
    <3> QED
      BY <3>1, <3>4
  <2>3. WriteOffKey(o) \notin DOMAIN journals /\ Lost(o) = 0
    BY <1>2, <1>4 DEF Owing, Lost
  <2>4. obligation[o].outstanding = obligation[o].total - PaidOn(o)
    BY <1>1, <1>2, <2>3 DEF Owing
  <2>5. CASE obligation[o].outstanding <= 0
    <3>1. js = journals
      BY <2>5 DEF WrittenOff
    <3>2. Lost(o)' = 0 /\ \A k : SameJournal(k)
      BY <2>3, <3>1 DEF Lost, SameJournal
    <3>3. row.outstanding = row.total - PaidOn(o)' - Lost(o)'
      BY <1>1, <1>2, <2>2, <2>4, <2>5, <3>2
    <3> QED
      BY <2>2, <2>3, <3>1, <3>2, <3>3
  <2>6. CASE ~(obligation[o].outstanding <= 0)
    <3>1. PICK d : d = WriteOffDraft(obligation[o].type, obligation[o].outstanding)
      OBVIOUS
    <3>2. journals' = PostIn(journals, WriteOffKey(o), d)
      BY <1>4, <2>3, <2>6, <3>1 DEF WrittenOff
    <3>3. /\ DOMAIN journals' = DOMAIN journals \union {WriteOffKey(o)}
          /\ journals'[WriteOffKey(o)] = [status |-> "POSTED", draft |-> d]
          /\ \A k : k # WriteOffKey(o) => SameJournal(k)
      BY <2>3, <3>2, Posts
    <3>4. Lost(o)' = obligation[o].outstanding
      BY <3>1, <3>3 DEF Lost, WriteOffDraft
    <3>5. row.outstanding = row.total - PaidOn(o)' - Lost(o)'
      BY <1>1, <1>2, <2>2, <2>4, <3>4
    <3> QED
      BY <1>1, <2>2, <3>1, <3>3, <3>4, <3>5
  <2> QED
    BY <2>5, <2>6
<1> QED
  BY <1>3, <1>4

(* The step leaves o as it was but for its status, its amount and the      *)
(* journal that writes it off; everything but o and its invoice stays.     *)
LEMMA ClosedRows ==
  ASSUME DebtInv, payment' = payment, NEW o \in DOMAIN obligation,
         DOMAIN obligation' = DOMAIN obligation,
         \A u \in DOMAIN obligation : u # o => obligation'[u] = obligation[u],
         SameDebt(o), \A k : k # WriteOffKey(o) => SameJournal(k),
         DOMAIN journals' \subseteq DOMAIN journals \union {WriteOffKey(o)},
         WriteOffKey(o) \in DOMAIN journals' =>
           /\ Lost(o)' \in Nat
           /\ journals'[WriteOffKey(o)] =
                [status |-> "POSTED", draft |-> WriteOffDraft(obligation'[o].type, Lost(o)')]
  PROVE  RowsAreBooked' /\ \A u : SameDebt(u)
<1>1. \A u : SameDebt(u)
  <2> TAKE u
  <2>1. CASE u # o
    BY <2>1 DEF SameDebt
  <2> QED
    BY <2>1
<1>2. DOMAIN journals' \subseteq Keys
  BY KeysApart, RowAt DEF DebtInv, RowsAreBooked
<1>3. \A u \in Obligations : u # o => Opened(u)'
  BY <1>1, KeysApart, OpenedStays DEF DebtInv, RowsAreBooked
<1>4. Opened(o)'
  <2>1. Opened(o) /\ SameJournal(OweKey(o))
    BY KeysApart, RowAt DEF DebtInv, RowsAreBooked
  <2> QED
    BY <2>1 DEF Opened, SameJournal, SameDebt
<1>5. \A p \in Payments : Settling(p)'
  BY <1>1, KeysApart, SettlingStays DEF DebtInv, RowsAreBooked
<1> QED
  BY <1>1, <1>2, <1>3, <1>4, <1>5 DEF RowsAreBooked

LEMMA CommitArchiveKeeps ==
  ASSUME DebtInv, NEW r \in Requests, CommitArchive(r)
  PROVE  DebtInv'
<1>1. PICK o, js : /\ o = req[r].obligation
                   /\ js = IF req[r].seen = "OPEN" THEN WrittenOff(journals, o) ELSE journals
  OBVIOUS
<1>2. PICK old : old = IF req[r].seen = "OPEN" THEN Cancelled(obligation[o]) ELSE obligation[o]
  OBVIOUS
<1>3. PICK row : row = [old EXCEPT !.archived = TRUE]
  OBVIOUS
<1>4. /\ req[r].pc = "archive" /\ journals' = js /\ Finish(r)
      /\ invoice' = invoice /\ payment' = payment /\ stock' = stock
      /\ obligation' = [obligation EXCEPT ![o] = row]
  BY <1>1, <1>2, <1>3 DEF CommitArchive
<1>5. o \in DOMAIN obligation
  BY <1>1, <1>4 DEF DebtInv, Sound
<1>6. \A u : SamePaid(u)
  BY <1>4, PaidUnchanged
<1>7. /\ old \in Obligation /\ old.type = obligation[o].type /\ old.total = obligation[o].total
      /\ old.invoice = obligation[o].invoice
      /\ obligation[o].status = "CANCELLED" => old.status = "CANCELLED"
      /\ \A k : k # WriteOffKey(o) => SameJournal(k)
      /\ DOMAIN journals' \subseteq DOMAIN journals \union {WriteOffKey(o)}
      /\ WriteOffKey(o) \in DOMAIN journals' =>
           /\ Lost(o)' \in Nat
           /\ journals'[WriteOffKey(o)] =
                [status |-> "POSTED", draft |-> WriteOffDraft(old.type, Lost(o)')]
      /\ old.outstanding = old.total - PaidOn(o)' - Lost(o)'
      /\ old.status # "CANCELLED" => old = obligation[o] /\ WriteOffKey(o) \notin DOMAIN journals'
  <2>1. CASE req[r].seen = "OPEN"
    <3>1. old = Cancelled(obligation[o]) /\ js = WrittenOff(journals, o)
      BY <1>1, <1>2, <2>1
    <3> QED
      BY <1>4, <1>5, <1>6, <3>1, Closes
  <2>2. CASE req[r].seen # "OPEN"
    <3>1. old = obligation[o] /\ js = journals
      BY <1>1, <1>2, <2>2
    <3>2. Owing(o) /\ Opened(o) /\ obligation[o] \in Obligation
      BY <1>5, RowAt DEF DebtInv, RowsAreBooked, Kinds
    <3>3. Lost(o)' = Lost(o) /\ PaidOn(o)' = PaidOn(o)
      BY <1>4, <1>6, <3>1, PaidSame DEF Lost
    <3> QED
      BY <1>4, <3>1, <3>2, <3>3 DEF Owing, Opened, SameJournal
  <2> QED
    BY <2>1, <2>2
<1>8. /\ row \in Obligation /\ row.type = old.type /\ row.total = old.total
      /\ row.invoice = old.invoice /\ row.status = old.status /\ row.outstanding = old.outstanding
      /\ row.archived = TRUE
  BY <1>3, <1>7 DEF Obligation
<1>9. /\ DOMAIN obligation' = DOMAIN obligation /\ obligation'[o] = row
      /\ \A u \in DOMAIN obligation : u # o => obligation'[u] = obligation[u]
  BY <1>4, <1>5
<1>10. SameDebt(o)
  BY <1>5, <1>7, <1>8, <1>9 DEF SameDebt
<1>11. RowsAreBooked' /\ \A u : SameDebt(u)
  BY <1>4, <1>5, <1>7, <1>8, <1>9, <1>10, ClosedRows
<1>12. /\ NoNewPays /\ req' \in [Requests -> Request] /\ req'[r] = Idle /\ req'[r].pc = "idle"
       /\ \A s \in Requests : s # r => req'[s] = req[s]
  BY <1>4, Finished DEF DebtInv
<1>13. KindsApart' /\ PaymentsApart'
  BY <1>12, RequestsApart DEF DebtInv
<1>14. Kinds'
  BY <1>4, <1>5, <1>7, <1>8, <1>9, <1>12 DEF DebtInv, Kinds
<1>15. \A u \in DOMAIN obligation : Dead(u) => Dead(u)'
  <2> SUFFICES ASSUME NEW u \in DOMAIN obligation, Dead(u) PROVE Dead(u)'
    OBVIOUS
  <2>1. obligation'[u].status = "CANCELLED"
    BY <1>7, <1>8, <1>9 DEF Dead
  <2> QED
    BY <1>6, <1>12, <2>1, DeadStays
<1>16. \A u \in DOMAIN obligation' : Owing(u)'
  <2> TAKE u \in DOMAIN obligation'
  <2>1. CASE u # o
    BY <1>6, <1>7, <1>9, <1>12, <2>1, KeysApart, OwingStays DEF DebtInv
  <2>2. CASE u = o
    <3>1. obligation'[o].status = "PAID" => obligation'[o].outstanding = 0
      BY <1>5, <1>7, <1>8, <1>9 DEF DebtInv, Owing
    <3>2. obligation'[o].outstanding = obligation'[o].total - PaidOn(o)' - Lost(o)'
      BY <1>7, <1>8, <1>9
    <3>3. obligation'[o].status # "CANCELLED" => WriteOffKey(o) \notin DOMAIN journals'
      BY <1>7, <1>8, <1>9
    <3> QED
      BY <1>8, <1>9, <2>2, <3>1, <3>2, <3>3 DEF Owing
  <2> QED
    BY <2>1, <2>2
<1>17. \A i \in Invoices : Billed(i)'
  <2> TAKE i \in Invoices
  <2>1. RaisedBy(i)' = RaisedBy(i) /\ RaisedBy(i) \subseteq DOMAIN obligation
    BY <1>9, <1>11 DEF RaisedBy, SameDebt
  <2>2. \A u \in DOMAIN obligation : Matches(i, u) => Matches(i, u)'
    <3> SUFFICES ASSUME NEW u \in DOMAIN obligation, Matches(i, u) PROVE Matches(i, u)'
      OBVIOUS
    <3>1. PaidOn(u)' = PaidOn(u)
      BY <1>6, PaidSame
    <3>2. CASE u # o
      BY <1>4, <1>9, <3>1, <3>2 DEF Matches
    <3>3. CASE u = o
      BY <1>4, <1>7, <1>8, <1>9, <3>1, <3>3 DEF Matches
    <3> QED
      BY <3>2, <3>3
  <2>3. Billed(i)
    BY DEF DebtInv
  <2> QED
    BY <1>4, <1>15, <2>1, <2>2, <2>3 DEF Billed
<1>18. \A s \in Requests : Sound(req[s])'
  <2> TAKE s \in Requests
  <2>1. CASE s = r
    <3>1. Sound(Idle)'
      BY IdleAt DEF Sound
    <3> QED
      BY <1>12, <2>1, <3>1, SoundAgain
  <2>2. CASE s # r
    <3>1. PICK q : q = req[s]
      OBVIOUS
    <3>2. Sound(q) /\ req'[s] = q
      BY <1>12, <2>2, <3>1 DEF DebtInv
    <3>3. \A u : RaisedBy(u)' = RaisedBy(u) /\ PaymentsOn(u)' = PaymentsOn(u)
      BY <1>4, <1>9, <1>11 DEF RaisedBy, SameDebt, PaymentsOn
    <3>4. q.pc = "archive" => Sound(q)'
      BY <1>7, <1>8, <1>9, <3>2 DEF Sound
    <3>5. q.pc # "archive" => Sound(q)'
      BY <1>4, <1>9, <3>2, <3>3 DEF Sound
    <3> QED
      BY <3>2, <3>4, <3>5, SoundAgain
  <2> QED
    BY <2>1, <2>2
<1> QED
  BY <1>11, <1>13, <1>14, <1>16, <1>17, <1>18 DEF DebtInv
-----------------------------------------------------------------------------
(* An invoice edited, deleted, sent.                                       *)

LEMMA CommitUpdateKeeps ==
  ASSUME HarmsApart, DebtInv, NEW r \in Requests, NEW x \in Amounts, CommitUpdate(r, x)
  PROVE  DebtInv'
<1>1. PICK i : i = req[r].invoice
  OBVIOUS
<1>2. PICK row : row = [invoice[i] EXCEPT !.total = x, !.due = x]
  OBVIOUS
<1>3. /\ req[r].pc = "update" /\ i \in DOMAIN invoice /\ Finish(r)
      /\ obligation' = obligation /\ payment' = payment /\ stock' = stock /\ journals' = journals
  BY <1>1, Zenon DEF CommitUpdate
<1>4. invoice' = [invoice EXCEPT ![i] = row]
  BY <1>1, <1>2 DEF CommitUpdate
<1>5. i \in Invoices /\ invoice[i].status \in {"DRAFT", "VOID"} /\ x \in Nat /\ x > 0 /\ invoice[i] \in Invoice
  <2>1. Sound(req[r]) /\ Kinds
    BY DEF DebtInv
  <2>2. invoice[i].status \in {"DRAFT", "VOID"}
    BY <1>1, <1>3, <2>1 DEF Sound
  <2> QED
    BY <1>3, <2>1, <2>2, ReceivablesAssumption DEF Kinds
<1>6. /\ row \in Invoice /\ row.status = invoice[i].status /\ row.total = x /\ row.due = x
      /\ row.paid = invoice[i].paid
  BY <1>2, <1>5 DEF Invoice
<1>7. /\ DOMAIN invoice' = DOMAIN invoice /\ invoice'[i] = row
      /\ \A u \in DOMAIN invoice : u # i => invoice'[u] = invoice[u]
  BY <1>3, <1>4
<1>8. /\ NoNewPays /\ req' \in [Requests -> Request] /\ req'[r] = Idle /\ req'[r].pc = "idle"
      /\ \A s \in Requests : s # r => req'[s] = req[s]
  BY <1>3, Finished DEF DebtInv
<1>9. \A u : SamePaid(u) /\ SameJournal(u) /\ RaisedBy(u)' = RaisedBy(u)
  BY <1>3, PaidUnchanged DEF SameJournal, RaisedBy
<1>10. Kinds' /\ RowsAreBooked'
  BY <1>3, <1>5, <1>6, <1>7, <1>8
     DEF DebtInv, Kinds, RowsAreBooked, Opened, Settling, Lost, PaymentDraft
<1>11. KindsApart' /\ PaymentsApart'
  BY <1>8, RequestsApart DEF DebtInv
<1>12. \A o \in DOMAIN obligation' : Owing(o)'
  BY <1>3, <1>8, <1>9, OwingStays DEF DebtInv
<1>13. \A u \in Invoices : Billed(u)'
  <2> TAKE u \in Invoices
  <2>1. CASE u # i
    BY <1>3, <1>7, <1>8, <1>9, <2>1, BilledStays DEF DebtInv
  <2>2. CASE u = i
    <3>1. \A o \in RaisedBy(i) : Dead(o) => Dead(o)'
      BY <1>3, <1>8, <1>9, DeadStays DEF Dead
    <3>2. Billed(i)
      BY <1>5 DEF DebtInv
    <3> QED
      BY <1>3, <1>5, <1>6, <1>7, <1>9, <2>2, <3>1, <3>2 DEF Billed, Sent
  <2> QED
    BY <2>1, <2>2
<1>14. \A s \in Requests : Sound(req[s])'
  <2> TAKE s \in Requests
  <2>1. CASE s = r
    <3>1. Sound(Idle)'
      BY IdleAt DEF Sound
    <3> QED
      BY <1>8, <2>1, <3>1, SoundAgain
  <2>2. CASE s # r
    <3>1. PICK q : q = req[s]
      OBVIOUS
    <3>2. Sound(q) /\ req'[s] = q
      BY <1>8, <2>2, <3>1 DEF DebtInv
    <3>3. q.pc # "send"
      BY <1>3, <2>2, <3>1, Apart DEF DebtInv
    <3>4. \A u : PaymentsOn(u)' = PaymentsOn(u)
      BY <1>3 DEF PaymentsOn
    <3>5. \A u \in DOMAIN invoice : invoice'[u].status = invoice[u].status
      BY <1>6, <1>7
    <3>6. Sound(q)'
      BY <1>3, <1>7, <1>9, <3>2, <3>3, <3>4, <3>5 DEF Sound
    <3> QED
      BY <3>2, <3>6, SoundAgain
  <2> QED
    BY <2>1, <2>2
<1> QED
  BY <1>10, <1>11, <1>12, <1>13, <1>14 DEF DebtInv

LEMMA CommitDeleteKeeps ==
  ASSUME HarmsApart, DebtInv, NEW r \in Requests, CommitDelete(r)
  PROVE  DebtInv'
<1>1. PICK i : i = req[r].invoice
  OBVIOUS
<1>2. /\ req[r].pc = "delete" /\ i \in DOMAIN invoice /\ Finish(r)
      /\ invoice' = [u \in DOMAIN invoice \ {i} |-> invoice[u]]
      /\ obligation' = obligation /\ payment' = payment /\ stock' = stock /\ journals' = journals
  BY <1>1, Zenon DEF CommitDelete
<1>3. invoice[i].status \in {"DRAFT", "VOID"}
  <2>1. Sound(req[r])
    BY DEF DebtInv
  <2> QED
    BY <1>1, <1>2, <2>1 DEF Sound
<1>4. /\ DOMAIN invoice' = DOMAIN invoice \ {i}
      /\ \A u \in DOMAIN invoice' : invoice'[u] = invoice[u]
  BY <1>2
<1>5. /\ NoNewPays /\ req' \in [Requests -> Request] /\ req'[r] = Idle /\ req'[r].pc = "idle"
      /\ \A s \in Requests : s # r => req'[s] = req[s]
  BY <1>2, Finished DEF DebtInv
<1>6. \A u : SamePaid(u) /\ SameJournal(u) /\ RaisedBy(u)' = RaisedBy(u)
  BY <1>2, PaidUnchanged DEF SameJournal, RaisedBy
<1>7. Kinds' /\ RowsAreBooked'
  BY <1>2, <1>4, <1>5
     DEF DebtInv, Kinds, RowsAreBooked, Opened, Settling, Lost, PaymentDraft
<1>8. KindsApart' /\ PaymentsApart'
  BY <1>5, RequestsApart DEF DebtInv
<1>9. \A o \in DOMAIN obligation' : Owing(o)'
  BY <1>2, <1>5, <1>6, OwingStays DEF DebtInv
<1>10. \A u \in Invoices : Billed(u)'
  <2> TAKE u \in Invoices
  <2>1. CASE u # i
    BY <1>2, <1>4, <1>5, <1>6, <2>1, BilledStays DEF DebtInv
  <2>2. CASE u = i
    BY <1>2, <1>4, <1>6, <2>2 DEF DebtInv, Billed
  <2> QED
    BY <2>1, <2>2
<1>11. \A s \in Requests : Sound(req[s])'
  <2> TAKE s \in Requests
  <2>1. CASE s = r
    <3>1. Sound(Idle)'
      BY IdleAt DEF Sound
    <3> QED
      BY <1>5, <2>1, <3>1, SoundAgain
  <2>2. CASE s # r
    <3>1. PICK q : q = req[s]
      OBVIOUS
    <3>2. Sound(q) /\ req'[s] = q
      BY <1>5, <2>2, <3>1 DEF DebtInv
    <3>3. q.pc # "send"
      BY <1>2, <2>2, <3>1, Apart DEF DebtInv
    <3>4. \A u : PaymentsOn(u)' = PaymentsOn(u)
      BY <1>2 DEF PaymentsOn
    <3>5. q.pc = "void" /\ q.seen.status \in Sent => q.invoice # i
      BY <1>3, <3>2 DEF Sound, Sent
    <3>6. Sound(q)'
      BY <1>2, <1>4, <1>6, <3>2, <3>3, <3>4, <3>5 DEF Sound
    <3> QED
      BY <3>2, <3>6, SoundAgain
  <2> QED
    BY <2>1, <2>2
<1> QED
  BY <1>7, <1>8, <1>9, <1>10, <1>11 DEF DebtInv

LEMMA CommitSendKeeps ==
  ASSUME HarmsApart, DebtInv, NEW r \in Requests, NEW o \in Obligations, CommitSend(r, o)
  PROVE  DebtInv'
<1>1. PICK i, seen : i = req[r].invoice /\ seen = req[r].seen
  OBVIOUS
<1>2. PICK row : row = [type |-> "RECEIVABLE", total |-> seen.total, outstanding |-> seen.due,
                        status |-> "OPEN", archived |-> FALSE, invoice |-> i]
  OBVIOUS
<1>3. PICK bill : bill = [invoice[i] EXCEPT !.status = "SENT"]
  OBVIOUS
<1>4. PICK goods : goods = [stock[i] EXCEPT !.out = @ + 1]
  OBVIOUS
<1>5. /\ req[r].pc = "send" /\ i \in DOMAIN invoice /\ o \notin DOMAIN obligation /\ Finish(r)
      /\ obligation' = With(obligation, o, row) /\ payment' = payment /\ journals' = journals
  BY <1>1, <1>2, Zenon DEF CommitSend
<1>6. invoice' = [invoice EXCEPT ![i] = bill] /\ stock' = [stock EXCEPT ![i] = goods]
  BY <1>1, <1>3, <1>4 DEF CommitSend
<1>7. /\ i \in Invoices /\ invoice[i] = seen /\ seen \in Invoice /\ seen.status = "DRAFT"
      /\ seen.total \in Nat /\ seen.total > 0 /\ stock[i] \in [out : Nat, back : Nat]
  <2>1. Sound(req[r]) /\ Kinds
    BY DEF DebtInv
  <2>2. invoice[i] = seen /\ seen.status = "DRAFT"
    BY <1>1, <1>5, <2>1 DEF Sound
  <2> QED
    BY <1>5, <2>1, <2>2 DEF Kinds, Invoice
<1>8. RaisedBy(i) = {} /\ stock[i].out = 0 /\ stock[i].back = 0 /\ seen.paid = 0 /\ seen.due = seen.total
  <2>1. Billed(i)
    BY <1>7 DEF DebtInv
  <2> QED
    BY <1>5, <1>7, <2>1 DEF Billed
<1>9. /\ row \in Obligation /\ row.total = seen.total /\ row.outstanding = seen.total /\ row.status = "OPEN"
      /\ row.invoice = i /\ row.invoice # NoInvoice
  BY <1>2, <1>7, <1>8, ReceivablesAssumption DEF Obligation, ObligationStatuses, ObligationTypes
<1>10. /\ bill \in Invoice /\ bill.status = "SENT" /\ bill.total = seen.total /\ bill.due = seen.total
       /\ bill.paid = 0
  BY <1>3, <1>7, <1>8 DEF Invoice, InvoiceStatuses
<1>11. goods \in [out : Nat, back : Nat] /\ goods.out = 1 /\ goods.back = 0
  BY <1>4, <1>7, <1>8
<1>12. /\ DOMAIN obligation' = DOMAIN obligation \union {o} /\ obligation'[o] = row
       /\ \A u \in DOMAIN obligation : obligation'[u] = obligation[u] /\ u # o
  BY <1>5 DEF With
<1>13. /\ DOMAIN invoice' = DOMAIN invoice /\ invoice'[i] = bill
       /\ \A u \in DOMAIN invoice : u # i => invoice'[u] = invoice[u]
       /\ stock' \in [Invoices -> [out : Nat, back : Nat]] /\ stock'[i] = goods
       /\ \A u \in Invoices : u # i => stock'[u] = stock[u]
  BY <1>5, <1>6, <1>7, <1>11 DEF DebtInv, Kinds
<1>14. /\ NoNewPays /\ req' \in [Requests -> Request] /\ req'[r] = Idle /\ req'[r].pc = "idle"
       /\ \A s \in Requests : s # r => req'[s] = req[s]
  BY <1>5, Finished DEF DebtInv
<1>15. \A u : SamePaid(u) /\ SameJournal(u)
  BY <1>5, PaidUnchanged DEF SameJournal
<1>16. RaisedBy(i)' = {o} /\ \A u : u # i => RaisedBy(u)' = RaisedBy(u)
  BY <1>8, <1>9, <1>12 DEF RaisedBy
<1>17. WriteOffKey(o) \notin DOMAIN journals /\ OweKey(o) \notin DOMAIN journals
  BY <1>5 DEF DebtInv, RowsAreBooked, Opened
<1>18. PaidOn(o)' = 0 /\ Lost(o)' = 0
  <2>1. PaymentsOn(o) = {}
    BY <1>5 DEF DebtInv, Kinds, PaymentsOn
  <2>2. PaidOn(o) = 0
    BY <2>1, PaidType DEF DebtInv
  <2>3. PaidOn(o)' = PaidOn(o)
    BY <1>15, PaidSame
  <2>4. Lost(o)' = 0
    BY <1>5, <1>17 DEF Lost
  <2> QED
    BY <2>2, <2>3, <2>4
<1>19. Kinds'
  <2>1. \A u \in DOMAIN obligation' : obligation'[u] \in Obligation /\ obligation'[u].total > 0
    BY <1>7, <1>9, <1>12 DEF DebtInv, Kinds
  <2>2. \A u \in DOMAIN invoice' : invoice'[u] \in Invoice /\ invoice'[u].total > 0
    BY <1>7, <1>10, <1>13 DEF DebtInv, Kinds
  <2> QED
    BY <1>5, <1>12, <1>13, <1>14, <2>1, <2>2 DEF DebtInv, Kinds
<1>20. KindsApart' /\ PaymentsApart'
  BY <1>14, RequestsApart DEF DebtInv
<1>21. RowsAreBooked'
  <2>1. \A u : u # o => SameDebt(u)
    BY <1>12 DEF SameDebt
  <2>2. \A u \in Obligations : u # o => Opened(u)'
    BY <1>15, <2>1, OpenedStays DEF DebtInv, RowsAreBooked
  <2>3. Opened(o)'
    BY <1>5, <1>9, <1>12, <1>17 DEF Opened
  <2>4. \A p \in Payments : Settling(p)'
    BY <1>5, <1>12, <1>15, <2>1, SettlingStays DEF DebtInv, RowsAreBooked
  <2> QED
    BY <1>5, <2>2, <2>3, <2>4 DEF DebtInv, RowsAreBooked
<1>22. \A u \in DOMAIN obligation' : Owing(u)'
  <2> TAKE u \in DOMAIN obligation'
  <2>1. CASE u # o
    BY <1>12, <1>14, <1>15, <2>1, OwingStays DEF DebtInv
  <2>2. CASE u = o
    <3>1. WriteOffKey(o) \notin DOMAIN journals'
      BY <1>5, <1>17
    <3>2. obligation'[o].outstanding = obligation'[o].total - PaidOn(o)' - Lost(o)'
      BY <1>7, <1>9, <1>12, <1>18
    <3> QED
      BY <1>9, <1>12, <2>2, <3>1, <3>2 DEF Owing
  <2> QED
    BY <2>1, <2>2
<1>23. \A u \in Invoices : Billed(u)'
  <2> TAKE u \in Invoices
  <2>1. CASE u # i
    <3>1. \A v \in RaisedBy(u) : obligation'[v] = obligation[v]
      BY <1>12 DEF RaisedBy
    <3> QED
      BY <1>13, <1>14, <1>15, <1>16, <2>1, <3>1, BilledStays DEF DebtInv
  <2>2. CASE u = i
    <3>1. Matches(i, o)'
      BY <1>7, <1>9, <1>10, <1>12, <1>13, <1>18 DEF Matches
    <3> QED
      BY <1>10, <1>11, <1>13, <1>16, <2>2, <3>1 DEF Billed, Sent
  <2> QED
    BY <2>1, <2>2
<1>24. \A s \in Requests : Sound(req[s])'
  <2> TAKE s \in Requests
  <2>1. CASE s = r
    <3>1. Sound(Idle)'
      BY IdleAt DEF Sound
    <3> QED
      BY <1>14, <2>1, <3>1, SoundAgain
  <2>2. CASE s # r
    <3>1. PICK q : q = req[s]
      OBVIOUS
    <3>2. Sound(q) /\ req'[s] = q
      BY <1>14, <2>2, <3>1 DEF DebtInv
    <3>3. q.pc \notin {"send", "update", "void", "delete"}
      BY <1>5, <2>2, <3>1, Apart DEF DebtInv
    <3>4. Sound(q)'
      BY <1>5, <1>12, <3>2, <3>3 DEF Sound
    <3> QED
      BY <3>2, <3>4, SoundAgain
  <2> QED
    BY <2>1, <2>2
<1> QED
  BY <1>19, <1>20, <1>21, <1>22, <1>23, <1>24 DEF DebtInv
-----------------------------------------------------------------------------
(* An invoice voided.                                                      *)

(* The fold of voidInvoice over the obligations of an invoice, of which    *)
(* there is at most one.                                                   *)
LEMMA WrittenOffAll ==
  ASSUME NEW S, NEW o, S \subseteq {o}
  PROVE  FoldSet(LAMBDA u, js : WrittenOff(js, u), journals, S) =
           IF S = {} THEN journals ELSE WrittenOff(journals, o)
<1> DEFINE A(h) == [s \in SUBSET S |-> IF s = {} THEN journals
                                       ELSE WrittenOff(h[s \ {Pick(s)}], Pick(s))]
<1>1. FoldSet(LAMBDA u, js : WrittenOff(js, u), journals, S) = (CHOOSE h : h = A(h))[S]
  BY DEF FoldSet, MapThenFoldSet, Pick
<1>2. \A s \in SUBSET S : s # {} => Pick(s) = o /\ s \ {Pick(s)} = {}
  BY PickIn
<1>3. PICK g : g = [s \in SUBSET S |-> IF s = {} THEN journals ELSE WrittenOff(journals, o)]
  OBVIOUS
<1>4. g[{}] = journals
  BY <1>3
<1>5. \A s \in SUBSET S : (IF s = {} THEN journals ELSE WrittenOff(journals, o)) =
                          (IF s = {} THEN journals ELSE WrittenOff(g[s \ {Pick(s)}], Pick(s)))
  BY <1>2, <1>4
<1>6. g = A(g)
  BY <1>3, <1>5
<1>7. PICK h : h = (CHOOSE f : f = A(f)) /\ h = A(h)
  BY <1>6
<1>8. \A s \in SUBSET S : h[s] = IF s = {} THEN journals ELSE WrittenOff(h[s \ {Pick(s)}], Pick(s))
  BY <1>7
<1>9. h[{}] = journals /\ (S # {} => h[S] = WrittenOff(journals, o))
  BY <1>2, <1>8
<1> QED
  BY <1>1, <1>7, <1>9

(* What is raised by an invoice that is voided.                            *)
LEMMA VoidReads ==
  ASSUME HarmsApart, DebtInv, NEW r \in Requests, CommitVoid(r), NEW i, i = req[r].invoice
  PROVE  /\ req[r].pc = "void" /\ i \in DOMAIN invoice /\ i \in Invoices /\ Billed(i)
         /\ invoice[i].status = req[r].seen.status /\ invoice[i].status \in Sent \union {"DRAFT"}
         /\ \A o \in RaisedBy(i) : /\ PaymentsOn(o) = {} /\ RaisedBy(i) = {o}
                                   /\ invoice[i].status \in Sent
                                   /\ obligation[o].status # "PAID"
                                   /\ \A s \in Requests : req[s].pc = "pay" => req[s].obligation # o
<1>1. req[r].pc = "void" /\ i \in DOMAIN invoice
  BY Zenon DEF CommitVoid
<1>2. Sound(req[r]) /\ Kinds
  BY DEF DebtInv
<1>3. /\ invoice[i].status = req[r].seen.status /\ invoice[i].status \in Sent \union {"DRAFT"}
      /\ \A o \in RaisedBy(i) : PaymentsOn(o) = {}
  BY <1>1, <1>2 DEF Sound
<1>4. i \in Invoices /\ Billed(i)
  BY <1>1, <1>2, BillAt DEF DebtInv
<1>5. ASSUME NEW o \in RaisedBy(i)
      PROVE  /\ RaisedBy(i) = {o} /\ invoice[i].status \in Sent /\ obligation[o].status # "PAID"
  <2>1. RaisedBy(i) = {o} /\ invoice[i].status # "DRAFT"
    BY <1>1, <1>4 DEF Billed
  <2>2. o \in DOMAIN obligation
    BY DEF RaisedBy
  <2>3. PaidOn(o) = 0
    BY <1>2, <1>3, PaidType
  <2>4. ASSUME obligation[o].status = "PAID" PROVE FALSE
    <3>1. obligation[o].outstanding = 0 /\ Lost(o) = 0
      BY <2>2, <2>4, OutstandingIs DEF DebtInv, Owing
    <3>2. obligation[o].outstanding = obligation[o].total - PaidOn(o) - Lost(o)
      BY <2>2, OutstandingIs
    <3>3. obligation[o].total \in Nat /\ obligation[o].total > 0
      BY <1>2, <2>2, RowAt
    <3> QED
      BY <2>3, <3>1, <3>2, <3>3
  <2> QED
    BY <1>3, <2>1, <2>4
<1>6. \A s \in Requests : req[s].pc # "pay"
  <2> SUFFICES ASSUME NEW s \in Requests, req[s].pc = "pay" PROVE FALSE
    OBVIOUS
  <2>1. r # s
    BY <1>1
  <2> QED
    BY <1>1, <2>1, Apart DEF DebtInv
<1> QED
  BY <1>1, <1>3, <1>4, <1>5, <1>6

LEMMA VoidWrites ==
  ASSUME HarmsApart, DebtInv, NEW r \in Requests, CommitVoid(r), NEW i, i = req[r].invoice
  PROVE  /\ DOMAIN obligation' = DOMAIN obligation
         /\ \A u \in DOMAIN obligation : u \notin RaisedBy(i) =>
              obligation'[u] = obligation[u] /\ SameJournal(WriteOffKey(u))
         /\ \A u : SameDebt(u) /\ SamePaid(u)
         /\ RowsAreBooked'
         /\ \A o \in RaisedBy(i) : /\ obligation'[o] \in Obligation
                                   /\ obligation'[o].status = "CANCELLED"
                                   /\ obligation'[o].archived = obligation[o].archived
                                   /\ obligation'[o].outstanding = obligation'[o].total - PaidOn(o)' - Lost(o)'
                                   /\ ~obligation'[o].archived => obligation'[o].outstanding = 0
<1>1. /\ i \in DOMAIN invoice /\ i \in Invoices /\ Billed(i)
      /\ invoice[i].status = req[r].seen.status
      /\ \A o \in RaisedBy(i) : RaisedBy(i) = {o} /\ invoice[i].status \in Sent
  BY VoidReads
<1>2. payment' = payment
  BY Zenon DEF CommitVoid
<1>3. \A u : SamePaid(u)
  BY <1>2, PaidUnchanged
<1>4. CASE RaisedBy(i) = {}
  <2>1. DOMAIN obligation' = DOMAIN obligation /\ \A u \in DOMAIN obligation : obligation'[u] = obligation[u]
    BY <1>4 DEF CommitVoid
  <2>2. journals' = journals
    <3>1. FoldSet(LAMBDA u, js : WrittenOff(js, u), journals, RaisedBy(i)) = journals
      BY <1>4, WrittenOffAll
    <3> QED
      BY <3>1 DEF CommitVoid
  <2>3. \A u : SameDebt(u) /\ SameJournal(u)
    BY <2>1, <2>2 DEF SameDebt, SameJournal
  <2>4. RowsAreBooked'
    BY <1>2, <2>2, <2>3, OpenedStays, SettlingStays DEF DebtInv, RowsAreBooked
  <2> QED
    BY <1>3, <1>4, <2>1, <2>3, <2>4
<1>5. CASE RaisedBy(i) # {}
  <2>1. PICK o : o \in RaisedBy(i)
    BY <1>5
  <2>2. /\ RaisedBy(i) = {o} /\ req[r].seen.status \in Sent /\ o \in DOMAIN obligation
    BY <1>1, <2>1 DEF RaisedBy
  <2>3. PICK row, js : row = Cancelled(obligation[o]) /\ js = WrittenOff(journals, o)
    OBVIOUS
  <2>4. /\ DOMAIN obligation' = DOMAIN obligation /\ obligation'[o] = row
        /\ \A u \in DOMAIN obligation : u # o => obligation'[u] = obligation[u]
    <3>1. obligation' = [u \in DOMAIN obligation |->
                           IF u \in RaisedBy(i) THEN Cancelled(obligation[u]) ELSE obligation[u]]
      BY <2>2 DEF CommitVoid
    <3> QED
      BY <2>2, <2>3, <3>1
  <2>5. journals' = js
    <3>1. FoldSet(LAMBDA u, k : WrittenOff(k, u), journals, RaisedBy(i)) = WrittenOff(journals, o)
      BY <2>2, WrittenOffAll
    <3> QED
      BY <2>2, <2>3, <3>1 DEF CommitVoid
  <2>6. /\ row \in Obligation /\ row.status = "CANCELLED" /\ row.archived = obligation[o].archived
        /\ row.type = obligation[o].type /\ row.total = obligation[o].total
        /\ row.invoice = obligation[o].invoice
        /\ \A k : k # WriteOffKey(o) => SameJournal(k)
        /\ DOMAIN journals' \subseteq DOMAIN journals \union {WriteOffKey(o)}
        /\ WriteOffKey(o) \in DOMAIN journals' =>
             /\ Lost(o)' \in Nat
             /\ journals'[WriteOffKey(o)] =
                  [status |-> "POSTED", draft |-> WriteOffDraft(row.type, Lost(o)')]
        /\ row.outstanding = row.total - PaidOn(o)' - Lost(o)'
        /\ ~row.archived => row.outstanding = 0
    BY <1>3, <2>2, <2>3, <2>5, Closes
  <2>7. SameDebt(o)
    BY <2>2, <2>4, <2>6 DEF SameDebt
  <2>8. RowsAreBooked' /\ \A u : SameDebt(u)
    BY <1>2, <2>2, <2>4, <2>6, <2>7, ClosedRows
  <2>9. \A u : u # o => SameJournal(WriteOffKey(u))
    BY <2>6, KeysApart
  <2> QED
    BY <1>3, <2>2, <2>4, <2>6, <2>8, <2>9
<1> QED
  BY <1>4, <1>5

LEMMA CommitVoidKeeps ==
  ASSUME HarmsApart, DebtInv, NEW r \in Requests, CommitVoid(r)
  PROVE  DebtInv'
<1>1. PICK i : i = req[r].invoice
  OBVIOUS
<1>2. /\ req[r].pc = "void" /\ i \in DOMAIN invoice /\ i \in Invoices /\ Billed(i)
      /\ invoice[i].status = req[r].seen.status /\ invoice[i].status \in Sent \union {"DRAFT"}
      /\ \A o \in RaisedBy(i) : /\ PaymentsOn(o) = {} /\ RaisedBy(i) = {o}
                                /\ invoice[i].status \in Sent
                                /\ obligation[o].status # "PAID"
                                /\ \A s \in Requests : req[s].pc = "pay" => req[s].obligation # o
  <2>1. /\ req[r].pc = "void" /\ i \in DOMAIN invoice /\ i \in Invoices /\ Billed(i)
        /\ invoice[i].status = req[r].seen.status /\ invoice[i].status \in Sent \union {"DRAFT"}
    BY <1>1, VoidReads
  <2>2. \A o \in RaisedBy(i) : /\ PaymentsOn(o) = {} /\ RaisedBy(i) = {o}
                               /\ invoice[i].status \in Sent
                               /\ obligation[o].status # "PAID"
    BY <1>1, VoidReads
  <2>3. \A o \in RaisedBy(i) : \A s \in Requests : req[s].pc = "pay" => req[s].obligation # o
    BY <1>1, VoidReads
  <2> QED
    BY <2>1, <2>2, <2>3
<1>3. /\ DOMAIN obligation' = DOMAIN obligation
      /\ \A u \in DOMAIN obligation : u \notin RaisedBy(i) =>
           obligation'[u] = obligation[u] /\ SameJournal(WriteOffKey(u))
      /\ \A u : SameDebt(u) /\ SamePaid(u)
      /\ RowsAreBooked'
      /\ \A o \in RaisedBy(i) : /\ obligation'[o] \in Obligation
                                /\ obligation'[o].status = "CANCELLED"
                                /\ obligation'[o].archived = obligation[o].archived
                                /\ obligation'[o].outstanding = obligation'[o].total - PaidOn(o)' - Lost(o)'
                                /\ ~obligation'[o].archived => obligation'[o].outstanding = 0
  BY <1>1, VoidWrites
<1>4. PICK bill : bill = [invoice[i] EXCEPT !.status = "VOID"]
  OBVIOUS
<1>5. PICK goods : goods = [stock[i] EXCEPT !.back = @ + stock[i].out]
  OBVIOUS
<1>6. invoice' = [invoice EXCEPT ![i] = bill] /\ payment' = payment /\ Finish(r)
  BY <1>1, <1>4 DEF CommitVoid
<1>7. stock' = IF invoice[i].status \in Sent THEN [stock EXCEPT ![i] = goods] ELSE stock
  BY <1>1, <1>2, <1>5 DEF CommitVoid
<1>8. invoice[i] \in Invoice /\ invoice[i].total > 0 /\ stock[i] \in [out : Nat, back : Nat]
  BY <1>2 DEF DebtInv, Kinds
<1>9. bill \in Invoice /\ bill.status = "VOID" /\ bill.total = invoice[i].total
  BY <1>4, <1>8 DEF Invoice, InvoiceStatuses
<1>10. /\ goods \in [out : Nat, back : Nat] /\ goods.out = stock[i].out
       /\ goods.back = stock[i].back + stock[i].out
  BY <1>5, <1>8
<1>11. /\ DOMAIN invoice' = DOMAIN invoice /\ invoice'[i] = bill
       /\ \A u \in DOMAIN invoice : u # i => invoice'[u] = invoice[u]
  BY <1>2, <1>6
<1>12. /\ stock' \in [Invoices -> [out : Nat, back : Nat]]
       /\ \A u \in Invoices : u # i => stock'[u] = stock[u]
       /\ stock'[i] = IF invoice[i].status \in Sent THEN goods ELSE stock[i]
  BY <1>2, <1>7, <1>10 DEF DebtInv, Kinds
<1>13. /\ NoNewPays /\ req' \in [Requests -> Request] /\ req'[r] = Idle /\ req'[r].pc = "idle"
       /\ \A s \in Requests : s # r => req'[s] = req[s]
  BY <1>6, Finished DEF DebtInv
<1>14. \A u : RaisedBy(u)' = RaisedBy(u) /\ RaisedBy(u) \subseteq DOMAIN obligation
  BY <1>3 DEF RaisedBy, SameDebt
<1>15. \A u \in RaisedBy(i) : Dead(u)' /\ Owing(u)'
  <2> TAKE u \in RaisedBy(i)
  <2>1. PaymentsOn(u)' = {}
    BY <1>2, <1>3 DEF SamePaid
  <2>2. \A s \in Requests : req'[s].pc = "pay" => req'[s].obligation # u
    BY <1>2, <1>13
  <2>3. Dead(u)'
    BY <1>3, <2>1, <2>2 DEF Dead
  <2> QED
    BY <1>3, <2>3 DEF Owing
<1>16. \A u \in DOMAIN obligation' : Owing(u)'
  <2> TAKE u \in DOMAIN obligation'
  <2>1. CASE u \in RaisedBy(i)
    BY <1>15, <2>1
  <2>2. CASE u \notin RaisedBy(i)
    BY <1>3, <1>13, <2>2, OwingStays DEF DebtInv
  <2> QED
    BY <2>1, <2>2
<1>17. Kinds'
  <2>1. \A u \in DOMAIN obligation' : obligation'[u] \in Obligation /\ obligation'[u].total > 0
    BY <1>3 DEF DebtInv, Kinds, SameDebt
  <2>2. \A u \in DOMAIN invoice' : invoice'[u] \in Invoice /\ invoice'[u].total > 0
    BY <1>8, <1>9, <1>11 DEF DebtInv, Kinds
  <2> QED
    BY <1>3, <1>6, <1>11, <1>12, <1>13, <2>1, <2>2 DEF DebtInv, Kinds
<1>18. KindsApart' /\ PaymentsApart'
  BY <1>13, RequestsApart DEF DebtInv
<1>19. \A u \in Invoices : Billed(u)'
  <2> TAKE u \in Invoices
  <2>1. CASE u # i
    <3>1. \A v \in RaisedBy(u) : v \in DOMAIN obligation /\ v \notin RaisedBy(i)
      BY <2>1 DEF RaisedBy
    <3>2. \A v \in RaisedBy(u) : obligation'[v] = obligation[v] /\ SamePaid(v)
      BY <1>3, <3>1
    <3> QED
      BY <1>11, <1>12, <1>13, <1>14, <2>1, <3>2, BilledStays DEF DebtInv
  <2>2. CASE u = i
    <3>1. stock[i].out \in Nat /\ stock[i].back \in Nat
      BY <1>8
    <3>2. stock'[i].out <= 1 /\ stock'[i].back = stock'[i].out
      <4>1. CASE invoice[i].status \in Sent
        <5>1. stock[i].out = 1 /\ stock[i].back = 0
          BY <1>2, <4>1 DEF Billed
        <5> QED
          BY <1>10, <1>12, <4>1, <5>1
      <4>2. CASE invoice[i].status \notin Sent
        <5>1. stock[i].out = 0 /\ stock[i].back <= 0
          BY <1>2, <4>2 DEF Billed
        <5> QED
          BY <1>12, <3>1, <4>2, <5>1
      <4> QED
        BY <4>1, <4>2
    <3>3. stock'[i].out \in Nat
      BY <1>10, <1>12, <3>1
    <3>4. \A v, w \in RaisedBy(i)' : v = w
      BY <1>2, <1>14
    <3>5. \A v \in RaisedBy(i)' : Dead(v)'
      BY <1>14, <1>15
    <3> QED
      BY <1>9, <1>11, <2>2, <3>2, <3>3, <3>4, <3>5 DEF Billed, Sent
  <2> QED
    BY <2>1, <2>2
<1>20. \A s \in Requests : Sound(req[s])'
  <2> TAKE s \in Requests
  <2>1. CASE s = r
    <3>1. Sound(Idle)'
      BY IdleAt DEF Sound
    <3> QED
      BY <1>13, <2>1, <3>1, SoundAgain
  <2>2. CASE s # r
    <3>1. PICK q : q = req[s]
      OBVIOUS
    <3>2. Sound(q) /\ req'[s] = q
      BY <1>13, <2>2, <3>1 DEF DebtInv
    <3>3. q.pc \notin {"send", "void", "pay"}
      BY <1>2, <2>2, <3>1, Apart DEF DebtInv
    <3>4. q.pc = "archive" => Sound(q)'
      <4> SUFFICES ASSUME q.pc = "archive" PROVE Sound(q)'
        OBVIOUS
      <4>1. PICK u : u = q.obligation
        OBVIOUS
      <4>2. /\ u \in DOMAIN obligation /\ q.seen # "PARTIAL"
            /\ q.seen = "PAID" => obligation[u].archived \/ obligation[u].status = "PAID"
            /\ q.seen = "CANCELLED" => obligation[u].status = "CANCELLED"
        BY <3>2, <4>1 DEF Sound
      <4>3. u \in RaisedBy(i) => /\ obligation[u].status # "PAID"
                                 /\ obligation'[u].status = "CANCELLED"
                                 /\ obligation'[u].archived = obligation[u].archived
        BY <1>2, <1>3
      <4>4. u \notin RaisedBy(i) => obligation'[u] = obligation[u]
        BY <1>3, <4>2
      <4>5. /\ u \in DOMAIN obligation'
            /\ q.seen = "PAID" => obligation'[u].archived \/ obligation'[u].status = "PAID"
            /\ q.seen = "CANCELLED" => obligation'[u].status = "CANCELLED"
        BY <1>3, <4>2, <4>3, <4>4
      <4> QED
        BY <4>1, <4>2, <4>5 DEF Sound
    <3>5. q.pc \in {"update", "delete"} => Sound(q)'
      BY <1>9, <1>11, <3>2 DEF Sound
    <3>6. q.pc \notin {"archive", "update", "delete"} => Sound(q)'
      BY <1>6, <3>2, <3>3 DEF Sound
    <3> QED
      BY <3>2, <3>4, <3>5, <3>6, SoundAgain
  <2> QED
    BY <2>1, <2>2
<1> QED
  BY <1>3, <1>16, <1>17, <1>18, <1>19, <1>20 DEF DebtInv
-----------------------------------------------------------------------------
(* The invariant, and what it says of the debts and the void invoices.     *)

LEMMA DebtInit == Init => DebtInv
<1> SUFFICES ASSUME Init PROVE DebtInv
  OBVIOUS
<1>1. /\ DOMAIN obligation = {} /\ DOMAIN invoice = {} /\ DOMAIN payment = {} /\ DOMAIN journals = {}
      /\ \A r \in Requests : req[r] = Idle /\ req[r].pc = "idle"
      /\ \A i \in Invoices : stock[i].out = 0 /\ stock[i].back = 0
  BY DEF Init, Idle
<1>2. Kinds
  <2>1. stock \in [Invoices -> [out : Nat, back : Nat]]
    BY DEF Init
  <2>2. req \in [Requests -> Request]
    BY IdleAt DEF Init
  <2> QED
    BY <1>1, <2>1, <2>2, FS_EmptySet DEF Kinds
<1>3. KindsApart /\ PaymentsApart
  BY <1>1 DEF KindsApart, PaymentsApart
<1>4. RowsAreBooked
  BY <1>1 DEF RowsAreBooked, Opened, Settling
<1>5. \A i \in Invoices : Billed(i)
  BY <1>1 DEF Billed, RaisedBy
<1>6. \A r \in Requests : Sound(req[r])
  BY <1>1 DEF Sound
<1> QED
  BY <1>1, <1>2, <1>3, <1>4, <1>5, <1>6 DEF DebtInv

LEMMA DebtStutters ==
  ASSUME DebtInv, UNCHANGED vars
  PROVE  DebtInv'
<1> USE DEF vars
<1>1. \A u : SamePaid(u) /\ SameJournal(u) /\ RaisedBy(u)' = RaisedBy(u)
  BY PaidUnchanged DEF SameJournal, RaisedBy
<1>2. NoNewPays
  BY DEF NoNewPays
<1>3. Kinds' /\ RowsAreBooked' /\ KindsApart' /\ PaymentsApart'
  BY DEF DebtInv, Kinds, KindsApart, PaymentsApart, RowsAreBooked, Opened, Settling, Lost, PaymentDraft
<1>4. \A o \in DOMAIN obligation' : Owing(o)'
  BY <1>1, <1>2, OwingStays DEF DebtInv
<1>5. \A i \in Invoices : Billed(i)'
  BY <1>1, <1>2, BilledStays DEF DebtInv
<1>6. \A s \in Requests : Sound(req[s])'
  BY DEF DebtInv, Sound, RaisedBy, PaymentsOn
<1> QED
  BY <1>3, <1>4, <1>5, <1>6 DEF DebtInv

LEMMA DebtNext ==
  ASSUME HarmsApart, DebtInv, [Next]_vars
  PROVE  DebtInv'
<1>1. CASE UNCHANGED vars
  BY <1>1, DebtStutters
<1>2. ASSUME NEW o \in Obligations, NEW t \in Types, NEW x \in Amounts, CreateObligation(o, t, x)
      PROVE  DebtInv'
  BY <1>2, CreateObligationKeeps
<1>3. ASSUME NEW i \in Invoices, NEW x \in Amounts, CreateInvoice(i, x) PROVE DebtInv'
  BY <1>3, CreateInvoiceKeeps
<1>4. ASSUME NEW r \in Requests, NEW p \in Payments, NEW o \in Obligations, NEW x \in Amounts,
             ReadPay(r, p, o, x)
      PROVE  DebtInv'
  BY <1>4, ReadPayKeeps
<1>5. ASSUME NEW r \in Requests, CommitPay(r) PROVE DebtInv'
  BY <1>5, CommitPayKeeps
<1>6. ASSUME NEW r \in Requests, NEW p \in Payments, ReadUnpay(r, p) PROVE DebtInv'
  BY <1>6, ReadUnpayKeeps
<1>7. ASSUME NEW r \in Requests, CommitUnpay(r) PROVE DebtInv'
  BY <1>7, CommitUnpayKeeps
<1>8. ASSUME NEW r \in Requests, NEW o \in Obligations, ReadArchive(r, o) PROVE DebtInv'
  BY <1>8, ReadArchiveKeeps
<1>9. ASSUME NEW r \in Requests, CommitArchive(r) PROVE DebtInv'
  BY <1>9, CommitArchiveKeeps
<1>10. ASSUME NEW r \in Requests, NEW i \in Invoices, NEW k \in {"update", "send", "void", "delete"},
              ReadInvoice(r, k, i)
       PROVE  DebtInv'
  BY <1>10, ReadInvoiceKeeps
<1>11. ASSUME NEW r \in Requests, NEW x \in Amounts, CommitUpdate(r, x) PROVE DebtInv'
  BY <1>11, CommitUpdateKeeps
<1>12. ASSUME NEW r \in Requests, NEW o \in Obligations, CommitSend(r, o) PROVE DebtInv'
  BY <1>12, CommitSendKeeps
<1>13. ASSUME NEW r \in Requests, CommitVoid(r) \/ CommitDelete(r) \/ Abandon(r) PROVE DebtInv'
  BY <1>13, CommitVoidKeeps, CommitDeleteKeeps, AbandonKeeps
<1> HIDE DEF DebtInv
<1> QED
  BY <1>1, <1>2, <1>3, <1>4, <1>5, <1>6, <1>7, <1>8, <1>9, <1>10, <1>11, <1>12, <1>13, Zenon DEF Next

(* The invariant holds of every behaviour, when the requests in progress     *)
(* are kept apart as in ReceivableLedgers.                                   *)
THEOREM DebtAlways ==
  ASSUME HarmsApart
  PROVE  Spec => []DebtInv
<1>1. DebtInv /\ [Next]_vars => DebtInv'
  BY DebtNext
<1> QED
  BY <1>1, DebtInit, PTL DEF Spec

LEMMA DebtsOfInv == DebtInv => DebtsAgree
<1> SUFFICES ASSUME DebtInv PROVE DebtsAgree
  OBVIOUS
<1>1. OwedIsUnpaid
  <2> SUFFICES ASSUME NEW o \in DOMAIN obligation, obligation[o].status # "CANCELLED"
               PROVE  /\ obligation[o].outstanding >= 0
                      /\ obligation[o].outstanding =
                           obligation[o].total - MapThenSumSet(LAMBDA p : payment[p].amount, PaymentsOn(o))
    BY DEF OwedIsUnpaid
  <2>1. /\ obligation[o].outstanding \in Nat /\ obligation[o].total \in Nat /\ PaidOn(o) \in Nat
        /\ obligation[o].outstanding = obligation[o].total - PaidOn(o)
    BY OutstandingIs, RowAt DEF DebtInv
  <2>2. PICK paid : paid = MapThenSumSet(LAMBDA p : payment[p].amount, PaymentsOn(o))
    OBVIOUS
  <2>3. paid = PaidOn(o)
    BY <2>2, PaidIsSum
  <2>4. obligation[o].outstanding >= 0 /\ obligation[o].outstanding = obligation[o].total - paid
    BY <2>1, <2>3
  <2> QED
    BY <2>2, <2>4
<1>2. InvoiceFollowsObligation
  <2> SUFFICES ASSUME NEW o \in DOMAIN obligation, NEW i, i = obligation[o].invoice,
                      i \in DOMAIN invoice, invoice[i].status # "VOID",
                      obligation[o].status # "CANCELLED"
               PROVE  /\ invoice[i].total = obligation[o].total
                      /\ invoice[i].due = obligation[o].outstanding
                      /\ invoice[i].paid = obligation[o].total - obligation[o].outstanding
    BY DEF InvoiceFollowsObligation
  <2>1. Matches(i, o)
    BY InForce DEF Dead
  <2> QED
    BY <2>1 DEF Matches
<1> QED
  BY <1>1, <1>2 DEF DebtsAgree

(* What is outstanding on an obligation is its total less the payments that *)
(* stand, and the invoice that raised it shows just that, however payments, *)
(* edits, sending and archiving are interleaved.                            *)
THEOREM DebtsAlwaysAgree ==
  ASSUME HarmsApart
  PROVE  Spec => []DebtsAgree
BY DebtsOfInv, DebtAlways, PTL

LEMMA ArchiveCloses ==
  ASSUME DebtInv, [Next]_vars
  PROVE  \A o \in DOMAIN obligation : ~obligation[o].archived /\ obligation'[o].archived =>
           obligation'[o].outstanding = 0 /\ obligation'[o].status \in {"PAID", "CANCELLED"}
<1> SUFFICES ASSUME NEW o \in DOMAIN obligation, ~obligation[o].archived, obligation'[o].archived
             PROVE  obligation'[o].outstanding = 0 /\ obligation'[o].status \in {"PAID", "CANCELLED"}
  OBVIOUS
<1>1. ASSUME obligation'[o] = obligation[o] PROVE FALSE
  BY <1>1
<1>2. ASSUME obligation'[o].archived = obligation[o].archived PROVE FALSE
  BY <1>2
<1>3. CASE UNCHANGED vars
  BY <1>1, <1>3 DEF vars
<1>4. ASSUME NEW u \in Obligations, NEW t \in Types, NEW x \in Amounts, CreateObligation(u, t, x)
      PROVE  FALSE
  <2>1. u # o
    BY <1>4, Zenon DEF CreateObligation
  <2>2. obligation'[o] = obligation[o]
    BY <1>4, <2>1 DEF CreateObligation, With
  <2> QED
    BY <1>1, <2>2
<1>5. ASSUME NEW r \in Requests, CommitPay(r) \/ CommitUnpay(r)
      PROVE  FALSE
  <2>1. PICK u, y : obligation' = Settled(u, y)
    BY <1>5 DEF CommitPay, CommitUnpay
  <2>2. obligation'[o].archived = obligation[o].archived
    <3>1. PICK st : st = ObligationStatus(obligation[u].total, y, obligation[u].status)
      OBVIOUS
    <3>2. PICK row : row = [obligation[u] EXCEPT !.outstanding = y, !.status = st]
      OBVIOUS
    <3>3. obligation' = [obligation EXCEPT ![u] = row]
      BY <2>1, <3>1, <3>2 DEF Settled
    <3>4. CASE u = o
      <4>1. obligation[o] \in Obligation
        BY DEF DebtInv, Kinds
      <4>2. row.archived = obligation[o].archived
        BY <3>2, <3>4, <4>1 DEF Obligation
      <4> QED
        BY <3>3, <3>4, <4>2
    <3> QED
      BY <3>3, <3>4
  <2> QED
    BY <1>2, <2>2
<1>6. ASSUME NEW r \in Requests, CommitArchive(r)
      PROVE  obligation'[o].outstanding = 0 /\ obligation'[o].status \in {"PAID", "CANCELLED"}
  <2>1. PICK u : u = req[r].obligation
    OBVIOUS
  <2>2. PICK old : old = IF req[r].seen = "OPEN" THEN Cancelled(obligation[u]) ELSE obligation[u]
    OBVIOUS
  <2>3. PICK row : row = [old EXCEPT !.archived = TRUE]
    OBVIOUS
  <2>4. req[r].pc = "archive" /\ obligation' = [obligation EXCEPT ![u] = row]
    BY <1>6, <2>1, <2>2, <2>3 DEF CommitArchive
  <2>5. u = o
    BY <1>1, <2>4
  <2>6. /\ obligation[o] \in Obligation /\ Owing(o) /\ Sound(req[r])
        /\ req[r].seen \in ObligationStatuses
    BY <2>4, RequestAt DEF DebtInv, Kinds
  <2>7. old \in Obligation /\ old.outstanding = 0 /\ old.status \in {"PAID", "CANCELLED"}
    <3>1. CASE req[r].seen = "OPEN"
      <4>1. old = Cancelled(obligation[o])
        BY <2>2, <2>5, <3>1
      <4>2. CASE obligation[o].status = "CANCELLED"
        BY <2>6, <4>1, <4>2 DEF Cancelled, Owing
      <4>3. CASE obligation[o].status # "CANCELLED"
        <5>1. PICK st, y : st = "CANCELLED" /\ y = 0
          OBVIOUS
        <5>2. old = [obligation[o] EXCEPT !.status = st, !.outstanding = y]
          BY <4>1, <4>3, <5>1 DEF Cancelled
        <5>3. st \in ObligationStatuses /\ y \in Nat
          BY <5>1 DEF ObligationStatuses
        <5>4. old \in Obligation /\ old.status = st /\ old.outstanding = y
          BY <2>6, <5>2, <5>3 DEF Obligation
        <5> QED
          BY <5>1, <5>4
      <4> QED
        BY <4>2, <4>3
    <3>2. CASE req[r].seen # "OPEN"
      <4>1. old = obligation[o]
        BY <2>2, <2>5, <3>2
      <4>2. obligation[o].status = "PAID" \/ obligation[o].status = "CANCELLED"
        BY <2>1, <2>4, <2>5, <2>6, <3>2 DEF Sound, ObligationStatuses
      <4>3. obligation[o].outstanding = 0
        BY <2>6, <4>2 DEF Owing
      <4> QED
        BY <2>6, <4>1, <4>2, <4>3
    <3> QED
      BY <3>1, <3>2
  <2>8. row.outstanding = old.outstanding /\ row.status = old.status
    BY <2>3, <2>7 DEF Obligation
  <2> QED
    BY <2>4, <2>5, <2>7, <2>8
<1>7. ASSUME NEW r \in Requests, NEW u \in Obligations, CommitSend(r, u)
      PROVE  FALSE
  <2>1. u # o
    BY <1>7, Zenon DEF CommitSend
  <2>2. obligation'[o] = obligation[o]
    BY <1>7, <2>1 DEF CommitSend, With
  <2> QED
    BY <1>1, <2>2
<1>8. ASSUME NEW r \in Requests, CommitVoid(r)
      PROVE  FALSE
  <2>1. obligation'[o] = obligation[o] \/ obligation'[o] = Cancelled(obligation[o])
    BY <1>8 DEF CommitVoid
  <2>2. Cancelled(obligation[o]).archived = obligation[o].archived
    <3>1. obligation[o] \in Obligation
      BY DEF DebtInv, Kinds
    <3>2. PICK st, y : st = "CANCELLED" /\ y = 0
      OBVIOUS
    <3>3. PICK row : row = [obligation[o] EXCEPT !.status = st, !.outstanding = y]
      OBVIOUS
    <3>4. row.archived = obligation[o].archived
      BY <3>1, <3>3 DEF Obligation
    <3> QED
      BY <3>2, <3>3, <3>4 DEF Cancelled
  <2> QED
    BY <1>1, <1>2, <2>1, <2>2
<1>9. ASSUME UNCHANGED obligation PROVE FALSE
  BY <1>1, <1>9
<1>10. ASSUME NEW i \in Invoices, NEW x \in Amounts, CreateInvoice(i, x) PROVE FALSE
  BY <1>9, <1>10, Zenon DEF CreateInvoice
<1>11. ASSUME NEW r \in Requests, NEW p \in Payments, NEW u \in Obligations, NEW x \in Amounts,
              ReadPay(r, p, u, x)
       PROVE  FALSE
  BY <1>9, <1>11, Zenon DEF ReadPay
<1>12. ASSUME NEW r \in Requests, NEW p \in Payments, ReadUnpay(r, p) PROVE FALSE
  BY <1>9, <1>12, Zenon DEF ReadUnpay
<1>13. ASSUME NEW r \in Requests, NEW u \in Obligations, ReadArchive(r, u) PROVE FALSE
  BY <1>9, <1>13, Zenon DEF ReadArchive
<1>14. ASSUME NEW r \in Requests, NEW i \in Invoices, NEW k \in {"update", "send", "void", "delete"},
              ReadInvoice(r, k, i)
       PROVE  FALSE
  BY <1>9, <1>14, Zenon DEF ReadInvoice
<1>15. ASSUME NEW r \in Requests, NEW x \in Amounts, CommitUpdate(r, x) PROVE FALSE
  BY <1>9, <1>15, Zenon DEF CommitUpdate
<1>16. ASSUME NEW r \in Requests, CommitDelete(r) \/ Abandon(r) PROVE FALSE
  BY <1>9, <1>16, Zenon DEF CommitDelete, Abandon
<1> QED
  BY <1>3, <1>4, <1>5, <1>6, <1>7, <1>8, <1>10, <1>11, <1>12, <1>13, <1>14, <1>15, <1>16, Zenon DEF Next

(* At the moment archiveObligation archives, nothing is outstanding and the *)
(* obligation is paid or cancelled, whatever was paid since it was read.    *)
THEOREM ArchivingAlwaysCloses ==
  ASSUME HarmsApart
  PROVE  Spec => ArchivingCloses
<1>1. DebtInv /\ [Next]_vars =>
        [\A o \in DOMAIN obligation : ~obligation[o].archived /\ obligation'[o].archived =>
           \/ obligation'[o].outstanding = 0 /\ obligation'[o].status \in {"PAID", "CANCELLED"}
           \/ /\ obligation[o].invoice # NoInvoice
              /\ obligation[o].invoice \in DOMAIN invoice =>
                   invoice[obligation[o].invoice].status = "VOID"]_vars
  BY ArchiveCloses
<1> QED
  BY <1>1, DebtAlways, PTL DEF Spec, ArchivingCloses
-----------------------------------------------------------------------------
(* The control account carries what is owed.                               *)

ControlOf(type) == System(IF type = "RECEIVABLE" THEN "AR" ELSE "AP")

(* What raising an obligation moves on its control account, and what       *)
(* writing it off and paying it take back.                                 *)
Raises(type, x)  == IF type = "RECEIVABLE" THEN x ELSE -x
Settlement(type, x) == IF type = "RECEIVABLE" THEN -x ELSE x

LEMMA SystemsDiffer ==
  /\ \A j, k : System(j) = System(k) => j = k
  /\ \A k, b : System(k) # BookCash(b)
BY DEF System, BookCash

LEMMA OweMoves ==
  ASSUME NEW t \in ObligationTypes, NEW x \in Nat
  PROVE  /\ DeltaOn(Legs(OweDraft(t, x)), {ControlOf(t)}) = Raises(t, x)
         /\ DeltaOn(Legs(WriteOffDraft(t, x)), {ControlOf(t)}) = Settlement(t, x)
<1>1. \A k \in {"DEFERRED_REVENUE", "DEFERRED_EXPENSE", "SUSPENSE"} : System(k) # ControlOf(t)
  BY SystemsDiffer DEF ControlOf
<1>2. PICK c : c = ControlOf(t)
  OBVIOUS
<1>3. PICK l : l = ObligationLegs(OweDraft(t, x))
  OBVIOUS
<1>4. PICK m : m = WriteOffLegs(WriteOffDraft(t, x))
  OBVIOUS
<1>5. /\ NetOn(l, 1, {c}) + NetOn(l, 2, {c}) = Raises(t, x)
      /\ NetOn(l, 3, {c}) = 0 /\ NetOn(l, 4, {c}) = 0 /\ NetOn(l, 5, {c}) = 0
  <2>1. CASE t = "RECEIVABLE"
    <3>1. /\ l[1].ref = c /\ l[2].ref # c /\ Net(l[1]) = x
          /\ l[3].ref # c /\ l[4].ref # c /\ l[5].ref # c
      BY <1>1, <1>2, <1>3, <2>1 DEF ObligationLegs, OweDraft, NoLeg, Dr, Cr, Net, ControlOf
    <3> QED
      BY <2>1, <3>1 DEF NetOn, Raises
  <2>2. CASE t # "RECEIVABLE"
    <3>1. /\ l[1].ref # c /\ l[2].ref = c /\ Net(l[2]) = -x
          /\ l[3].ref # c /\ l[4].ref # c /\ l[5].ref # c
      BY <1>1, <1>2, <1>3, <2>2 DEF ObligationLegs, OweDraft, NoLeg, Dr, Cr, Net, ControlOf
    <3> QED
      BY <2>2, <3>1 DEF NetOn, Raises
  <2> QED
    BY <2>1, <2>2
<1>6. /\ NetOn(m, 1, {c}) + NetOn(m, 2, {c}) = Settlement(t, x)
      /\ NetOn(m, 3, {c}) = 0 /\ NetOn(m, 4, {c}) = 0 /\ NetOn(m, 5, {c}) = 0
  <2>1. CASE t = "RECEIVABLE"
    <3>1. /\ m[1].ref # c /\ m[2].ref = c /\ Net(m[2]) = -x
          /\ m[3].ref # c /\ m[4].ref # c /\ m[5].ref # c
      BY <1>1, <1>2, <1>4, <2>1 DEF WriteOffLegs, WriteOffDraft, NoLeg, Dr, Cr, Net, ControlOf
    <3> QED
      BY <2>1, <3>1 DEF NetOn, Settlement
  <2>2. CASE t # "RECEIVABLE"
    <3>1. /\ m[1].ref = c /\ m[2].ref # c /\ Net(m[1]) = x
          /\ m[3].ref # c /\ m[4].ref # c /\ m[5].ref # c
      BY <1>1, <1>2, <1>4, <2>2 DEF WriteOffLegs, WriteOffDraft, NoLeg, Dr, Cr, Net, ControlOf
    <3> QED
      BY <2>2, <3>1 DEF NetOn, Settlement
  <2> QED
    BY <2>1, <2>2
<1>7. Legs(OweDraft(t, x)) = l /\ Legs(WriteOffDraft(t, x)) = m
  BY <1>3, <1>4 DEF Legs, OweDraft, WriteOffDraft
<1>8. Raises(t, x) \in Int /\ Settlement(t, x) \in Int
  BY DEF Raises, Settlement
<1>9. DeltaOn(l, {c}) = Raises(t, x)
  BY <1>5, <1>8 DEF DeltaOn
<1>10. DeltaOn(m, {c}) = Settlement(t, x)
  BY <1>6, <1>8 DEF DeltaOn
<1> QED
  BY <1>2, <1>7, <1>9, <1>10

LEMMA PaymentMoves ==
  ASSUME NEW t \in ObligationTypes, NEW o, obligation[o].type = t, NEW x \in Nat
  PROVE  DeltaOn(Legs(PaymentDraft(o, x)), {ControlOf(t)}) = Settlement(t, x)
<1>1. /\ \A k \in {"DEFERRED_REVENUE", "DEFERRED_EXPENSE", "TRANSACTION_FEES", "SALES_REVENUE",
                   "GENERAL_EXPENSES"} : System(k) # ControlOf(t)
      /\ BookCash("BOOK") # ControlOf(t)
  BY SystemsDiffer DEF ControlOf
<1>2. PICK c : c = ControlOf(t)
  OBVIOUS
<1>3. PICK d : d = PaymentDraft(o, x)
  OBVIOUS
<1>4. /\ d.rule = "CASHBOOK_ENTRY" /\ CashRef(d) = BookCash("BOOK")
      /\ d.money.type = (IF t = "RECEIVABLE" THEN "INCOME" ELSE "EXPENSE")
      /\ d.money.amount = x /\ d.settles = t
  BY <1>3 DEF PaymentDraft, CashRef
<1>5. CASE t = "RECEIVABLE"
  <2>1. PICK l : l = IncomeLegs(d)
    OBVIOUS
  <2>2. Legs(d) = l
    BY <1>4, <1>5, <2>1 DEF Legs, EntryLegs
  <2>3. Settles(d, "RECEIVABLE") = x
    BY <1>4, <1>5 DEF Settles
  <2>4. /\ l[1].ref # c /\ l[2].ref # c /\ l[3].ref = c /\ l[4].ref # c /\ l[5].ref # c
    BY <1>1, <1>2, <1>4, <1>5, <2>1, IncomeRefs DEF ControlOf
  <2>5. Net(l[3]) = -x
    BY <2>1, <2>3 DEF IncomeLegs, Dr, Cr, Net
  <2>6. /\ NetOn(l, 1, {c}) = 0 /\ NetOn(l, 2, {c}) = 0 /\ NetOn(l, 3, {c}) = -x
        /\ NetOn(l, 4, {c}) = 0 /\ NetOn(l, 5, {c}) = 0
    BY <2>4, <2>5 DEF NetOn
  <2>7. DeltaOn(l, {c}) = -x
    BY <2>6 DEF DeltaOn
  <2> QED
    BY <1>2, <1>3, <1>5, <2>2, <2>7 DEF Settlement
<1>6. CASE t = "PAYABLE"
  <2>1. PICK l : l = ExpenseLegs(d)
    OBVIOUS
  <2>2. Legs(d) = l
    BY <1>4, <1>6, <2>1 DEF Legs, EntryLegs
  <2>3. Settles(d, "PAYABLE") = x
    BY <1>4, <1>6 DEF Settles
  <2>4. /\ l[1].ref = c /\ l[2].ref # c /\ l[3].ref # c /\ l[4].ref # c /\ l[5].ref # c
    BY <1>1, <1>2, <1>4, <1>6, <2>1, ExpenseRefs DEF ControlOf
  <2>5. Net(l[1]) = x
    BY <2>1, <2>3 DEF ExpenseLegs, Dr, Cr, Net
  <2>6. /\ NetOn(l, 1, {c}) = x /\ NetOn(l, 2, {c}) = 0 /\ NetOn(l, 3, {c}) = 0
        /\ NetOn(l, 4, {c}) = 0 /\ NetOn(l, 5, {c}) = 0
    BY <2>4, <2>5 DEF NetOn
  <2>7. DeltaOn(l, {c}) = x
    BY <2>6 DEF DeltaOn
  <2> QED
    BY <1>2, <1>3, <1>6, <2>2, <2>7 DEF Settlement
<1> QED
  BY <1>5, <1>6 DEF ObligationTypes

LEMMA CarriedIsSum ==
  ASSUME NEW o, NEW c, c = ControlOf(obligation[o].type),
         NEW S, S = KeysOf(o) \intersect Posted(journals)
  PROVE  Carried(o) = Over([k \in S |-> DeltaOn(Legs(journals[k].draft), {c})], S)
<1> DEFINE f == [k \in S |-> DeltaOn(Legs(journals[k].draft), {c})]
           A(h) == [s \in SUBSET S |-> IF s = {} THEN 0
                      ELSE DeltaOn(Legs(journals[Pick(s)].draft), {c}) + h[s \ {Pick(s)}]]
           B(h) == [s \in SUBSET S |-> IF s = {} THEN 0 ELSE f[Pick(s)] + h[s \ {Pick(s)}]]
<1>1. \A s \in SUBSET S : s # {} => f[Pick(s)] = DeltaOn(Legs(journals[Pick(s)].draft), {c})
  BY PickIn
<1>2. \A h : A(h) = B(h)
  BY <1>1
<1>3. (CHOOSE h : h = A(h)) = (CHOOSE h : h = B(h))
  BY <1>2
<1>4. Carried(o) = (CHOOSE h : h = A(h))[S]
  BY DEF Carried, ControlOf, MapThenSumSet, MapThenFoldSet, Pick
<1>5. Over(f, S) = (CHOOSE h : h = B(h))[S]
  BY DEF Over, MapThenSumSet, MapThenFoldSet, Pick
<1> QED
  BY <1>3, <1>4, <1>5

(* The journals of the payments that stand.                                *)
PaidKeys(o) == {PaymentKey(p) : p \in PaymentsOn(o)}

LEMMA KeysPosted ==
  ASSUME DebtInv, NEW o \in DOMAIN obligation, obligation[o].invoice = NoInvoice
  PROVE  /\ KeysOf(o) \intersect Posted(journals) =
              ({OweKey(o)} \union PaidKeys(o))
                \union (IF WriteOffKey(o) \in DOMAIN journals THEN {WriteOffKey(o)} ELSE {})
         /\ journals[OweKey(o)].draft = OweDraft(obligation[o].type, obligation[o].total)
         /\ WriteOffKey(o) \in DOMAIN journals =>
              journals[WriteOffKey(o)].draft = WriteOffDraft(obligation[o].type, Lost(o))
         /\ \A p \in PaymentsOn(o) : journals[PaymentKey(p)].draft = PaymentDraft(o, payment[p].amount)
<1>1. Opened(o) /\ o \in Obligations
  BY RowAt DEF DebtInv, RowsAreBooked
<1>2. /\ OweKey(o) \in DOMAIN journals
      /\ journals[OweKey(o)] = [status |-> "POSTED", draft |-> OweDraft(obligation[o].type, obligation[o].total)]
      /\ WriteOffKey(o) \in DOMAIN journals =>
           journals[WriteOffKey(o)] = [status |-> "POSTED", draft |-> WriteOffDraft(obligation[o].type, Lost(o))]
  BY <1>1 DEF Opened
<1>3. \A p \in DOMAIN payment : payment[p].obligation = o =>
        /\ PaymentKey(p) \in DOMAIN journals
        /\ journals[PaymentKey(p)].status = "POSTED" <=> ~payment[p].deleted
        /\ journals[PaymentKey(p)].draft = PaymentDraft(o, payment[p].amount)
  <2> SUFFICES ASSUME NEW p \in DOMAIN payment, payment[p].obligation = o
               PROVE  /\ PaymentKey(p) \in DOMAIN journals
                      /\ journals[PaymentKey(p)].status = "POSTED" <=> ~payment[p].deleted
                      /\ journals[PaymentKey(p)].draft = PaymentDraft(o, payment[p].amount)
    OBVIOUS
  <2>1. Settling(p) /\ payment[p].deleted \in BOOLEAN
    BY PaymentAt DEF DebtInv, RowsAreBooked
  <2> QED
    BY <2>1 DEF Settling
<1>4. \A k : k \in KeysOf(o) \intersect Posted(journals) <=>
        \/ k = OweKey(o)
        \/ k = WriteOffKey(o) /\ WriteOffKey(o) \in DOMAIN journals
        \/ k \in PaidKeys(o)
  BY <1>2, <1>3 DEF KeysOf, Posted, PaidKeys, PaymentsOn
<1>5. KeysOf(o) \intersect Posted(journals) =
        ({OweKey(o)} \union PaidKeys(o))
          \union (IF WriteOffKey(o) \in DOMAIN journals THEN {WriteOffKey(o)} ELSE {})
  BY <1>4
<1> QED
  BY <1>2, <1>3, <1>5 DEF PaymentsOn

(* The journals of the payments carry what was paid, on the other side.    *)
LEMMA PaymentsCarried ==
  ASSUME DebtInv, NEW o \in DOMAIN obligation, NEW t, t = obligation[o].type,
         NEW f, \A p \in PaymentsOn(o) : f[PaymentKey(p)] = Settlement(t, payment[p].amount)
  PROVE  Summable(f, PaidKeys(o)) /\ Over(f, PaidKeys(o)) = Settlement(t, PaidOn(o))
<1> DEFINE P == PaymentsOn(o)
           a == [p \in P |-> payment[p].amount]
           b == [p \in P |-> Settlement(t, payment[p].amount)]
           g == [p \in P |-> PaymentKey(p)]
           U == PaidKeys(o)
<1>1. Kinds /\ t \in ObligationTypes
  BY RowAt DEF DebtInv
<1>2. Summable(a, P) /\ PaidOn(o) = Over(a, P) /\ PaidOn(o) \in Nat
  BY <1>1, PaidType DEF PaidOn
<1>3. \A p \in P : payment[p].amount \in Nat
  BY <1>1, PaymentAt DEF PaymentsOn
<1>4. U = {PaymentKey(p) : p \in P}
  BY DEF PaidKeys
<1> HIDE DEF P, U
<1>5. IsFiniteSet(U)
  <2>1. g \in Surjection(P, U)
    BY <1>4 DEF Surjection
  <2>2. IsFiniteSet(P)
    BY <1>2 DEF Summable
  <2> QED
    BY <2>1, <2>2, FS_Surjection
<1>6. Summable(b, P) /\ Over(b, P) = Settlement(t, PaidOn(o))
  <2>1. \A p \in P : a[p] = payment[p].amount /\ b[p] = Settlement(t, payment[p].amount)
    OBVIOUS
  <2>2. IsFiniteSet(P)
    BY <1>2 DEF Summable
  <2> HIDE DEF a, b
  <2>3. Summable(b, P)
    BY <1>3, <2>1, <2>2 DEF Summable, Settlement
  <2>4. CASE t = "RECEIVABLE"
    <3>1. \A p \in P : b[p] = -a[p]
      BY <2>1, <2>4 DEF Settlement
    <3>2. Over(b, P) = -Over(a, P)
      BY <1>2, <3>1, SumNegated
    <3> QED
      BY <1>2, <2>3, <2>4, <3>2 DEF Settlement
  <2>5. CASE t # "RECEIVABLE"
    <3>1. \A p \in P : a[p] = b[p]
      BY <2>1, <2>5 DEF Settlement
    <3>2. Over(b, P) = Over(a, P)
      BY <3>1, SumSame
    <3> QED
      BY <1>2, <2>3, <2>5, <3>2 DEF Settlement
  <2> QED
    BY <2>4, <2>5
<1>7. \A p \in P : g[p] \in U /\ f[g[p]] = b[p]
  BY <1>4 DEF P
<1>8. \A p, q \in P : g[p] = g[q] => p = q
  BY KeysApart
<1>9. \A k \in U : \E p \in P : g[p] = k
  BY <1>4
<1>10. Summable(f, U)
  BY <1>5, <1>6, <1>7, <1>9 DEF Summable
<1> HIDE DEF a, b, g
<1>11. Over(b, P) = Over(f, U)
  BY <1>6, <1>7, <1>8, <1>9, <1>10, SumMatch
<1> QED
  BY <1>6, <1>10, <1>11 DEF U

LEMMA CarriedByLedger ==
  ASSUME DebtInv, NEW o \in DOMAIN obligation, obligation[o].invoice = NoInvoice
  PROVE  Carried(o) = IF obligation[o].type = "RECEIVABLE" THEN obligation[o].outstanding
                      ELSE -obligation[o].outstanding
<1>1. PICK t, c : t = obligation[o].type /\ c = ControlOf(t)
  OBVIOUS
<1>2. PICK S : S = KeysOf(o) \intersect Posted(journals)
  OBVIOUS
<1>3. PICK f : f = [k \in S |-> DeltaOn(Legs(journals[k].draft), {c})]
  OBVIOUS
<1>4. Carried(o) = Over(f, S)
  BY <1>1, <1>2, <1>3, CarriedIsSum
<1>5. /\ t \in ObligationTypes /\ obligation[o].total \in Nat /\ obligation[o].outstanding \in Nat
      /\ Lost(o) \in Nat /\ PaidOn(o) \in Nat
      /\ obligation[o].outstanding = obligation[o].total - PaidOn(o) - Lost(o)
  BY <1>1, RowAt, OutstandingIs DEF DebtInv
<1>6. PICK W : W = IF WriteOffKey(o) \in DOMAIN journals THEN {WriteOffKey(o)} ELSE {}
  OBVIOUS
<1>7. S = ({OweKey(o)} \union PaidKeys(o)) \union W
  BY <1>2, <1>6, KeysPosted
<1>8. f[OweKey(o)] = Raises(t, obligation[o].total)
  <2>1. journals[OweKey(o)].draft = OweDraft(t, obligation[o].total)
    BY <1>1, KeysPosted
  <2> QED
    BY <1>1, <1>3, <1>5, <1>7, <2>1, OweMoves
<1>9. WriteOffKey(o) \in DOMAIN journals => f[WriteOffKey(o)] = Settlement(t, Lost(o))
  <2> SUFFICES ASSUME WriteOffKey(o) \in DOMAIN journals PROVE f[WriteOffKey(o)] = Settlement(t, Lost(o))
    OBVIOUS
  <2>1. journals[WriteOffKey(o)].draft = WriteOffDraft(t, Lost(o))
    BY <1>1, KeysPosted
  <2>2. WriteOffKey(o) \in S
    BY <1>6, <1>7
  <2> QED
    BY <1>1, <1>3, <1>5, <2>1, <2>2, OweMoves
<1>10. \A p \in PaymentsOn(o) : f[PaymentKey(p)] = Settlement(t, payment[p].amount)
  <2> TAKE p \in PaymentsOn(o)
  <2>1. PaymentKey(p) \in S
    BY <1>7 DEF PaidKeys
  <2>2. journals[PaymentKey(p)].draft = PaymentDraft(o, payment[p].amount)
    BY KeysPosted
  <2>3. payment[p].amount \in Nat
    BY PaymentAt DEF DebtInv, PaymentsOn
  <2> QED
    BY <1>1, <1>3, <1>5, <2>1, <2>2, <2>3, PaymentMoves
<1>11. Summable(f, PaidKeys(o)) /\ Over(f, PaidKeys(o)) = Settlement(t, PaidOn(o))
  BY <1>1, <1>10, PaymentsCarried
<1>12. OweKey(o) \notin PaidKeys(o) /\ WriteOffKey(o) \notin {OweKey(o)} \union PaidKeys(o)
  BY KeysApart DEF PaidKeys
<1>13. Raises(t, obligation[o].total) \in Int /\ Settlement(t, Lost(o)) \in Int /\ Settlement(t, PaidOn(o)) \in Int
  BY <1>5 DEF Raises, Settlement
<1>14. PICK U : U = {OweKey(o)} \union PaidKeys(o)
  OBVIOUS
<1>15. Summable(f, U) /\ Over(f, U) = Raises(t, obligation[o].total) + Settlement(t, PaidOn(o))
  <2>1. U = PaidKeys(o) \union {OweKey(o)}
    BY <1>14
  <2> QED
    BY <1>8, <1>11, <1>12, <1>13, <2>1, SumAdd
<1>16. Over(f, S) = Raises(t, obligation[o].total) + Settlement(t, PaidOn(o)) + Settlement(t, Lost(o))
  <2>1. CASE WriteOffKey(o) \in DOMAIN journals
    <3>1. S = U \union {WriteOffKey(o)} /\ WriteOffKey(o) \notin U
      BY <1>6, <1>7, <1>12, <1>14, <2>1
    <3>2. f[WriteOffKey(o)] = Settlement(t, Lost(o))
      BY <1>9, <2>1
    <3>3. Over(f, S) = f[WriteOffKey(o)] + Over(f, U)
      BY <1>13, <1>15, <3>1, <3>2, SumAdd
    <3> QED
      BY <1>13, <1>15, <3>2, <3>3
  <2>2. CASE WriteOffKey(o) \notin DOMAIN journals
    <3>1. S = U
      BY <1>6, <1>7, <1>14, <2>2
    <3>2. Settlement(t, Lost(o)) = 0
      <4>1. Lost(o) = 0
        BY <2>2 DEF Lost
      <4>2. Settlement(t, Lost(o)) = Lost(o) \/ Settlement(t, Lost(o)) = -Lost(o)
        BY DEF Settlement
      <4> QED
        BY <4>1, <4>2
    <3> QED
      BY <1>13, <1>15, <3>1, <3>2
  <2> QED
    BY <2>1, <2>2
<1>17. Over(f, S) = Raises(t, obligation[o].outstanding)
  BY <1>5, <1>16 DEF Raises, Settlement
<1> QED
  BY <1>1, <1>4, <1>17 DEF Raises

(* On the control account of an obligation that was created directly, its   *)
(* journal, its write-off and its payments carry what is outstanding on it,  *)
(* and nothing else, through every payment, correction and archiving.       *)
THEOREM LedgerAlwaysCarries ==
  ASSUME HarmsApart
  PROVE  Spec => []LedgerCarriesWhatIsOwed
<1>1. DebtInv => LedgerCarriesWhatIsOwed
  BY CarriedByLedger DEF LedgerCarriesWhatIsOwed
<1> QED
  BY <1>1, DebtAlways, PTL
=============================================================================
