---------------------------- MODULE Receivables ----------------------------
(***************************************************************************)
(* Obligations, the invoices that raise them, the payments that settle     *)
(* them, and the AR and AP control accounts of the ledger                  *)
(* (src/modules/cashbook-obligations, src/modules/invoicing and the        *)
(* obligation half of src/modules/entries).                                *)
(*                                                                         *)
(* Every handler reads its row without a lock, decides, and then writes in *)
(* one transaction: the Read actions hold what was read, the Commit        *)
(* actions use it.  Payments and archiving lock the obligation and read it *)
(* again; invoice handlers trust what they read.                           *)
(*                                                                         *)
(* A payment is the entry that settles an obligation, in one book and      *)
(* without a wallet; editing entries is the subject of EntryLedger.  The   *)
(* stock of an invoice is one line of one item.                            *)
(***************************************************************************)
EXTENDS Posting

CONSTANTS
  Obligations,   \* identifiers of obligations
  Invoices,      \* identifiers of invoices
  Payments,      \* identifiers of the entries that pay
  Amounts,       \* totals and payments
  Types,         \* the types of obligation clients create
  Requests,      \* requests that may be in progress at one time
  Operations,    \* the operations the clients use
  Overlapping,   \* the pairs of operations they have in progress at one time
  NoInvoice

AllOperations == {"owe", "pay", "unpay", "archive", "invoice", "update", "send", "void", "delete"}

ASSUME ReceivablesAssumption ==
  /\ Amounts \subseteq Nat \ {0}
  /\ Types \subseteq ObligationTypes
  /\ Operations \subseteq AllOperations
  /\ Overlapping \subseteq SUBSET Operations
  /\ NoInvoice \notin Invoices

VARIABLES
  obligation,   \* cashbook_obligations
  invoice,      \* invoices
  payment,      \* the entries that settle obligations
  stock,        \* inventory_transactions of each invoice: units out and units back
  journals,     \* journal_entries by posting key
  req           \* the requests in progress

vars == <<obligation, invoice, payment, stock, journals, req>>

ObligationStatuses == {"OPEN", "PARTIAL", "PAID", "CANCELLED"}
InvoiceStatuses    == {"DRAFT", "SENT", "PARTIALLY_PAID", "PAID", "VOID"}
Sent               == {"SENT", "PARTIALLY_PAID"}

Obligation == [type : ObligationTypes, total : Nat, outstanding : Nat,
               status : ObligationStatuses, archived : BOOLEAN,
               invoice : Invoices \union {NoInvoice}]
Invoice    == [status : InvoiceStatuses, total : Nat, paid : Nat, due : Nat]
Payment    == [obligation : Obligations, amount : Nat, deleted : BOOLEAN]

OweKey(o)      == <<"obligation", o>>
WriteOffKey(o) == <<"write-off", o>>
PaymentKey(p)  == <<"entry", p>>

Keys == ({"obligation", "write-off"} \X Obligations) \union ({"entry"} \X Payments)

Idle    == [pc |-> "idle"]
Request ==
  {Idle}
    \union [pc : {"pay"}, payment : Payments, obligation : Obligations, amount : Amounts]
    \union [pc : {"unpay"}, payment : Payments]
    \union [pc : {"archive"}, obligation : Obligations, seen : ObligationStatuses]
    \union [pc : {"send", "void"}, invoice : Invoices, seen : Invoice]
    \union [pc : {"update", "delete"}, invoice : Invoices]

TypeOK ==
  /\ DOMAIN obligation \subseteq Obligations
  /\ \A o \in DOMAIN obligation : obligation[o] \in Obligation
  /\ DOMAIN invoice \subseteq Invoices
  /\ \A i \in DOMAIN invoice : invoice[i] \in Invoice
  /\ DOMAIN payment \subseteq Payments
  /\ \A p \in DOMAIN payment : payment[p] \in Payment
  /\ stock \in [Invoices -> [out : Nat, back : Nat]]
  /\ DOMAIN journals \subseteq Keys
  /\ req \in [Requests -> Request]

-----------------------------------------------------------------------------
(* Helpers.                                                                *)

With(f, x, value) == [y \in DOMAIN f \union {x} |-> IF y = x THEN value ELSE f[y]]

(* invoiceStatusFromOutstanding: nothing writes OVERDUE.                   *)
InvoiceStatus(total, outstanding, previous) ==
  IF previous \in {"VOID", "DRAFT"} THEN previous
  ELSE IF outstanding <= 0 THEN "PAID"
  ELSE IF total - outstanding > 0 THEN "PARTIALLY_PAID"
  ELSE "SENT"

(* syncInvoiceFromObligation, called with the new outstanding amount: does *)
(* nothing for an obligation no invoice raised, or whose invoice is gone.  *)
Synced(o, outstanding) ==
  LET i == obligation[o].invoice
  IN  IF i \notin DOMAIN invoice THEN invoice
      ELSE LET total == invoice[i].total
               due   == IF outstanding < 0 THEN 0 ELSE outstanding
           IN  [invoice EXCEPT
                  ![i].paid = IF total - outstanding < 0 THEN total ELSE total - outstanding,
                  ![i].due = due,
                  ![i].status = InvoiceStatus(total, due, @)]

Settled(o, outstanding) ==
  [obligation EXCEPT
     ![o].outstanding = outstanding,
     ![o].status = ObligationStatus(obligation[o].total, outstanding, @)]

OweDraft(type, x)      == [rule |-> "OBLIGATION", type |-> type, amount |-> x]
WriteOffDraft(type, x) == [rule |-> "WRITE_OFF", type |-> type, amount |-> x]

PaymentDraft(o, x) ==
  LET type == obligation[o].type
  IN  [rule |-> "CASHBOOK_ENTRY", book |-> "BOOK", linked |-> FALSE, obligation |-> o,
       money |-> [type |-> IF type = "RECEIVABLE" THEN "INCOME" ELSE "EXPENSE",
                  amount |-> x, charge |-> 0],
       settles |-> type]

(* Altered form: the obligation is closed and its balance left on the books. *)
WrittenOff_Never(js, o) == js

(* The write-off of cancelObligationInTx, of what is still outstanding.    *)
WrittenOff(js, o) ==
  IF obligation[o].status = "CANCELLED" \/ obligation[o].outstanding <= 0
     \/ WriteOffKey(o) \in DOMAIN js
  THEN js
  ELSE PostIn(js, WriteOffKey(o),
              WriteOffDraft(obligation[o].type, obligation[o].outstanding))

(* Altered form of Cancelled: a bare status flip.                          *)
Cancelled_FlipOnly(row) == [row EXCEPT !.status = "CANCELLED"]

(* The rows it leaves: a cancelled obligation is left as it is.            *)
Cancelled(row) ==
  IF row.status = "CANCELLED" THEN row
  ELSE [row EXCEPT !.status = "CANCELLED", !.outstanding = 0]

(* Altered form of Payable: against the total, not what is outstanding.    *)
Payable_AgainstTotal(o, x) == x <= obligation[o].total

(* What the overpayment checks ask.                                        *)
Payable(o, x) == x <= obligation[o].outstanding

(* The clients of this instance: two requests are in progress together     *)
(* only if their operations are a pair of Overlapping ({a} for a twice).   *)
Admits(r, kind) ==
  \A s \in Requests \ {r} : req[s] # Idle => {kind, req[s].pc} \in Overlapping

Finish(r) == req' = [req EXCEPT ![r] = Idle]

-----------------------------------------------------------------------------
Init ==
  /\ obligation = << >>
  /\ invoice = << >>
  /\ payment = << >>
  /\ stock = [i \in Invoices |-> [out |-> 0, back |-> 0]]
  /\ journals = << >>
  /\ req = [r \in Requests |-> Idle]

(* createObligation: the row and its opening journal in one transaction.   *)
CreateObligation(o, type, x) ==
  /\ "owe" \in Operations
  /\ o \notin DOMAIN obligation
  /\ obligation' = With(obligation, o,
       [type |-> type, total |-> x, outstanding |-> x, status |-> "OPEN",
        archived |-> FALSE, invoice |-> NoInvoice])
  /\ journals' = PostIn(journals, OweKey(o), OweDraft(type, x))
  /\ UNCHANGED <<invoice, payment, stock, req>>

-----------------------------------------------------------------------------
(* createEntryWithin with an obligation: checked, then locked and checked  *)
(* again for overpayment only.                                             *)
ReadPay(r, p, o, x) ==
  /\ "pay" \in Operations
  /\ req[r] = Idle
  /\ Admits(r, "pay")
  /\ p \notin DOMAIN payment
  /\ \A q \in Requests : req[q].pc = "pay" => req[q].payment # p     \* a fresh uuid
  /\ o \in DOMAIN obligation
  /\ ~obligation[o].archived
  /\ obligation[o].status \notin {"PAID", "CANCELLED"}
  /\ Payable(o, x)
  /\ req' = [req EXCEPT ![r] = [pc |-> "pay", payment |-> p, obligation |-> o, amount |-> x]]
  /\ UNCHANGED <<obligation, invoice, payment, stock, journals>>

CommitPay(r) ==
  LET o    == req[r].obligation
      p    == req[r].payment
      x    == req[r].amount
      owed == obligation[o].outstanding - x
  IN /\ req[r].pc = "pay"
     /\ Payable(o, x)
     /\ payment' = With(payment, p, [obligation |-> o, amount |-> x, deleted |-> FALSE])
     /\ obligation' = Settled(o, owed)
     /\ invoice' = Synced(o, owed)
     /\ journals' = PostIn(journals, PaymentKey(p), PaymentDraft(o, x))
     /\ Finish(r)
     /\ UNCHANGED stock

(* deleteEntry of a payment: the obligation grows again, up to its total,  *)
(* whatever has become of it.                                              *)
ReadUnpay(r, p) ==
  /\ "unpay" \in Operations
  /\ req[r] = Idle
  /\ Admits(r, "unpay")
  /\ p \in DOMAIN payment /\ ~payment[p].deleted
  /\ req' = [req EXCEPT ![r] = [pc |-> "unpay", payment |-> p]]
  /\ UNCHANGED <<obligation, invoice, payment, stock, journals>>

CommitUnpay(r) ==
  LET p     == req[r].payment
      o     == payment[p].obligation
      grown == obligation[o].outstanding + payment[p].amount
      owed  == IF grown > obligation[o].total THEN obligation[o].total ELSE grown
  IN /\ req[r].pc = "unpay"
     /\ payment' = [payment EXCEPT ![p].deleted = TRUE]
     /\ obligation' = Settled(o, owed)
     /\ invoice' = Synced(o, owed)
     /\ journals' = ReverseIn(journals, PaymentKey(p))
     /\ Finish(r)
     /\ UNCHANGED stock

-----------------------------------------------------------------------------
(* archiveObligation: refused while partly paid; cancels what was open when *)
(* it was read.                                                             *)
ReadArchive(r, o) ==
  /\ "archive" \in Operations
  /\ req[r] = Idle
  /\ Admits(r, "archive")
  /\ o \in DOMAIN obligation
  /\ obligation[o].status # "PARTIAL"
  /\ ~obligation[o].archived
  /\ req' = [req EXCEPT ![r] = [pc |-> "archive", obligation |-> o,
                                seen |-> obligation[o].status]]
  /\ UNCHANGED <<obligation, invoice, payment, stock, journals>>

CommitArchive(r) ==
  LET o      == req[r].obligation
      cancel == req[r].seen = "OPEN"
      row    == IF cancel THEN Cancelled(obligation[o]) ELSE obligation[o]
  IN /\ req[r].pc = "archive"
     /\ obligation' = [obligation EXCEPT ![o] = [row EXCEPT !.archived = TRUE]]
     /\ journals' = IF cancel THEN WrittenOff(journals, o) ELSE journals
     /\ Finish(r)
     /\ UNCHANGED <<invoice, payment, stock>>

-----------------------------------------------------------------------------
(* createInvoice.                                                          *)
CreateInvoice(i, x) ==
  /\ "invoice" \in Operations
  /\ i \notin DOMAIN invoice /\ stock[i].out = 0
  /\ \A o \in DOMAIN obligation : obligation[o].invoice # i          \* a fresh uuid
  /\ invoice' = With(invoice, i, [status |-> "DRAFT", total |-> x, paid |-> 0, due |-> x])
  /\ UNCHANGED <<obligation, payment, stock, journals, req>>

(* Altered form of Allows: an invoice with payments may be voided.         *)
Allows_VoidPaid(kind, row) ==
  CASE kind = "update" -> row.status = "DRAFT"
    [] kind = "send"   -> row.status = "DRAFT"
    [] kind = "void"   -> row.status # "VOID"
    [] kind = "delete" -> row.status \in {"DRAFT", "VOID"} /\ row.paid <= 0

(* What updateInvoice, sendInvoice, voidInvoice and deleteInvoice ask of   *)
(* the row they read.                                                      *)
Allows(kind, row) ==
  CASE kind = "update" -> row.status = "DRAFT"
    [] kind = "send"   -> row.status = "DRAFT"
    [] kind = "void"   -> row.status # "VOID" /\ row.paid <= 0
    [] kind = "delete" -> row.status \in {"DRAFT", "VOID"} /\ row.paid <= 0

ReadInvoice(r, kind, i) ==
  /\ kind \in Operations
  /\ req[r] = Idle
  /\ Admits(r, kind)
  /\ i \in DOMAIN invoice
  /\ Allows(kind, invoice[i])
  /\ req' = [req EXCEPT ![r] = IF kind \in {"send", "void"}
                               THEN [pc |-> kind, invoice |-> i, seen |-> invoice[i]]
                               ELSE [pc |-> kind, invoice |-> i]]
  /\ UNCHANGED <<obligation, invoice, payment, stock, journals>>

(* updateInvoice with new items: total and due are written anew.           *)
CommitUpdate(r, x) ==
  LET i == req[r].invoice
  IN /\ req[r].pc = "update"
     /\ i \in DOMAIN invoice
     /\ invoice' = [invoice EXCEPT ![i].total = x, ![i].due = x]
     /\ Finish(r)
     /\ UNCHANGED <<obligation, payment, stock, journals>>

(* sendInvoice: the obligation is raised from the row as it was read, and  *)
(* the goods leave the stock.  Nothing is posted.                          *)
CommitSend(r, o) ==
  LET i    == req[r].invoice
      seen == req[r].seen
  IN /\ req[r].pc = "send"
     /\ i \in DOMAIN invoice
     /\ o \notin DOMAIN obligation
     /\ invoice' = [invoice EXCEPT ![i].status = "SENT"]
     /\ obligation' = With(obligation, o,
          [type |-> "RECEIVABLE", total |-> seen.total, outstanding |-> seen.due,
           status |-> "OPEN", archived |-> FALSE, invoice |-> i])
     /\ stock' = [stock EXCEPT ![i].out = @ + 1]
     /\ Finish(r)
     /\ UNCHANGED <<payment, journals>>

RaisedBy(i) == {o \in DOMAIN obligation : obligation[o].invoice = i}

(* voidInvoice: if the row it read was sent, the obligations it raised are *)
(* cancelled and every sale of it comes back to the stock.                 *)
CommitVoid(r) ==
  LET i       == req[r].invoice
      wasSent == req[r].seen.status \in Sent
  IN /\ req[r].pc = "void"
     /\ i \in DOMAIN invoice
     /\ invoice' = [invoice EXCEPT ![i].status = "VOID"]
     /\ obligation' = IF wasSent
                      THEN [o \in DOMAIN obligation |->
                              IF o \in RaisedBy(i) THEN Cancelled(obligation[o])
                              ELSE obligation[o]]
                      ELSE obligation
     /\ journals' = IF wasSent
                    THEN FoldSet(LAMBDA o, js : WrittenOff(js, o), journals, RaisedBy(i))
                    ELSE journals
     /\ stock' = IF wasSent THEN [stock EXCEPT ![i].back = @ + stock[i].out] ELSE stock
     /\ Finish(r)
     /\ UNCHANGED payment

(* deleteInvoice: the row goes; an obligation keeps its reference to it.   *)
CommitDelete(r) ==
  /\ req[r].pc = "delete"
  /\ req[r].invoice \in DOMAIN invoice
  /\ invoice' = [i \in DOMAIN invoice \ {req[r].invoice} |-> invoice[i]]
  /\ Finish(r)
  /\ UNCHANGED <<obligation, payment, stock, journals>>

(* A request that is refused or dies with its process.                     *)
Abandon(r) ==
  /\ req[r] # Idle
  /\ Finish(r)
  /\ UNCHANGED <<obligation, invoice, payment, stock, journals>>

-----------------------------------------------------------------------------
Next ==
  \/ \E o \in Obligations, t \in Types, x \in Amounts : CreateObligation(o, t, x)
  \/ \E i \in Invoices, x \in Amounts : CreateInvoice(i, x)
  \/ \E r \in Requests :
       \/ \E p \in Payments, o \in Obligations, x \in Amounts : ReadPay(r, p, o, x)
       \/ CommitPay(r)
       \/ \E p \in Payments : ReadUnpay(r, p)
       \/ CommitUnpay(r)
       \/ \E o \in Obligations : ReadArchive(r, o)
       \/ CommitArchive(r)
       \/ \E i \in Invoices, k \in {"update", "send", "void", "delete"} : ReadInvoice(r, k, i)
       \/ \E x \in Amounts : CommitUpdate(r, x)
       \/ \E o \in Obligations : CommitSend(r, o)
       \/ CommitVoid(r)
       \/ CommitDelete(r)
       \/ Abandon(r)

Spec == Init /\ [][Next]_vars

-----------------------------------------------------------------------------
(* Properties.                                                             *)

Control(key) ==
  MapThenSumSet(LAMBDA k : DeltaOn(Legs(journals[k].draft), {System(key)}), Posted(journals))

Owed(type) ==
  MapThenSumSet(LAMBDA o : obligation[o].outstanding,
    {o \in DOMAIN obligation : /\ obligation[o].type = type
                               /\ obligation[o].status \in {"OPEN", "PARTIAL"}
                               /\ ~obligation[o].archived})

(* checkObligationControls: what is owed to the workspace is the balance of *)
(* AR, and what it owes the balance of AP.                                  *)
ControlsAgree == Control("AR") = Owed("RECEIVABLE") /\ Control("AP") = -Owed("PAYABLE")

(* The journals of an obligation, its write-off and its payments carry     *)
(* what is still owed on it, and nothing else: the share of each obligation *)
(* in what checkObligationControls compares.  An invoice posts no journal   *)
(* of its own, so this is about the obligations created directly.           *)
KeysOf(o) == {OweKey(o), WriteOffKey(o)}
               \union {PaymentKey(p) : p \in {p \in DOMAIN payment : payment[p].obligation = o}}

Carried(o) ==
  LET control == System(IF obligation[o].type = "RECEIVABLE" THEN "AR" ELSE "AP")
  IN  MapThenSumSet(LAMBDA k : DeltaOn(Legs(journals[k].draft), {control}),
                    KeysOf(o) \intersect Posted(journals))

LedgerCarriesWhatIsOwed ==
  \A o \in DOMAIN obligation : obligation[o].invoice = NoInvoice =>
    Carried(o) = IF obligation[o].type = "RECEIVABLE" THEN obligation[o].outstanding
                 ELSE -obligation[o].outstanding

(* Archiving closes: at the moment it happens nothing is left to collect   *)
(* or to pay, whatever was paid since archiveObligation read the row.  Of  *)
(* a void invoice a payment may be taken back even so, see VoidSettles.    *)
ArchivingCloses ==
  [][\A o \in DOMAIN obligation : ~obligation[o].archived /\ obligation'[o].archived =>
       \/ obligation'[o].outstanding = 0 /\ obligation'[o].status \in {"PAID", "CANCELLED"}
       \/ /\ obligation[o].invoice # NoInvoice
          /\ obligation[o].invoice \in DOMAIN invoice =>
               invoice[obligation[o].invoice].status = "VOID"]_vars

(* What is owed is the total less the payments that stand, unless the      *)
(* obligation was cancelled.                                               *)
PaymentsOn(o) == {p \in DOMAIN payment : payment[p].obligation = o /\ ~payment[p].deleted}

OwedIsUnpaid ==
  \A o \in DOMAIN obligation : obligation[o].status # "CANCELLED" =>
    /\ obligation[o].outstanding >= 0
    /\ obligation[o].outstanding =
         obligation[o].total - MapThenSumSet(LAMBDA p : payment[p].amount, PaymentsOn(o))

(* An invoice that is not void shows what its obligation says, unless that *)
(* one was cancelled: the same total, due what is outstanding, paid the    *)
(* rest.                                                                   *)
InvoiceFollowsObligation ==
  \A o \in DOMAIN obligation :
    LET i == obligation[o].invoice
    IN  i \in DOMAIN invoice /\ invoice[i].status # "VOID"
          /\ obligation[o].status # "CANCELLED" =>
          /\ invoice[i].total = obligation[o].total
          /\ invoice[i].due = obligation[o].outstanding
          /\ invoice[i].paid = obligation[o].total - obligation[o].outstanding

(* Voiding undoes the sale, as the comments of voidInvoice have it: the    *)
(* obligation of a void invoice is cancelled, nothing is outstanding on    *)
(* it, and the goods are back.                                             *)
Undone(i) ==
  /\ \A o \in RaisedBy(i) : obligation[o].status = "CANCELLED" /\ obligation[o].outstanding = 0
  /\ stock[i].out = stock[i].back

VoidUndoesSale == \A i \in DOMAIN invoice : invoice[i].status = "VOID" => Undone(i)

(* What is owed, what was paid and what the invoice shows are one account  *)
(* of the same debt, though payments race for what is outstanding.  It     *)
(* fails where an invoice is edited, deleted or sent while it is sent.     *)
DebtsAgree == OwedIsUnpaid /\ InvoiceFollowsObligation

(* An invoice is clean when, void, its sale is undone and none of its      *)
(* payments stands; otherwise, when none of its goods came back.           *)
Clean(i) ==
  i \in DOMAIN invoice =>
    IF invoice[i].status = "VOID"
    THEN Undone(i) /\ \A o \in RaisedBy(i) : PaymentsOn(o) = {}
    ELSE stock[i].back = 0

(* The step ends a void of i on a row that is no longer what it read.      *)
StaleVoid(r, i) ==
  req[r].pc = "void" /\ req[r].invoice = i /\ invoice[i] # req[r].seen /\ req'[r] = Idle

(* A void invoice leaves nothing behind, no sale, no payment and no goods, *)
(* and no other request brings any of it back, unless the invoice was      *)
(* sent, paid, edited or voided since the voidInvoice in progress read it, *)
(* or its obligation is archived: what archiving wrote off, a payment that *)
(* is taken back later reopens, and voiding leaves a cancelled one alone.  *)
VoidSettles ==
  [][\A i \in Invoices : Clean(i) /\ ~Clean(i)' =>
       \/ \E r \in Requests : StaleVoid(r, i)
       \/ \E o \in RaisedBy(i) : obligation[o].archived]_vars
=============================================================================
