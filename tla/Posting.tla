------------------------------ MODULE Posting ------------------------------
(***************************************************************************)
(* The pure part of the general ledger: the money formulas of              *)
(* core/finance/money.ts, the posting rules of core/ledger/rules, and what *)
(* PostingService does to the set of journals and to the cached balances.  *)
(*                                                                         *)
(* A draft is the input of a posting rule.  A journal is a draft together  *)
(* with its status; its legs are derived from the draft by Legs, so that   *)
(* a state carries five small fields instead of five ledger lines.  The    *)
(* mirror-image REVERSING journal of a reversed journal is not stored: a   *)
(* journal is REVERSED exactly when its mirror image exists, and together  *)
(* they contribute nothing.                                                *)
(***************************************************************************)
EXTENDS Integers, FiniteSets, FiniteSetsExt

EntryTypes      == {"INCOME", "EXPENSE"}
ObligationTypes == {"RECEIVABLE", "PAYABLE"}

-----------------------------------------------------------------------------
(* core/finance/money.ts.  A money value m has a type, an amount and a     *)
(* charge; amounts and charges are never negative.                         *)

EffectiveCash(m) ==
  IF m.type = "INCOME" THEN m.amount - m.charge ELSE m.amount + m.charge

WalletDelta(m) == IF m.type = "INCOME" THEN EffectiveCash(m) ELSE -EffectiveCash(m)

BookDelta(m, linked) == IF linked THEN 0 ELSE WalletDelta(m)

IncomeDelta(m)  == IF m.type = "INCOME" THEN m.amount ELSE 0

ExpenseDelta(m) == IF m.type = "INCOME" THEN m.charge ELSE m.amount + m.charge

(* obligationStatusFromAmounts: CANCELLED is sticky.                       *)
ObligationStatus(total, outstanding, current) ==
  IF current = "CANCELLED" THEN "CANCELLED"
  ELSE IF outstanding <= 0 THEN "PAID"
  ELSE IF outstanding >= total THEN "OPEN"
  ELSE "PARTIAL"

-----------------------------------------------------------------------------
(* Legs.  A leg names the ledger account it falls on by a reference: a     *)
(* system account, the private cash account of a book, or a wallet.  Every *)
(* rule writes at most five legs; a leg of zero is one resolveDraft drops. *)

System(key)   == [kind |-> "SYSTEM",    id |-> key]
BookCash(b)   == [kind |-> "BOOK_CASH", id |-> b]
Wallet(w)     == [kind |-> "WALLET",    id |-> w]

Dr(ref, x) == [ref |-> ref, debit |-> x, credit |-> 0]
Cr(ref, x) == [ref |-> ref, debit |-> 0, credit |-> x]
NoLeg      == Dr(System("SUSPENSE"), 0)

Slots == 1 .. 5

(* Altered form of CashRef: the wallet link is not looked at.              *)
CashRef_BookOnly(d) == BookCash(d.book)

(* The cash leg of an entry: the wallet when one is linked, else the book. *)
CashRef(d) == IF d.linked THEN Wallet(d.wallet) ELSE BookCash(d.book)

(* What an entry that settles an obligation moves between the control      *)
(* account and its deferred offset: all of the amount, or nothing.         *)
Settles(d, kind) == IF d.settles = kind THEN d.money.amount ELSE 0

(* buildIncomeLegs and buildExpenseLegs of rules/entry.rules.ts.           *)
IncomeLegs(d) ==
  << Dr(CashRef(d), d.money.amount - d.money.charge),
     Dr(System("TRANSACTION_FEES"), d.money.charge),
     Cr(System("AR"), Settles(d, "RECEIVABLE")),
     Dr(System("DEFERRED_REVENUE"), Settles(d, "RECEIVABLE")),
     Cr(System("SALES_REVENUE"), d.money.amount) >>

ExpenseLegs(d) ==
  << Dr(System("AP"), Settles(d, "PAYABLE")),
     Cr(System("DEFERRED_EXPENSE"), Settles(d, "PAYABLE")),
     Dr(System("GENERAL_EXPENSES"), d.money.amount),
     Dr(System("TRANSACTION_FEES"), d.money.charge),
     Cr(CashRef(d), d.money.amount + d.money.charge) >>

EntryLegs(d) == IF d.money.type = "INCOME" THEN IncomeLegs(d) ELSE ExpenseLegs(d)

(* buildDirectWalletJournal: no book, so no activity total moves.          *)
WalletTxLegs(d) ==
  IF d.money.type = "INCOME"
  THEN << Dr(Wallet(d.wallet), d.money.amount - d.money.charge),
          Dr(System("TRANSACTION_FEES"), d.money.charge),
          Cr(System("OTHER_INCOME"), d.money.amount), NoLeg, NoLeg >>
  ELSE << Dr(System("GENERAL_EXPENSES"), d.money.amount),
          Dr(System("TRANSACTION_FEES"), d.money.charge),
          Cr(Wallet(d.wallet), d.money.amount + d.money.charge), NoLeg, NoLeg >>

(* buildOpeningBalanceJournal: the sign picks the sides.                   *)
OpeningLegs(d) ==
  IF d.signed < 0
  THEN << Dr(System("OPENING_BALANCE_EQUITY"), -d.signed),
          Cr(Wallet(d.wallet), -d.signed), NoLeg, NoLeg, NoLeg >>
  ELSE << Dr(Wallet(d.wallet), d.signed),
          Cr(System("OPENING_BALANCE_EQUITY"), d.signed), NoLeg, NoLeg, NoLeg >>

(* buildTransferJournal: the principal moves, the fee is an expense.       *)
TransferLegs(d) ==
  << Dr(Wallet(d.to), d.amount), Dr(System("TRANSACTION_FEES"), d.fee),
     Cr(Wallet(d.from), d.amount + d.fee), NoLeg, NoLeg >>

(* buildObligationJournal and buildObligationWriteOffJournal.              *)
ObligationLegs(d) ==
  IF d.type = "RECEIVABLE"
  THEN << Dr(System("AR"), d.amount), Cr(System("DEFERRED_REVENUE"), d.amount),
          NoLeg, NoLeg, NoLeg >>
  ELSE << Dr(System("DEFERRED_EXPENSE"), d.amount), Cr(System("AP"), d.amount),
          NoLeg, NoLeg, NoLeg >>

WriteOffLegs(d) ==
  IF d.type = "RECEIVABLE"
  THEN << Dr(System("DEFERRED_REVENUE"), d.amount), Cr(System("AR"), d.amount),
          NoLeg, NoLeg, NoLeg >>
  ELSE << Dr(System("AP"), d.amount), Cr(System("DEFERRED_EXPENSE"), d.amount),
          NoLeg, NoLeg, NoLeg >>

Legs(d) == CASE d.rule = "CASHBOOK_ENTRY"      -> EntryLegs(d)
             [] d.rule = "ACCOUNT_TRANSACTION" -> WalletTxLegs(d)
             [] d.rule = "ACCOUNT_OPENING"     -> OpeningLegs(d)
             [] d.rule = "ACCOUNT_TRANSFER"    -> TransferLegs(d)
             [] d.rule = "OBLIGATION"          -> ObligationLegs(d)
             [] d.rule = "WRITE_OFF"           -> WriteOffLegs(d)

-----------------------------------------------------------------------------
(* PostingService on the legs of one draft.                                *)

TotalDebit(legs) ==
  legs[1].debit + legs[2].debit + legs[3].debit + legs[4].debit + legs[5].debit

TotalCredit(legs) ==
  legs[1].credit + legs[2].credit + legs[3].credit + legs[4].credit + legs[5].credit

(* resolveDraft: a leg has one side, and no side is negative.              *)
ValidLeg(leg) == /\ leg.debit >= 0 /\ leg.credit >= 0
                 /\ leg.debit = 0 \/ leg.credit = 0

(* assertBalanced: at least one leg that is not zero, and equal totals.    *)
Balanced(legs) == TotalDebit(legs) = TotalCredit(legs)

Postable(d) == /\ \A i \in Slots : ValidLeg(Legs(d)[i])
               /\ \E i \in Slots : Legs(d)[i].debit # 0 \/ Legs(d)[i].credit # 0
               /\ Balanced(Legs(d))

(* deltasFromLines: what the legs move on one account, and on the activity *)
(* totals of the book, which only the journals of entries move.            *)
Net(leg) == leg.debit - leg.credit

NetOn(legs, i, refs) == IF legs[i].ref \in refs THEN Net(legs[i]) ELSE 0

DeltaOn(legs, refs) ==
  NetOn(legs, 1, refs) + NetOn(legs, 2, refs) + NetOn(legs, 3, refs)
    + NetOn(legs, 4, refs) + NetOn(legs, 5, refs)

IncomeAccounts  == {System("SALES_REVENUE"), System("OTHER_INCOME")}
ExpenseAccounts == {System("GENERAL_EXPENSES"), System("TRANSACTION_FEES")}

CashDelta(d, p)     == DeltaOn(Legs(d), {BookCash(p), Wallet(p)})
CountsFor(d, b)     == d.rule = "CASHBOOK_ENTRY" /\ d.book = b
TotalIncome(d, b)   == IF CountsFor(d, b) THEN -DeltaOn(Legs(d), IncomeAccounts) ELSE 0
TotalExpense(d, b)  == IF CountsFor(d, b) THEN DeltaOn(Legs(d), ExpenseAccounts) ELSE 0

-----------------------------------------------------------------------------
(* The journals, a function from the posting keys used so far, and what    *)
(* post and reverse do to it and to the caches.                            *)

IsPosted(journals, key) == key \in DOMAIN journals /\ journals[key].status = "POSTED"

PostIn(journals, key, d) ==
  [k \in DOMAIN journals \union {key} |->
     IF k = key THEN [status |-> "POSTED", draft |-> d] ELSE journals[k]]

(* reverse: no journal and an already reversed one are left as they are.   *)
ReverseIn(journals, key) ==
  IF IsPosted(journals, key) THEN [journals EXCEPT ![key].status = "REVERSED"]
                             ELSE journals

AddDeltas(caches, d, sign) ==
  [cash    |-> [p \in DOMAIN caches.cash |-> caches.cash[p] + sign * CashDelta(d, p)],
   income  |-> [b \in DOMAIN caches.income |-> caches.income[b] + sign * TotalIncome(d, b)],
   expense |-> [b \in DOMAIN caches.expense |-> caches.expense[b] + sign * TotalExpense(d, b)]]

(* Altered form: a journal that was reversed before is taken back again.   *)
CachesAfterReverse_Again(journals, caches, key) ==
  IF key \in DOMAIN journals THEN AddDeltas(caches, journals[key].draft, -1) ELSE caches

CachesAfterReverse(journals, caches, key) ==
  IF IsPosted(journals, key) THEN AddDeltas(caches, journals[key].draft, -1) ELSE caches

(* repost: reverse the old key, then post the new one.                     *)
Repost(journals, old, new, d) == PostIn(ReverseIn(journals, old), new, d)

CachesAfterRepost(journals, caches, old, d) ==
  AddDeltas(CachesAfterReverse(journals, caches, old), d, 1)

-----------------------------------------------------------------------------
(* Sums over the ledger, as LedgerIntegrityService takes them.  A reversed *)
(* journal and its mirror image cancel, so only POSTED journals count.     *)

Posted(journals) == {k \in DOMAIN journals : journals[k].status = "POSTED"}

LedgerCash(journals, p) ==
  MapThenSumSet(LAMBDA k : CashDelta(journals[k].draft, p), Posted(journals))

LedgerIncome(journals, b) ==
  MapThenSumSet(LAMBDA k : TotalIncome(journals[k].draft, b), Posted(journals))

LedgerExpense(journals, b) ==
  MapThenSumSet(LAMBDA k : TotalExpense(journals[k].draft, b), Posted(journals))

CachesEqualLedger(journals, caches) ==
  /\ \A p \in DOMAIN caches.cash : caches.cash[p] = LedgerCash(journals, p)
  /\ \A b \in DOMAIN caches.income : caches.income[b] = LedgerIncome(journals, b)
  /\ \A b \in DOMAIN caches.expense : caches.expense[b] = LedgerExpense(journals, b)
=============================================================================
