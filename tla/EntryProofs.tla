---------------------------- MODULE EntryProofs ----------------------------
(***************************************************************************)
(* Theorems about EntryLedger, whatever its requests do and however they   *)
(* overlap:                                                                *)
(*   - its types;                                                          *)
(*   - EntryVersions: journals and wallet rows stay in step with their     *)
(*     entry until a write that claims no version of its own commits on a  *)
(*     reading that is out of date, and the unlocked probe is safe;        *)
(*   - the cached balances of books and wallets follow the ledger, and     *)
(*     while entries are in step they are what the living entries move;    *)
(*   - what is owed stays what the living entries leave, until such a      *)
(*     write.                                                              *)
(***************************************************************************)
EXTENDS EntryVersions, PostingProofs

USE ConstantsAssumption DEF Keys, Places

-----------------------------------------------------------------------------
(* Types of what the operators of Posting return.                          *)

Caches == [cash : [Places -> Int], income : [Books -> Int], expense : [Books -> Int]]

LEMMA DraftType ==
  ASSUME NEW b \in Books, NEW w \in Probed, NEW m \in Moneys,
         NEW o \in Obligations \union {NoObligation}
  PROVE  EntryDraft(b, w, m, o) \in Draft
BY DEF EntryDraft, Draft, Probed, ObligationTypes

(* The legs of an entry are five legs of integers.                         *)
LEMMA LegsType ==
  ASSUME NEW d \in Draft, NEW i \in Slots
  PROVE  Legs(d)[i].debit \in Int /\ Legs(d)[i].credit \in Int
<1>1. d.money.amount \in Nat /\ d.money.charge \in Nat /\ d.rule = "CASHBOOK_ENTRY"
  BY DEF Draft
<1>2. Legs(d) = EntryLegs(d)
  BY <1>1 DEF Legs
<1>3. Settles(d, "RECEIVABLE") \in Int /\ Settles(d, "PAYABLE") \in Int
  BY <1>1 DEF Settles
<1>4. IncomeLegs(d)[i].debit \in Int /\ IncomeLegs(d)[i].credit \in Int
  BY <1>1, <1>3 DEF IncomeLegs, Slots, Dr, Cr
<1>5. ExpenseLegs(d)[i].debit \in Int /\ ExpenseLegs(d)[i].credit \in Int
  BY <1>1, <1>3 DEF ExpenseLegs, Slots, Dr, Cr
<1> QED
  BY <1>2, <1>4, <1>5 DEF EntryLegs

LEMMA DeltaType ==
  ASSUME NEW d \in Draft, NEW refs
  PROVE  DeltaOn(Legs(d), refs) \in Int
<1>1. \A i \in Slots : NetOn(Legs(d), i, refs) \in Int
  BY LegsType DEF NetOn, Net
<1> QED
  BY <1>1 DEF DeltaOn, Slots

LEMMA AddDeltasType ==
  ASSUME NEW c \in Caches, NEW d \in Draft, NEW sign \in {1, -1}
  PROVE  AddDeltas(c, d, sign) \in Caches
<1>1. \A p : CashDelta(d, p) \in Int /\ sign * CashDelta(d, p) \in Int
  BY DeltaType DEF CashDelta
<1>2. \A b : TotalIncome(d, b) \in Int /\ sign * TotalIncome(d, b) \in Int
  BY DeltaType DEF TotalIncome
<1>3. \A b : TotalExpense(d, b) \in Int /\ sign * TotalExpense(d, b) \in Int
  BY DeltaType DEF TotalExpense
<1> QED
  BY <1>1, <1>2, <1>3 DEF AddDeltas, Caches

Ledger(j) == DOMAIN j \subseteq Keys /\ \A k \in DOMAIN j : j[k] \in Journal

LEMMA PostType ==
  ASSUME NEW j, Ledger(j), NEW k \in Keys, NEW d \in Draft
  PROVE  Ledger(PostIn(j, k, d))
BY DEF PostIn, Ledger, Journal

LEMMA ReverseType ==
  ASSUME NEW j, Ledger(j), NEW k
  PROVE  Ledger(ReverseIn(j, k)) /\ DOMAIN ReverseIn(j, k) = DOMAIN j
BY DEF ReverseIn, Ledger, Journal, IsPosted

LEMMA CachesAfterReverseType ==
  ASSUME NEW j, Ledger(j), NEW c \in Caches, NEW k
  PROVE  CachesAfterReverse(j, c, k) \in Caches
<1>1. IsPosted(j, k) => j[k].draft \in Draft
  BY DEF IsPosted, Ledger, Journal
<1> QED
  BY <1>1, AddDeltasType DEF CachesAfterReverse

LEMMA RepostType ==
  ASSUME NEW j, Ledger(j), NEW c \in Caches, NEW old, NEW new \in Keys, NEW d \in Draft
  PROVE  Ledger(Repost(j, old, new, d)) /\ CachesAfterRepost(j, c, old, d) \in Caches
BY ReverseType, PostType, CachesAfterReverseType, AddDeltasType DEF Repost, CachesAfterRepost

-----------------------------------------------------------------------------
(* Types of the obligations.                                               *)

ObligationRows == [Obligations -> [outstanding : Int,
                                   status : {"OPEN", "PARTIAL", "PAID", "CANCELLED"},
                                   archived : BOOLEAN]]

LEMMA SetOutstandingType ==
  ASSUME NEW obls \in ObligationRows, NEW o \in Obligations, NEW x \in Int
  PROVE  SetOutstanding(obls, o, x) \in ObligationRows
BY DEF SetOutstanding, ObligationRows, ObligationStatus

LEMMA RestoreType ==
  ASSUME NEW obls \in ObligationRows, NEW o \in Obligations \union {NoObligation},
         NEW amount \in Nat
  PROVE  Restore(obls, o, amount) \in ObligationRows
<1>1. CASE o = NoObligation
  BY <1>1 DEF Restore
<1>2. CASE o \in Obligations
  <2> DEFINE grown == obls[o].outstanding + amount
             x == IF grown > ObligationTerms[o].total THEN ObligationTerms[o].total ELSE grown
  <2>1. obls[o].outstanding \in Int /\ ObligationTerms[o].total \in Nat
    BY <1>2 DEF ObligationRows
  <2>2. x \in Int
    BY <2>1
  <2>3. Restore(obls, o, amount) = SetOutstanding(obls, o, x)
    BY <1>2 DEF Restore
  <2> QED
    BY <1>2, <2>2, <2>3, SetOutstandingType
<1> QED
  BY <1>1, <1>2

-----------------------------------------------------------------------------
(* Type correctness.                                                       *)

(* A request in progress is a member of exactly one of the sets, told by   *)
(* where it stands and what it does.                                       *)
LEMMA RequestKinds ==
  ASSUME NEW q \in Request
  PROVE  /\ q.pc = "create" => q \in Creating
         /\ q.pc \in Waiting /\ q.op = "edit" => q \in Editing
         /\ q.pc \in Waiting /\ q.op = "reassign" => q \in Moving
         /\ q.pc \in Waiting /\ q.op = "delete" => q \in Deleting
         /\ q.pc = "review" => q \in Reviewing
         /\ q.pc = "ask" => q \in Asking
         /\ q.pc = "reconcile" => q \in Reconciling
         /\ q.pc \in Waiting => q \in Editing \union Moving \union Deleting
BY DEF Request, Idle, Creating, Editing, Moving, Deleting, Reviewing, Asking, Reconciling, Waiting

LEMMA LinkType ==
  ASSUME TypeOK, NEW e
  PROVE  Link(e) \in Probed /\ AnyLink(e) \in Probed
BY DEF TypeOK, Link, AnyLink, WalletTx, Probed

LEMMA InitType == Init => TypeOK
<1> SUFFICES ASSUME Init PROVE TypeOK
  OBVIOUS
<1>1. DOMAIN entry = {} /\ DOMAIN walletTx = {} /\ DOMAIN deleteReq = {} /\ DOMAIN journals = {}
  BY DEF Init
<1>2. obligation \in ObligationRows
  BY DEF Init, ObligationRows
<1>3. caches \in Caches
  BY DEF Init, Caches
<1>4. req \in [Requests -> Request]
  BY DEF Init, Request
<1> QED
  BY <1>1, <1>2, <1>3, <1>4 DEF TypeOK, ObligationRows, Caches

(* The steps that only change what a request remembers.                    *)
LEMMA RequestStepType ==
  ASSUME TypeOK, NEW r \in Requests, NEW q \in Request, req' = [req EXCEPT ![r] = q],
         UNCHANGED <<entry, walletTx, obligation, deleteReq, journals, caches>>
  PROVE  TypeOK'
BY DEF TypeOK

LEMMA ReadsType ==
  ASSUME TypeOK, NEW r \in Requests
  PROVE  /\ \A e \in Entries, b \in CreateBody : ReadCreate(r, e, b) => TypeOK'
         /\ \A e \in Entries, b \in EditBody, v \in BOOLEAN : ReadEdit(r, e, b, v) => TypeOK'
         /\ \A e \in Entries, b \in Books, v \in Versions : ReadReassign(r, e, b, v) => TypeOK'
         /\ \A e \in Entries : ReadDelete(r, e) => TypeOK'
         /\ \A e \in Entries : ReadAskDelete(r, e) => TypeOK'
         /\ \A i \in DeleteRequests : ReadReview(r, i) => TypeOK'
         /\ \A e \in Entries : ReadReconcile(r, e) => TypeOK'
         /\ Abandon(r) => TypeOK'
<1> USE DEF Probed, Waiting
<1>1. ASSUME NEW e \in Entries, NEW b \in CreateBody, ReadCreate(r, e, b) PROVE TypeOK'
  <2>1. [pc |-> "create", entry |-> e, body |-> b] \in Request
    BY DEF Request, Creating
  <2> QED
    BY <1>1, <2>1, RequestStepType DEF ReadCreate
<1>2. ASSUME NEW e \in Entries, NEW b \in EditBody, NEW v \in BOOLEAN, ReadEdit(r, e, b, v)
      PROVE  TypeOK'
  <2>1. entry[e] \in Row
    BY <1>2 DEF ReadEdit, Exists, TypeOK
  <2>2. [pc |-> "probe", op |-> "edit", entry |-> e, seen |-> entry[e], probe |-> NoWallet,
         versioned |-> v, body |-> b] \in Request
    BY <2>1 DEF Request, Editing
  <2> QED
    BY <1>2, <2>2, RequestStepType DEF ReadEdit
<1>3. ASSUME NEW e \in Entries, NEW b \in Books, NEW v \in Versions, ReadReassign(r, e, b, v)
      PROVE  TypeOK'
  <2>1. entry[e] \in Row
    BY <1>3 DEF ReadReassign, Exists, TypeOK
  <2>2. [pc |-> "probe", op |-> "reassign", entry |-> e, seen |-> entry[e],
         probe |-> NoWallet, target |-> b, expected |-> v] \in Request
    BY <2>1 DEF Request, Moving
  <2> QED
    BY <1>3, <2>2, RequestStepType DEF ReadReassign
<1>4. ASSUME NEW e \in Entries, ReadDelete(r, e) PROVE TypeOK'
  <2>1. entry[e] \in Row
    BY <1>4 DEF ReadDelete, Exists, TypeOK
  <2>2. [pc |-> "probe", op |-> "delete", entry |-> e, seen |-> entry[e],
         probe |-> NoWallet] \in Request
    BY <2>1 DEF Request, Deleting
  <2> QED
    BY <1>4, <2>2, RequestStepType DEF ReadDelete
<1>5. ASSUME NEW e \in Entries, ReadAskDelete(r, e) PROVE TypeOK'
  <2>1. [pc |-> "ask", entry |-> e] \in Request
    BY DEF Request, Asking
  <2> QED
    BY <1>5, <2>1, RequestStepType DEF ReadAskDelete
<1>6. ASSUME NEW i \in DeleteRequests, ReadReview(r, i) PROVE TypeOK'
  <2> DEFINE e == deleteReq[i].entry
  <2>1. e \in Entries /\ entry[e] \in Row
    BY <1>6 DEF ReadReview, TypeOK
  <2>2. [pc |-> "review", id |-> i, entry |-> e, seen |-> entry[e]] \in Request
    BY <2>1 DEF Request, Reviewing
  <2> QED
    BY <1>6, <2>2, RequestStepType DEF ReadReview
<1>7. ASSUME NEW e \in Entries, ReadReconcile(r, e) PROVE TypeOK'
  <2>1. entry[e] \in Row
    BY <1>7 DEF ReadReconcile, Exists, TypeOK
  <2>2. [pc |-> "reconcile", entry |-> e, seen |-> entry[e]] \in Request
    BY <2>1 DEF Request, Reconciling
  <2> QED
    BY <1>7, <2>2, RequestStepType DEF ReadReconcile
<1>8. ASSUME Abandon(r) PROVE TypeOK'
  <2>1. Idle \in Request
    BY DEF Request
  <2> QED
    BY <1>8, <2>1, RequestStepType DEF Abandon, Finish
<1> QED
  BY <1>1, <1>2, <1>3, <1>4, <1>5, <1>6, <1>7, <1>8

LEMMA ProbedEditing ==
  ASSUME NEW o \in Editing, NEW p \in Probed
  PROVE  [o EXCEPT !.pc = "commit", !.probe = p] \in Editing
<1> DEFINE c == [o EXCEPT !.pc = "commit"]
<1>1. c \in Editing
  BY DEF Editing, Waiting
<1>2. [c EXCEPT !.probe = p] \in Editing
  BY <1>1 DEF Editing, Waiting
<1> QED
  BY <1>2

LEMMA ProbeType ==
  ASSUME TypeOK, NEW r \in Requests, Probe(r)
  PROVE  TypeOK'
<1> DEFINE p == IF req[r].op = "reassign" THEN AnyLink(req[r].entry) ELSE Link(req[r].entry)
           q == [req[r] EXCEPT !.pc = "commit", !.probe = p]
<1>1. req \in [Requests -> Request] /\ req[r] \in Request /\ req[r].pc = "probe"
  BY DEF TypeOK, Probe
<1>2. req[r] \in Editing \union Moving \union Deleting
  BY <1>1, RequestKinds DEF Waiting
<1>3. p \in Probed
  BY LinkType
<1>4. q \in Editing \union Moving \union Deleting
  <2>1. CASE req[r] \in Editing
    BY <2>1, <1>3, ProbedEditing
  <2>2. CASE req[r] \in Moving
    BY <2>2, <1>3 DEF Moving, Waiting
  <2>3. CASE req[r] \in Deleting
    BY <2>3, <1>3 DEF Deleting, Waiting
  <2> QED
    BY <1>2, <2>1, <2>2, <2>3
<1>5. q \in Request
  BY <1>4 DEF Request
<1>6. req' = [req EXCEPT ![r] = q]
  BY <1>1 DEF Probe
<1> QED
  BY <1>5, <1>6, RequestStepType DEF Probe

(* TypeOK is not inductive as it stands: what a request writes is typed     *)
(* because the entry it holds is in the table (KnownEntries), and entries   *)
(* are never removed from it.                                              *)
LEMMA KnownStep ==
  ASSUME TypeOK, KnownEntries, NEW r \in Requests, NEW q, req' = [req EXCEPT ![r] = q],
         DOMAIN entry \subseteq DOMAIN entry',
         q.pc \notin {"idle", "create"} => q.entry \in DOMAIN entry
  PROVE  KnownEntries'
BY DEF TypeOK, KnownEntries, Holds

LEMMA AskType ==
  ASSUME TypeOK, KnownEntries, NEW r \in Requests, NEW i \in DeleteRequests,
         CommitAskDelete(r, i)
  PROVE  TypeOK'
<1>1. req' \in [Requests -> Request]
  BY DEF TypeOK, Request, CommitAskDelete, Finish
<1>2. req[r].entry \in DOMAIN entry
  BY DEF KnownEntries, Holds, CommitAskDelete
<1>3. DOMAIN deleteReq' \subseteq DeleteRequests
  BY DEF TypeOK, CommitAskDelete
<1>4. \A x \in DOMAIN deleteReq' :
        deleteReq'[x] \in [entry : DOMAIN entry, status : {"PENDING", "APPROVED", "REJECTED"}]
  BY <1>2 DEF TypeOK, CommitAskDelete
<1> QED
  BY <1>1, <1>3, <1>4 DEF TypeOK, CommitAskDelete

LEMMA ReviewType ==
  ASSUME TypeOK, NEW r \in Requests, NEW s \in {"APPROVED", "REJECTED"}, DecideReview(r, s)
  PROVE  TypeOK'
<1>1. req[r] \in Reviewing
  BY RequestKinds DEF TypeOK, DecideReview
<1> DEFINE q == req[r]
           next == [pc |-> "probe", op |-> "delete", entry |-> q.entry, seen |-> q.seen,
                    probe |-> NoWallet]
<1>2. next \in Request /\ Idle \in Request
  BY <1>1 DEF Reviewing, Request, Deleting, Waiting, Probed
<1>3. req' \in [Requests -> Request]
  BY <1>2 DEF TypeOK, DecideReview
<1>4. DOMAIN deleteReq' = DOMAIN deleteReq
  BY DEF DecideReview
<1>5. \A x \in DOMAIN deleteReq' :
        deleteReq'[x] \in [entry : DOMAIN entry, status : {"PENDING", "APPROVED", "REJECTED"}]
  BY DEF TypeOK, DecideReview
<1> QED
  BY <1>3, <1>4, <1>5 DEF TypeOK, DecideReview

(* A step that leaves the wallet rows and the delete requests alone, and    *)
(* rewrites one row of the entries table.                                  *)
LEMMA ReconcileType ==
  ASSUME TypeOK, KnownEntries, NEW r \in Requests, CommitReconcile(r)
  PROVE  TypeOK'
<1>1. req[r] \in Reconciling /\ req[r].entry \in DOMAIN entry
  BY RequestKinds DEF TypeOK, CommitReconcile, KnownEntries, Holds
<1>2. req' \in [Requests -> Request]
  BY DEF TypeOK, CommitReconcile, Finish, Request
<1>3. DOMAIN entry' = DOMAIN entry
  BY DEF CommitReconcile
<1>4. \A e \in DOMAIN entry' : entry'[e] \in Row
  <2>1. entry[req[r].entry] \in Row /\ (~req[r].seen.reconciled) \in BOOLEAN
    BY <1>1 DEF TypeOK, Reconciling, Row
  <2>2. \A x \in Row, v \in BOOLEAN : [x EXCEPT !.reconciled = v] \in Row
    BY DEF Row
  <2>3. [entry[req[r].entry] EXCEPT !.reconciled = ~req[r].seen.reconciled] \in Row
    BY <2>1, <2>2
  <2> QED
    BY <1>3, <2>3 DEF TypeOK, CommitReconcile
<1> QED
  BY <1>2, <1>3, <1>4 DEF TypeOK, CommitReconcile

LEMMA CreateType ==
  ASSUME TypeOK, NEW r \in Requests, CommitCreate(r)
  PROVE  TypeOK'
<1> DEFINE e == req[r].entry
           b == req[r].body
           d == EntryDraft(b.book, b.wallet, b.money, b.obligation)
<1>1. req[r] \in Creating
  BY RequestKinds DEF TypeOK, CommitCreate
<1>2. e \in Entries /\ b \in CreateBody
  BY <1>1 DEF Creating
<1>3. d \in Draft
  BY <1>2, DraftType DEF CreateBody, Probed
<1>4. <<e, 1>> \in Keys /\ 1 \in Versions
  BY <1>2 DEF Versions
<1>5. DOMAIN entry' = DOMAIN entry \union {e}
  BY DEF CommitCreate
<1>6. \A x \in DOMAIN entry' : entry'[x] \in Row
  BY <1>2, <1>4, <1>5 DEF TypeOK, CommitCreate, Row, CreateBody
<1>7. DOMAIN walletTx' \subseteq DOMAIN entry' /\ \A x \in DOMAIN walletTx' : walletTx'[x] \in WalletTx
  <2>1. CASE b.wallet = NoWallet
    BY <2>1, <1>5 DEF TypeOK, CommitCreate
  <2>2. CASE b.wallet # NoWallet
    BY <2>2, <1>2, <1>5 DEF TypeOK, CommitCreate, WalletTx, CreateBody
  <2> QED
    BY <2>1, <2>2
<1>8. obligation' \in ObligationRows
  <2>1. obligation \in ObligationRows
    BY DEF TypeOK, ObligationRows
  <2>2. CASE b.obligation = NoObligation
    BY <2>1, <2>2 DEF CommitCreate
  <2>3. CASE b.obligation # NoObligation
    <3>1. b.obligation \in Obligations /\ b.money.amount \in Nat
      BY <2>3, <1>2 DEF CreateBody
    <3>2. obligation[b.obligation].outstanding - b.money.amount \in Int
      BY <2>1, <3>1 DEF ObligationRows
    <3> QED
      BY <2>1, <2>3, <3>1, <3>2, SetOutstandingType DEF CommitCreate
  <2> QED
    BY <2>2, <2>3
<1>9. \A i \in DOMAIN deleteReq' :
        deleteReq'[i] \in [entry : DOMAIN entry', status : {"PENDING", "APPROVED", "REJECTED"}]
  BY <1>5 DEF TypeOK, CommitCreate
<1>10. Ledger(journals')
  BY <1>3, <1>4, PostType DEF TypeOK, Ledger, CommitCreate
<1>11. caches' \in Caches
  BY <1>3, AddDeltasType DEF TypeOK, Caches, CommitCreate
<1>12. req' \in [Requests -> Request]
  BY DEF TypeOK, Request, CommitCreate, Finish
<1> QED
  BY <1>2, <1>5, <1>6, <1>7, <1>8, <1>9, <1>10, <1>11, <1>12
  DEF TypeOK, ObligationRows, Ledger, Caches, CommitCreate

(* What an edit computes from a typed request.                             *)
LEMMA EditComputes ==
  ASSUME TypeOK, NEW q \in Editing, q.entry \in DOMAIN entry
  PROVE  /\ NewMoney(q) \in Moneys
         /\ NewWallet(q) \in Probed
         /\ Target(q) \in Obligations \union {NoObligation}
         /\ EditedRow(q).money \in Moneys
         /\ EditedRow(q).obligation \in Obligations \union {NoObligation}
         /\ EditedDraft(q) \in Draft
<1> DEFINE body == q.body
           now == entry[q.entry]
<1>1. q.seen \in Row /\ body \in EditBody /\ now \in Row
  BY DEF Editing, TypeOK
<1>2. NewMoney(q) \in Moneys
  BY <1>1 DEF NewMoney, Row, EditBody
<1>3. NewWallet(q) \in Probed
  BY <1>1, LinkType DEF NewWallet, EditBody, Probed
<1>4. Target(q) \in Obligations \union {NoObligation}
  BY <1>1 DEF Target, Row, EditBody
<1>5. EditedRow(q).money = IF body.money = Same THEN now.money ELSE body.money
  BY <1>1 DEF EditedRow, Row
<1>6. EditedRow(q).obligation = IF body.obligation = Same THEN now.obligation ELSE body.obligation
  BY <1>1 DEF EditedRow, Row
<1>7. /\ EditedRow(q).money \in Moneys
      /\ EditedRow(q).obligation \in Obligations \union {NoObligation}
  BY <1>1, <1>5, <1>6 DEF Row, EditBody
<1>8. EditedDraft(q) \in Draft
  BY <1>1, <1>3, <1>7, DraftType DEF EditedDraft, Row
<1> QED
  BY <1>2, <1>3, <1>4, <1>7, <1>8

LEMMA SettledType ==
  ASSUME TypeOK, NEW q \in Editing, q.entry \in DOMAIN entry
  PROVE  SettledAfter(q) \in ObligationRows
<1>1. obligation \in ObligationRows
  BY DEF TypeOK, ObligationRows
<1>2. /\ q.seen.money.amount \in Nat
      /\ q.seen.obligation \in Obligations \union {NoObligation}
  BY DEF Editing, Row
<1>3. SettledBefore(q) \in ObligationRows
  BY <1>1, <1>2, RestoreType DEF SettledBefore
<1>4. CASE Target(q) = NoObligation
  BY <1>3, <1>4 DEF SettledAfter
<1>5. CASE Target(q) # NoObligation
  <2> DEFINE paid == IF Target(q) = q.seen.obligation THEN q.seen.money.amount ELSE 0
             x == obligation[Target(q)].outstanding - NewMoney(q).amount + paid
  <2>1. Target(q) \in Obligations /\ NewMoney(q).amount \in Nat
    BY <1>5, EditComputes
  <2>2. obligation[Target(q)].outstanding \in Int
    BY <1>1, <2>1 DEF ObligationRows
  <2>3. x \in Int
    BY <1>2, <2>1, <2>2
  <2>4. SettledAfter(q) = SetOutstanding(SettledBefore(q), Target(q), x)
    BY <1>5 DEF SettledAfter
  <2> QED
    BY <1>3, <2>1, <2>3, <2>4, SetOutstandingType
<1> QED
  BY <1>4, <1>5

LEMMA EditType ==
  ASSUME TypeOK, KnownEntries, NEW r \in Requests, CommitEdit(r)
  PROVE  TypeOK'
<1> DEFINE q == req[r]
           e == q.entry
           row == EditedRow(q)
           old == <<e, q.seen.version>>
<1>1. q \in Editing /\ e \in DOMAIN entry /\ e \in Entries /\ entry[e] \in Row
  BY RequestKinds DEF TypeOK, KnownEntries, Holds, CommitEdit, Waiting
<1>2. row.version = entry[e].version + 1 /\ row.version \in Versions
  BY <1>1 DEF EditedRow, Row, Versions, CommitEdit
<1>3. row \in Row
  <2> DEFINE m == IF q.body.money = Same THEN entry[e].money ELSE q.body.money
             o == IF q.body.obligation = Same THEN entry[e].obligation ELSE q.body.obligation
  <2>1. m \in Moneys /\ o \in Obligations \union {NoObligation}
    BY <1>1 DEF Editing, Row, EditBody
  <2>2. row = [entry[e] EXCEPT !.version = entry[e].version + 1, !.money = m, !.obligation = o]
    BY <1>1 DEF EditedRow, Row
  <2>3. \A x \in Row, v \in Versions, y \in Moneys, z \in Obligations \union {NoObligation} :
          [x EXCEPT !.version = v, !.money = y, !.obligation = z] \in Row
    BY DEF Row
  <2>4. entry[e].version + 1 \in Versions
    BY <1>2
  <2> HIDE DEF m, o, row
  <2> QED
    BY <1>1, <2>1, <2>2, <2>3, <2>4
<1>4. DOMAIN entry' = DOMAIN entry /\ \A x \in DOMAIN entry' : entry'[x] \in Row
  BY <1>1, <1>3 DEF TypeOK, CommitEdit
<1>5. DOMAIN walletTx' \subseteq DOMAIN entry' /\ \A x \in DOMAIN walletTx' : walletTx'[x] \in WalletTx
  <2>1. NewMoney(q) \in Moneys /\ NewWallet(q) \in Probed
    BY <1>1, EditComputes
  <2>2. CASE NewWallet(q) = NoWallet
    BY <2>2, <1>4 DEF TypeOK, CommitEdit
  <2>3. CASE NewWallet(q) # NoWallet
    BY <2>1, <2>3, <1>1, <1>4 DEF TypeOK, CommitEdit, WalletTx, Probed
  <2> QED
    BY <2>2, <2>3
<1>6. obligation' \in ObligationRows
  BY <1>1, SettledType DEF CommitEdit
<1>7. Ledger(journals') /\ caches' \in Caches
  <2>1. <<e, row.version>> \in Keys
    BY <1>1, <1>2
  <2>2. EditedDraft(q) \in Draft
    BY <1>1, EditComputes
  <2> QED
    BY <2>1, <2>2, RepostType DEF TypeOK, Ledger, Caches, CommitEdit
<1>8. req' \in [Requests -> Request]
  BY DEF TypeOK, Request, CommitEdit, Finish
<1> QED
  BY <1>4, <1>5, <1>6, <1>7, <1>8 DEF TypeOK, ObligationRows, Ledger, Caches, CommitEdit

LEMMA ReassignType ==
  ASSUME TypeOK, KnownEntries, NEW r \in Requests, CommitReassign(r)
  PROVE  TypeOK'
<1> DEFINE q == req[r]
           e == q.entry
           row == MovedRow(q)
           d == EntryDraft(q.target, q.probe, row.money, row.obligation)
<1>1. q \in Moving /\ e \in DOMAIN entry /\ e \in Entries /\ entry[e] \in Row
  BY RequestKinds DEF TypeOK, KnownEntries, Holds, CommitReassign, Waiting
<1>2. entry[e].version + 1 \in Versions /\ q.target \in Books /\ q.probe \in Probed
  BY <1>1 DEF Moving, Row, Versions, CommitReassign
<1>3. row \in Row /\ row.version \in Versions
  BY <1>1, <1>2 DEF MovedRow, Row
<1>4. DOMAIN entry' = DOMAIN entry /\ \A x \in DOMAIN entry' : entry'[x] \in Row
  BY <1>1, <1>3 DEF TypeOK, CommitReassign
<1>5. d \in Draft
  <2>1. row.money \in Moneys /\ row.obligation \in Obligations \union {NoObligation}
    BY <1>3 DEF Row
  <2> QED
    BY <1>2, <2>1, DraftType
<1>6. Ledger(journals') /\ caches' \in Caches
  <2> DEFINE old == <<e, q.seen.version>>
             new == <<e, row.version>>
  <2>1. new \in Keys
    BY <1>1, <1>3
  <2>2. Ledger(journals) /\ caches \in Caches
    BY DEF TypeOK, Ledger, Caches
  <2>3. journals' = Repost(journals, old, new, d) /\ caches' = CachesAfterRepost(journals, caches, old, d)
    BY DEF CommitReassign
  <2> HIDE DEF d, old, new
  <2> QED
    BY <1>5, <2>1, <2>2, <2>3, RepostType
<1>7. req' \in [Requests -> Request]
  BY DEF TypeOK, Request, CommitReassign, Finish
<1> QED
  BY <1>4, <1>6, <1>7 DEF TypeOK, Ledger, Caches, CommitReassign

LEMMA DeleteType ==
  ASSUME TypeOK, KnownEntries, NEW r \in Requests, CommitDelete(r)
  PROVE  TypeOK'
<1> DEFINE q == req[r]
           e == q.entry
<1>1. q \in Deleting /\ e \in DOMAIN entry /\ e \in Entries /\ entry[e] \in Row
  BY RequestKinds DEF TypeOK, KnownEntries, Holds, CommitDelete, Waiting
<1>2. DOMAIN entry' = DOMAIN entry /\ \A x \in DOMAIN entry' : entry'[x] \in Row
  <2>1. [entry[e] EXCEPT !.deleted = TRUE] \in Row
    BY <1>1 DEF Row
  <2> QED
    BY <2>1 DEF TypeOK, CommitDelete
<1>3. DOMAIN walletTx' = DOMAIN walletTx /\ \A x \in DOMAIN walletTx' : walletTx'[x] \in WalletTx
  <2>1. \A x \in WalletTx : [x EXCEPT !.voided = TRUE] \in WalletTx
    BY DEF WalletTx
  <2> QED
    BY <2>1 DEF TypeOK, CommitDelete
<1>4. obligation' \in ObligationRows
  <2>1. q.seen.obligation \in Obligations \union {NoObligation} /\ q.seen.money.amount \in Nat
    BY <1>1 DEF Deleting, Row
  <2> QED
    BY <2>1, RestoreType DEF TypeOK, ObligationRows, CommitDelete
<1>5. Ledger(journals') /\ caches' \in Caches
  BY ReverseType, CachesAfterReverseType DEF TypeOK, Ledger, Caches, CommitDelete
<1>6. req' \in [Requests -> Request]
  BY DEF TypeOK, Request, CommitDelete, Finish
<1> QED
  BY <1>2, <1>3, <1>4, <1>5, <1>6 DEF TypeOK, ObligationRows, Ledger, Caches, CommitDelete

LEMMA NextType == TypeOK /\ KnownEntries /\ [Next]_vars => TypeOK'
<1> SUFFICES ASSUME TypeOK, KnownEntries, [Next]_vars PROVE TypeOK'
  OBVIOUS
<1>1. CASE UNCHANGED vars
  BY <1>1 DEF vars, TypeOK
<1>2. ASSUME NEW r \in Requests,
             \/ CommitCreate(r) \/ CommitEdit(r) \/ CommitReassign(r) \/ CommitDelete(r)
             \/ CommitReconcile(r) \/ Probe(r)
             \/ \E i \in DeleteRequests : CommitAskDelete(r, i)
             \/ \E s \in {"APPROVED", "REJECTED"} : DecideReview(r, s)
      PROVE  TypeOK'
  BY <1>2, CreateType, EditType, ReassignType, DeleteType, ReconcileType, ProbeType, AskType,
     ReviewType
<1> QED
  BY <1>1, <1>2, ReadsType DEF Next

(* What each step leaves in the slot of the request that takes it.         *)
LEMMA NextKnown == TypeOK /\ KnownEntries /\ [Next]_vars => KnownEntries'
<1> SUFFICES ASSUME TypeOK, KnownEntries, [Next]_vars PROVE KnownEntries'
  OBVIOUS
<1>1. CASE UNCHANGED vars
  BY <1>1 DEF vars, KnownEntries, Holds
<1>2. ASSUME NEW r \in Requests, NEW e \in Entries, NEW b \in CreateBody, ReadCreate(r, e, b)
      PROVE  KnownEntries'
  BY <1>2, KnownStep DEF ReadCreate
<1>3. ASSUME NEW r \in Requests, NEW e \in Entries,
             \/ \E b \in EditBody, v \in BOOLEAN : ReadEdit(r, e, b, v)
             \/ \E b \in Books, v \in Versions : ReadReassign(r, e, b, v)
             \/ ReadDelete(r, e) \/ ReadAskDelete(r, e) \/ ReadReconcile(r, e)
      PROVE  KnownEntries'
  BY <1>3, KnownStep DEF ReadEdit, ReadReassign, ReadDelete, ReadAskDelete, ReadReconcile, Exists
<1>4. ASSUME NEW r \in Requests, NEW i \in DeleteRequests, ReadReview(r, i)
      PROVE  KnownEntries'
  <2>1. deleteReq[i].entry \in DOMAIN entry
    BY <1>4 DEF ReadReview, TypeOK
  <2> QED
    BY <1>4, <2>1, KnownStep DEF ReadReview
<1>5. ASSUME NEW r \in Requests, Probe(r) PROVE KnownEntries'
  <2>1. req[r] \in Request /\ req[r].entry \in DOMAIN entry
    BY <1>5 DEF Probe, KnownEntries, Holds, TypeOK
  <2>2. req'[r].entry = req[r].entry /\ \A x \in Requests \ {r} : req'[x] = req[x]
    BY <1>5 DEF Probe, TypeOK
  <2> QED
    BY <1>5, <2>1, <2>2 DEF Probe, KnownEntries, Holds
<1>6. ASSUME NEW r \in Requests, NEW s \in {"APPROVED", "REJECTED"}, DecideReview(r, s)
      PROVE  KnownEntries'
  <2>1. req[r].entry \in DOMAIN entry
    BY <1>6 DEF DecideReview, KnownEntries, Holds
  <2> QED
    BY <1>6, <2>1, KnownStep DEF DecideReview, Idle
<1>7. ASSUME NEW r \in Requests, Finish(r), DOMAIN entry \subseteq DOMAIN entry'
      PROVE  KnownEntries'
  BY <1>7, KnownStep DEF Finish, Idle
<1>8. ASSUME NEW r \in Requests,
             \/ CommitCreate(r) \/ CommitEdit(r) \/ CommitReassign(r) \/ CommitDelete(r)
             \/ CommitReconcile(r) \/ Abandon(r)
             \/ \E i \in DeleteRequests : CommitAskDelete(r, i)
      PROVE  KnownEntries'
  BY <1>7, <1>8 DEF CommitCreate, CommitEdit, CommitReassign, CommitDelete, CommitReconcile,
                    Abandon, CommitAskDelete
<1> QED
  BY <1>1, <1>2, <1>3, <1>4, <1>5, <1>6, <1>8 DEF Next

(* Whatever requests race, the tables, the ledger and the caches keep their *)
(* shape: a version is never beyond the bound, a journal is never filed     *)
(* under a key that is no version of an entry, a cached balance is a number. *)
THEOREM TypeCorrect == Spec => []TypeOK
<1>1. Init => KnownEntries
  BY DEF Init, KnownEntries, Holds, Idle
<1> QED
  BY <1>1, InitType, NextType, NextKnown, PTL DEF Spec

-----------------------------------------------------------------------------
(* What post, reverse and repost do to the journals in force.              *)

LEMMA ReversePosts ==
  ASSUME NEW j, NEW key
  PROVE  /\ DOMAIN ReverseIn(j, key) = DOMAIN j
         /\ \A k : IsPosted(ReverseIn(j, key), k) => k # key /\ IsPosted(j, k)
         /\ \A k : k # key /\ IsPosted(j, k) => IsPosted(ReverseIn(j, key), k)
         /\ \A k : k # key => ReverseIn(j, key)[k] = j[k]
<1>1. CASE IsPosted(j, key)
  BY <1>1 DEF ReverseIn, IsPosted
<1>2. CASE ~IsPosted(j, key)
  BY <1>2 DEF ReverseIn
<1> QED
  BY <1>1, <1>2

Reposted(j, J, old, new, d) ==
  /\ DOMAIN J = DOMAIN j \union {new}
  /\ \A k : IsPosted(J, k) <=> k = new \/ (k # old /\ IsPosted(j, k))
  /\ J[new].draft = d
  /\ \A k \in DOMAIN j : k # old /\ k # new => J[k] = j[k]

LEMMA RepostPosts ==
  ASSUME NEW j, NEW old, NEW new, NEW d
  PROVE  Reposted(j, Repost(j, old, new, d), old, new, d)
<1> DEFINE R == ReverseIn(j, old)
           J == Repost(j, old, new, d)
<1>1. /\ DOMAIN R = DOMAIN j
      /\ \A k : IsPosted(R, k) => k # old /\ IsPosted(j, k)
      /\ \A k : k # old /\ IsPosted(j, k) => IsPosted(R, k)
      /\ \A k : k # old => R[k] = j[k]
  BY ReversePosts, Zenon
<1>2. J = [k \in DOMAIN R \union {new} |->
             IF k = new THEN [status |-> "POSTED", draft |-> d] ELSE R[k]]
  BY DEF Repost, PostIn
<1> HIDE DEF R, J
<1>3. DOMAIN J = DOMAIN j \union {new} /\ J[new] = [status |-> "POSTED", draft |-> d]
  BY <1>1, <1>2
<1>4. \A k \in DOMAIN j : k # new => J[k] = R[k]
  BY <1>1, <1>2
<1>5. \A k : IsPosted(J, k) <=> k = new \/ IsPosted(R, k)
  BY <1>1, <1>3, <1>4 DEF IsPosted
<1>6. \A k : IsPosted(J, k) <=> k = new \/ (k # old /\ IsPosted(j, k))
  BY <1>1, <1>5
<1>7. \A k \in DOMAIN j : k # old /\ k # new => J[k] = j[k]
  BY <1>1, <1>4
<1>8. Reposted(j, J, old, new, d)
  BY <1>3, <1>6, <1>7 DEF Reposted
<1> QED
  BY <1>8 DEF J

-----------------------------------------------------------------------------
(* The part of the invariant about the tables and the ledger.              *)

TablesAgree ==
  /\ JournalsHaveEntries
  /\ VoidedIsDeleted
  /\ HistoryIsComplete

(* The part about the requests in progress.                                *)
RequestsAgree ==
  /\ FreshCreates
  /\ SeenIsPast
  /\ ProbesHold

(* An entry is created, or gets its next version, and the journal of that   *)
(* version is filed: what a create, an edit and a move do.                  *)
LEMMA HistoryGrows ==
  ASSUME TypeOK, TypeOK', TablesAgree, NEW e \in Entries,
         DOMAIN entry' = DOMAIN entry \union {e},
         entry'[e].version = IF e \in DOMAIN entry THEN entry[e].version + 1 ELSE 1,
         \A x \in DOMAIN entry \ {e} : entry'[x] = entry[x],
         DOMAIN journals' = DOMAIN journals \union {<<e, entry'[e].version>>}
  PROVE  JournalsHaveEntries' /\ HistoryIsComplete'
<1>1. JournalsHaveEntries'
  BY DEF TablesAgree, JournalsHaveEntries
<1>2. entry'[e].version \in Versions
  BY DEF TypeOK, Row
<1>3. ASSUME NEW x \in DOMAIN entry', x # e
      PROVE  {v \in Versions : <<x, v>> \in DOMAIN journals'} = 1 .. entry'[x].version
  <2>1. \A v \in Versions : <<x, v>> \in DOMAIN journals' <=> <<x, v>> \in DOMAIN journals
    BY <1>3
  <2>2. {v \in Versions : <<x, v>> \in DOMAIN journals} = 1 .. entry[x].version
    BY <1>3 DEF TablesAgree, HistoryIsComplete
  <2> QED
    BY <1>3, <2>1, <2>2
<1>4. {v \in Versions : <<e, v>> \in DOMAIN journals'} = 1 .. entry'[e].version
  <2>1. \A v \in Versions :
          <<e, v>> \in DOMAIN journals' <=> <<e, v>> \in DOMAIN journals \/ v = entry'[e].version
    OBVIOUS
  <2>2. CASE e \in DOMAIN entry
    <3>1. {v \in Versions : <<e, v>> \in DOMAIN journals} = 1 .. entry[e].version
      BY <2>2 DEF TablesAgree, HistoryIsComplete
    <3>2. entry[e].version \in Versions /\ entry'[e].version = entry[e].version + 1
      BY <2>2 DEF TypeOK, Row
    <3>3. ASSUME NEW v \in Versions
          PROVE  v \in {w \in Versions : <<e, w>> \in DOMAIN journals} <=> v \in 1 .. entry[e].version
      BY <3>1
    <3> QED
      BY <1>2, <2>1, <3>2, <3>3 DEF Versions
  <2>3. CASE e \notin DOMAIN entry
    <3>1. \A v : <<e, v>> \notin DOMAIN journals
      BY <2>3 DEF TablesAgree, JournalsHaveEntries
    <3> QED
      BY <1>2, <2>1, <2>3, <3>1 DEF Versions
  <2> QED
    BY <2>2, <2>3
<1> QED
  BY <1>1, <1>3, <1>4 DEF HistoryIsComplete

-----------------------------------------------------------------------------
(* The tables, action by action.                                           *)

LEMMA CreateAgrees ==
  ASSUME TypeOK, TypeOK', TablesAgree, FreshCreates, NEW r \in Requests, CommitCreate(r)
  PROVE  TablesAgree'
<1>0. req[r] \in Creating
  BY RequestKinds DEF TypeOK, CommitCreate
<1>1. PICK e \in Entries, b \in CreateBody : e = req[r].entry /\ b = req[r].body
  BY <1>0 DEF Creating
<1>2. e \notin DOMAIN entry /\ e \notin DOMAIN walletTx
  BY <1>1 DEF FreshCreates, CommitCreate, TypeOK
<1>3. DOMAIN entry' = DOMAIN entry \union {e} /\ entry'[e].version = 1
  BY <1>1 DEF CommitCreate
<1>4. \A x \in DOMAIN entry : entry'[x] = entry[x]
  BY <1>2, <1>1 DEF CommitCreate
<1>5. DOMAIN journals' = DOMAIN journals \union {<<e, 1>>}
  BY <1>1 DEF CommitCreate, PostIn
<1>6. VoidedIsDeleted'
  <2>1. \A x \in DOMAIN walletTx : x # e /\ x \in DOMAIN entry
    BY <1>2 DEF TypeOK
  <2>2. \A x \in DOMAIN walletTx' : walletTx'[x].voided => x \in DOMAIN walletTx /\ walletTx[x].voided
    BY <1>2, <1>1 DEF CommitCreate
  <2> QED
    BY <2>1, <2>2, <1>4 DEF TablesAgree, VoidedIsDeleted
<1>7. JournalsHaveEntries' /\ HistoryIsComplete'
  BY <1>2, <1>3, <1>4, <1>5, HistoryGrows
<1> QED
  BY <1>6, <1>7 DEF TablesAgree

(* What an edit does to the tables, one entry being written.                *)
LEMMA EditTables ==
  ASSUME TypeOK, KnownEntries, NEW r \in Requests, CommitEdit(r), NEW e, e = req[r].entry
  PROVE  /\ req[r] \in Editing /\ e \in DOMAIN entry /\ e \in Entries
         /\ entry' = [entry EXCEPT ![e] = EditedRow(req[r])]
         /\ EditedRow(req[r]) = [entry[e] EXCEPT !.version = entry[e].version + 1,
                                   !.money = EditedRow(req[r]).money,
                                   !.obligation = EditedRow(req[r]).obligation]
         /\ (Link(e))' = NewWallet(req[r])
         /\ \A x \in DOMAIN entry \ {e} :
              /\ (Link(x))' = Link(x)
              /\ x \in DOMAIN walletTx' <=> x \in DOMAIN walletTx
              /\ x \in DOMAIN walletTx => walletTx'[x] = walletTx[x]
         /\ \A x \in DOMAIN walletTx' : walletTx'[x].voided =>
              x \in DOMAIN walletTx /\ walletTx[x].voided
         /\ NewWallet(req[r]) # NoWallet => walletTx'[e].money = NewMoney(req[r])
<1> DEFINE q == req[r]
<1>1. q \in Editing /\ e \in DOMAIN entry /\ e \in Entries /\ entry[e] \in Row
  BY RequestKinds DEF TypeOK, KnownEntries, Holds, CommitEdit, Waiting
<1>2. entry' = [entry EXCEPT ![e] = EditedRow(q)]
  BY DEF CommitEdit
<1>3. EditedRow(q) = [entry[e] EXCEPT !.version = entry[e].version + 1,
                        !.money = EditedRow(q).money, !.obligation = EditedRow(q).obligation]
  BY <1>1 DEF EditedRow, Row
<1>4. CASE NewWallet(q) = NoWallet
  <2>1. q.body.wallet \in Wallets \union {Same}
    BY <1>1 DEF Editing, EditBody
  <2>2. Link(e) = NoWallet
    BY <1>4, <2>1 DEF NewWallet
  <2>3. walletTx' = walletTx
    BY <1>4 DEF CommitEdit
  <2>4. \A x : (Link(x))' = Link(x)
    BY <2>3 DEF Link
  <2> QED
    BY <1>1, <1>2, <1>3, <1>4, <2>2, <2>3, <2>4
<1>5. CASE NewWallet(q) # NoWallet
  <2>1. walletTx' = [x \in DOMAIN walletTx \union {e} |->
                       IF x = e THEN [wallet |-> NewWallet(q), money |-> NewMoney(q),
                                      voided |-> FALSE]
                       ELSE walletTx[x]]
    BY <1>5 DEF CommitEdit
  <2>2. /\ (Link(e))' = NewWallet(q)
        /\ \A x \in DOMAIN entry \ {e} : (Link(x))' = Link(x)
    BY <2>1 DEF Link
  <2>3. walletTx'[e].money = NewMoney(q) /\ ~walletTx'[e].voided
    BY <2>1
  <2>4. \A x : x # e => /\ x \in DOMAIN walletTx' <=> x \in DOMAIN walletTx
                        /\ x \in DOMAIN walletTx => walletTx'[x] = walletTx[x]
    BY <2>1
  <2>5. \A x \in DOMAIN walletTx' : walletTx'[x].voided => x \in DOMAIN walletTx /\ walletTx[x].voided
    BY <2>3, <2>4
  <2> QED
    BY <1>1, <1>2, <1>3, <2>2, <2>3, <2>4, <2>5
<1> QED
  BY <1>4, <1>5

LEMMA EditAgrees ==
  ASSUME TypeOK, TypeOK', KnownEntries, TablesAgree, NEW r \in Requests, CommitEdit(r)
  PROVE  TablesAgree'
<1> DEFINE q == req[r]
           row == EditedRow(q)
<1>0. PICK e \in DOMAIN entry : e = q.entry
  BY DEF KnownEntries, Holds, CommitEdit
<1>1. /\ e \in Entries /\ entry' = [entry EXCEPT ![e] = row]
      /\ \A x \in DOMAIN walletTx' : walletTx'[x].voided =>
           x \in DOMAIN walletTx /\ walletTx[x].voided
  BY <1>0, EditTables
<1>2. row.version = entry[e].version + 1 /\ row.deleted = entry[e].deleted
  BY <1>0 DEF EditedRow, TypeOK, Row
<1>3. DOMAIN journals' = DOMAIN journals \union {<<e, row.version>>}
  <2> DEFINE old == <<e, q.seen.version>>
             new == <<e, row.version>>
             d == EditedDraft(q)
  <2>1. journals' = Repost(journals, old, new, d)
    BY <1>0 DEF CommitEdit
  <2> HIDE DEF old, new, d
  <2>2. Reposted(journals, journals', old, new, d)
    BY <2>1, RepostPosts
  <2>3. DOMAIN journals' = DOMAIN journals \union {new}
    BY <2>2 DEF Reposted
  <2> QED
    BY <2>3 DEF new
<1> HIDE DEF row
<1>4. VoidedIsDeleted'
  <2>1. \A x \in DOMAIN entry : entry[x].deleted => entry'[x].deleted
    BY <1>0, <1>1, <1>2
  <2> QED
    BY <1>1, <2>1 DEF TablesAgree, VoidedIsDeleted, TypeOK
<1>5. DOMAIN entry' = DOMAIN entry \union {e} /\ entry'[e] = row
  BY <1>0, <1>1
<1>6. \A x \in DOMAIN entry \ {e} : entry'[x] = entry[x]
  BY <1>1
<1>7. JournalsHaveEntries' /\ HistoryIsComplete'
  BY <1>0, <1>1, <1>2, <1>3, <1>5, <1>6, HistoryGrows
<1> QED
  BY <1>4, <1>7 DEF TablesAgree

LEMMA ReassignAgrees ==
  ASSUME TypeOK, TypeOK', KnownEntries, TablesAgree, NEW r \in Requests, CommitReassign(r)
  PROVE  TablesAgree'
<1> DEFINE q == req[r]
           row == MovedRow(q)
<1>0. PICK e \in DOMAIN entry : e = q.entry
  BY DEF KnownEntries, Holds, CommitReassign
<1>1. e \in Entries /\ entry[e] \in Row
  BY DEF TypeOK
<1>2. row.version = entry[e].version + 1 /\ row.deleted = entry[e].deleted
  BY <1>0, <1>1 DEF MovedRow, Row
<1>3. entry' = [entry EXCEPT ![e] = row]
  BY <1>0 DEF CommitReassign
<1>4. DOMAIN journals' = DOMAIN journals \union {<<e, row.version>>}
  <2> DEFINE old == <<e, q.seen.version>>
             new == <<e, row.version>>
             d == EntryDraft(q.target, q.probe, row.money, row.obligation)
  <2>1. journals' = Repost(journals, old, new, d)
    BY <1>0 DEF CommitReassign
  <2> HIDE DEF old, new, d
  <2>2. Reposted(journals, journals', old, new, d)
    BY <2>1, RepostPosts
  <2>3. DOMAIN journals' = DOMAIN journals \union {new}
    BY <2>2 DEF Reposted
  <2> QED
    BY <2>3 DEF new
<1>5. VoidedIsDeleted'
  BY <1>1, <1>2, <1>3 DEF TablesAgree, VoidedIsDeleted, TypeOK, CommitReassign
<1> HIDE DEF row
<1>6. DOMAIN entry' = DOMAIN entry \union {e} /\ entry'[e] = row
  BY <1>3
<1>7. \A x \in DOMAIN entry \ {e} : entry'[x] = entry[x]
  BY <1>3
<1>8. JournalsHaveEntries' /\ HistoryIsComplete'
  BY <1>1, <1>2, <1>4, <1>6, <1>7, HistoryGrows
<1> QED
  BY <1>5, <1>8 DEF TablesAgree

LEMMA DeleteAgrees ==
  ASSUME TypeOK, KnownEntries, TablesAgree, NEW r \in Requests, CommitDelete(r)
  PROVE  TablesAgree'
<1>0. PICK e \in DOMAIN entry : e = req[r].entry
  BY DEF KnownEntries, Holds, CommitDelete
<1>1. /\ DOMAIN entry' = DOMAIN entry
      /\ entry'[e].deleted /\ entry'[e].version = entry[e].version
      /\ \A x \in DOMAIN entry \ {e} : entry'[x] = entry[x]
  BY <1>0 DEF CommitDelete, TypeOK, Row
<1>2. DOMAIN journals' = DOMAIN journals
  BY ReversePosts DEF CommitDelete
<1>3. \A x \in DOMAIN entry : entry'[x].version = entry[x].version
  BY <1>1
<1>4. VoidedIsDeleted'
  BY <1>0, <1>1 DEF TablesAgree, VoidedIsDeleted, TypeOK, CommitDelete
<1> QED
  BY <1>1, <1>2, <1>3, <1>4 DEF TablesAgree, JournalsHaveEntries, HistoryIsComplete

(* Steps that leave the ledger, the wallet rows and what the journals say   *)
(* of the entries alone.                                                   *)
LEMMA OthersAgree ==
  ASSUME TypeOK, TablesAgree, UNCHANGED <<walletTx, journals>>,
         DOMAIN entry' = DOMAIN entry,
         \A x \in DOMAIN entry :
            entry'[x].version = entry[x].version /\ entry'[x].deleted = entry[x].deleted
  PROVE  TablesAgree'
BY DEF TablesAgree, JournalsHaveEntries, HistoryIsComplete, VoidedIsDeleted, TypeOK

(* The steps that write no entry, no wallet row and no journal.             *)
Quiet(r) ==
  \/ \E e \in Entries, body \in CreateBody : ReadCreate(r, e, body)
  \/ \E e \in Entries, body \in EditBody, v \in BOOLEAN : ReadEdit(r, e, body, v)
  \/ \E e \in Entries, b \in Books, v \in Versions : ReadReassign(r, e, b, v)
  \/ \E e \in Entries : ReadDelete(r, e) \/ ReadAskDelete(r, e) \/ ReadReconcile(r, e)
  \/ \E i \in DeleteRequests : CommitAskDelete(r, i) \/ ReadReview(r, i)
  \/ \E s \in {"APPROVED", "REJECTED"} : DecideReview(r, s)
  \/ Probe(r)
  \/ Abandon(r)

LEMMA QuietWrites ==
  ASSUME NEW r \in Requests, Quiet(r)
  PROVE  UNCHANGED <<entry, walletTx, obligation, journals, caches>>
BY DEF Quiet, ReadCreate, ReadEdit, ReadReassign, ReadDelete, ReadAskDelete, ReadReconcile,
       CommitAskDelete, ReadReview, DecideReview, Probe, Abandon

LEMMA StepKinds ==
  ASSUME [Next]_vars
  PROVE  \/ UNCHANGED vars
         \/ \E r \in Requests :
              Quiet(r) \/ CommitCreate(r) \/ CommitEdit(r) \/ CommitReassign(r)
                \/ CommitDelete(r) \/ CommitReconcile(r)
BY DEF Next, Quiet

(* toggleReconciliation writes nothing but the mark.                        *)
LEMMA ReconcileWrites ==
  ASSUME TypeOK, NEW r \in Requests, CommitReconcile(r)
  PROVE  /\ UNCHANGED <<walletTx, obligation, journals, caches>> /\ DOMAIN entry' = DOMAIN entry
         /\ \A x \in DOMAIN entry :
              /\ entry'[x].version = entry[x].version /\ entry'[x].deleted = entry[x].deleted
              /\ entry'[x].book = entry[x].book /\ entry'[x].money = entry[x].money
              /\ entry'[x].obligation = entry[x].obligation
BY DEF CommitReconcile, TypeOK, Row

LEMMA TablesStep ==
  TypeOK /\ TypeOK' /\ KnownEntries /\ TablesAgree /\ RequestsAgree /\ [Next]_vars => TablesAgree'
<1> SUFFICES ASSUME TypeOK, TypeOK', KnownEntries, TablesAgree, RequestsAgree, [Next]_vars
             PROVE  TablesAgree'
  OBVIOUS
<1>1. ASSUME UNCHANGED <<entry, walletTx, journals>> PROVE TablesAgree'
  BY <1>1, OthersAgree
<1>2. CASE UNCHANGED vars
  BY <1>1, <1>2 DEF vars
<1>3. ASSUME NEW r \in Requests, Quiet(r) PROVE TablesAgree'
  BY <1>1, <1>3, QuietWrites
<1>4. ASSUME NEW r \in Requests, CommitReconcile(r) PROVE TablesAgree'
  BY <1>4, ReconcileWrites, OthersAgree
<1>5. ASSUME NEW r \in Requests,
             CommitCreate(r) \/ CommitEdit(r) \/ CommitReassign(r) \/ CommitDelete(r)
      PROVE  TablesAgree'
  BY <1>5, CreateAgrees, EditAgrees, ReassignAgrees, DeleteAgrees DEF RequestsAgree
<1> QED
  BY <1>2, <1>3, <1>4, <1>5, StepKinds

-----------------------------------------------------------------------------
(* The requests, action by action.                                         *)

(* What RequestsAgree asks of one request, given the tables.                *)
Agrees(q) ==
  /\ q.pc \in Waiting \union {"review"} =>
       /\ q.seen.version <= entry[q.entry].version
       /\ q.seen.version = entry[q.entry].version =>
            /\ q.seen.book = entry[q.entry].book
            /\ q.seen.money = entry[q.entry].money
            /\ q.seen.obligation = entry[q.entry].obligation
  /\ q.pc = "commit" => (q.op \in {"edit", "reassign"} => (Current(q) => q.probe = Link(q.entry)))

LEMMA EachAgrees ==
  ASSUME RequestsAgree, NEW r \in Requests
  PROVE  Agrees(req[r])
BY DEF RequestsAgree, SeenIsPast, ProbesHold, Agrees

(* A step that only rewrites the slot of one request.                       *)
LEMMA SlotAgrees ==
  ASSUME TypeOK, RequestsAgree, NEW r \in Requests, NEW q, req' = [req EXCEPT ![r] = q],
         UNCHANGED <<entry, walletTx>>, Agrees(q),
         q.pc = "create" =>
           /\ q.entry \notin DOMAIN entry
           /\ \A s \in Requests : req[s].pc = "create" => req[s].entry # q.entry
  PROVE  RequestsAgree'
<1>1. req'[r] = q /\ \A s \in Requests \ {r} : req'[s] = req[s]
  BY DEF TypeOK
<1>2. \A e : (Link(e))' = Link(e)
  BY DEF Link
<1>3. \A s \in Requests : Agrees(req'[s])
  BY <1>1, EachAgrees
<1>4. FreshCreates'
  BY <1>1 DEF RequestsAgree, FreshCreates
<1>5. SeenIsPast'
  BY <1>3 DEF SeenIsPast, Agrees
<1>6. ProbesHold'
  BY <1>2, <1>3 DEF ProbesHold, Agrees, Current
<1> QED
  BY <1>4, <1>5, <1>6 DEF RequestsAgree

(* A step that ends a request and may write the tables, as long as every    *)
(* change of an entry that matters to the others comes with a new version.  *)
LEMMA TablesWritten ==
  ASSUME TypeOK, TypeOK', KnownEntries, RequestsAgree, NEW r \in Requests, Finish(r),
         \A e \in DOMAIN entry' : e \in DOMAIN entry \/ (req[r].pc = "create" /\ e = req[r].entry),
         \A e \in DOMAIN entry :
            /\ e \in DOMAIN entry'
            /\ entry[e].version <= entry'[e].version
            /\ entry[e].version = entry'[e].version =>
                 /\ entry'[e].book = entry[e].book
                 /\ entry'[e].money = entry[e].money
                 /\ entry'[e].obligation = entry[e].obligation
                 /\ ~entry'[e].deleted => ~entry[e].deleted /\ (Link(e))' = Link(e)
  PROVE  RequestsAgree'
<1>1. req'[r] = Idle /\ \A s \in Requests \ {r} : req'[s] = req[s]
  BY DEF TypeOK, Finish
<1>2. FreshCreates'
  BY <1>1 DEF RequestsAgree, FreshCreates, Idle
<1>4. ASSUME NEW s \in Requests \ {r}, req[s].pc \in Waiting \union {"review"},
             NEW e, e = req[s].entry
      PROVE  /\ e \in DOMAIN entry
             /\ req[s].seen.version \in Nat /\ entry[e].version \in Nat /\ entry'[e].version \in Nat
             /\ req[s].seen.version <= entry[e].version
             /\ entry[e].version <= entry'[e].version
  <2>1. e \in DOMAIN entry
    BY <1>4 DEF KnownEntries, Holds, Waiting
  <2>2. req[s].seen \in Row
    BY <1>4, RequestKinds DEF TypeOK, Waiting, Editing, Moving, Deleting, Reviewing
  <2>3. req[s].seen.version \in Nat /\ entry[e].version \in Nat /\ entry'[e].version \in Nat
    BY <2>1, <2>2 DEF TypeOK, Row, Versions
  <2>4. req[s].seen.version <= entry[e].version
    BY <1>4 DEF RequestsAgree, SeenIsPast
  <2> QED
    BY <2>1, <2>3, <2>4
<1>5. SeenIsPast'
  <2> SUFFICES ASSUME NEW s \in Requests \ {r}, req[s].pc \in Waiting \union {"review"},
                      NEW e, e = req[s].entry
               PROVE  /\ req[s].seen.version <= entry'[e].version
                      /\ req[s].seen.version = entry'[e].version =>
                           /\ req[s].seen.book = entry'[e].book
                           /\ req[s].seen.money = entry'[e].money
                           /\ req[s].seen.obligation = entry'[e].obligation
    BY <1>1 DEF SeenIsPast, Idle, Waiting
  <2>1. /\ e \in DOMAIN entry
        /\ req[s].seen.version \in Nat /\ entry[e].version \in Nat /\ entry'[e].version \in Nat
        /\ req[s].seen.version <= entry[e].version
        /\ entry[e].version <= entry'[e].version
    BY <1>4
  <2>2. req[s].seen.version = entry'[e].version => entry[e].version = entry'[e].version
    BY <2>1
  <2>3. req[s].seen.version <= entry'[e].version
    BY <2>1
  <2>4. req[s].seen.version = entry[e].version =>
          /\ req[s].seen.book = entry[e].book
          /\ req[s].seen.money = entry[e].money
          /\ req[s].seen.obligation = entry[e].obligation
    BY DEF RequestsAgree, SeenIsPast
  <2> QED
    BY <2>1, <2>2, <2>3, <2>4
<1>6. ProbesHold'
  <2> SUFFICES ASSUME NEW s \in Requests \ {r}, req[s].pc = "commit",
                      req[s].op \in {"edit", "reassign"}, NEW e, e = req[s].entry,
                      entry'[e].version = req[s].seen.version, ~entry'[e].deleted
               PROVE  req[s].probe = (Link(e))'
    BY <1>1 DEF ProbesHold, Current, Idle
  <2>1. /\ e \in DOMAIN entry
        /\ req[s].seen.version \in Nat /\ entry[e].version \in Nat /\ entry'[e].version \in Nat
        /\ req[s].seen.version <= entry[e].version
        /\ entry[e].version <= entry'[e].version
    BY <1>4 DEF Waiting
  <2>2. entry[e].version = entry'[e].version /\ entry[e].version = req[s].seen.version
    BY <2>1
  <2>3. ~entry[e].deleted /\ (Link(e))' = Link(e)
    BY <2>1, <2>2
  <2>4. Current(req[s])
    BY <2>2, <2>3 DEF Current
  <2>5. req[s].probe = Link(req[s].entry)
    BY <2>4 DEF RequestsAgree, ProbesHold
  <2> QED
    BY <2>3, <2>5
<1> QED
  BY <1>2, <1>5, <1>6 DEF RequestsAgree

LEMMA ReadsAgree ==
  ASSUME TypeOK, KnownEntries, RequestsAgree, NEW r \in Requests
  PROVE  /\ \A e \in Entries, b \in CreateBody : ReadCreate(r, e, b) => RequestsAgree'
         /\ \A e \in Entries, b \in EditBody, v \in BOOLEAN : ReadEdit(r, e, b, v) => RequestsAgree'
         /\ \A e \in Entries, b \in Books, v \in Versions : ReadReassign(r, e, b, v) => RequestsAgree'
         /\ \A e \in Entries : ReadDelete(r, e) => RequestsAgree'
         /\ \A e \in Entries : ReadAskDelete(r, e) => RequestsAgree'
         /\ \A i \in DeleteRequests : ReadReview(r, i) => RequestsAgree'
         /\ \A e \in Entries : ReadReconcile(r, e) => RequestsAgree'
         /\ \A i \in DeleteRequests : CommitAskDelete(r, i) => RequestsAgree'
         /\ Abandon(r) => RequestsAgree'
<1>0. \A e \in DOMAIN entry : entry[e].version \in Nat
  BY DEF TypeOK, Row, Versions
<1>1. ASSUME NEW e \in Entries, NEW b \in CreateBody, ReadCreate(r, e, b) PROVE RequestsAgree'
  <2> DEFINE q == [pc |-> "create", entry |-> e, body |-> b]
  <2>1. Agrees(q)
    BY DEF Agrees, Waiting
  <2> QED
    BY <1>1, <2>1, SlotAgrees DEF ReadCreate
<1>2. ASSUME NEW e \in Entries, NEW b \in EditBody, NEW v \in BOOLEAN, ReadEdit(r, e, b, v)
      PROVE  RequestsAgree'
  <2> DEFINE q == [pc |-> "probe", op |-> "edit", entry |-> e, seen |-> entry[e],
                   probe |-> NoWallet, versioned |-> v, body |-> b]
  <2>1. e \in DOMAIN entry
    BY <1>2 DEF ReadEdit, Exists
  <2>2. Agrees(q)
    BY <1>0, <2>1 DEF Agrees, Waiting
  <2> QED
    BY <1>2, <2>2, SlotAgrees DEF ReadEdit
<1>3. ASSUME NEW e \in Entries, NEW b \in Books, NEW v \in Versions, ReadReassign(r, e, b, v)
      PROVE  RequestsAgree'
  <2> DEFINE q == [pc |-> "probe", op |-> "reassign", entry |-> e, seen |-> entry[e],
                   probe |-> NoWallet, target |-> b, expected |-> v]
  <2>1. Agrees(q)
    BY <1>0, <1>3 DEF Agrees, Waiting, ReadReassign, Exists
  <2> QED
    BY <1>3, <2>1, SlotAgrees DEF ReadReassign
<1>4. ASSUME NEW e \in Entries, ReadDelete(r, e) PROVE RequestsAgree'
  <2> DEFINE q == [pc |-> "probe", op |-> "delete", entry |-> e, seen |-> entry[e],
                   probe |-> NoWallet]
  <2>1. Agrees(q)
    BY <1>0, <1>4 DEF Agrees, Waiting, ReadDelete, Exists
  <2> QED
    BY <1>4, <2>1, SlotAgrees DEF ReadDelete
<1>5. ASSUME NEW e \in Entries, ReadAskDelete(r, e) PROVE RequestsAgree'
  <2> DEFINE q == [pc |-> "ask", entry |-> e]
  <2>1. Agrees(q)
    BY DEF Agrees, Waiting
  <2> QED
    BY <1>5, <2>1, SlotAgrees DEF ReadAskDelete
<1>6. ASSUME NEW i \in DeleteRequests, ReadReview(r, i) PROVE RequestsAgree'
  <2> DEFINE e == deleteReq[i].entry
             q == [pc |-> "review", id |-> i, entry |-> e, seen |-> entry[e]]
  <2>1. e \in DOMAIN entry
    BY <1>6 DEF ReadReview, TypeOK
  <2>2. Agrees(q)
    BY <1>0, <2>1 DEF Agrees, Waiting
  <2> QED
    BY <1>6, <2>2, SlotAgrees DEF ReadReview
<1>7. ASSUME NEW e \in Entries, ReadReconcile(r, e) PROVE RequestsAgree'
  <2> DEFINE q == [pc |-> "reconcile", entry |-> e, seen |-> entry[e]]
  <2>1. Agrees(q)
    BY DEF Agrees, Waiting
  <2> QED
    BY <1>7, <2>1, SlotAgrees DEF ReadReconcile
<1>8. ASSUME Finish(r), UNCHANGED <<entry, walletTx>> PROVE RequestsAgree'
  <2>1. Agrees(Idle)
    BY DEF Agrees, Idle, Waiting
  <2> QED
    BY <1>8, <2>1, SlotAgrees DEF Finish, Idle
<1> QED
  BY <1>1, <1>2, <1>3, <1>4, <1>5, <1>6, <1>7, <1>8 DEF CommitAskDelete, Abandon

LEMMA ProbeAgrees ==
  ASSUME TypeOK, KnownEntries, RequestsAgree, VoidedIsDeleted, NEW r \in Requests, Probe(r)
  PROVE  RequestsAgree'
<1> DEFINE o == req[r]
           e == o.entry
           p == IF o.op = "reassign" THEN AnyLink(e) ELSE Link(e)
           q == [o EXCEPT !.pc = "commit", !.probe = p]
<1>1. o \in Editing \union Moving \union Deleting /\ o.pc = "probe"
  BY RequestKinds DEF TypeOK, Probe, Waiting
<1>2. /\ q.pc = "commit" /\ q.op = o.op /\ q.entry = e /\ q.seen = o.seen /\ q.probe = p
      /\ q.op = "edit" => q.versioned = o.versioned
  BY <1>1 DEF Editing, Moving, Deleting
<1>3. req' = [req EXCEPT ![r] = q]
  BY DEF Probe
<1>4. AnyLink(e) = Link(e) \/ entry[e].deleted
  BY DEF AnyLink, Link, VoidedIsDeleted
<1>5. Current(q) => p = Link(e)
  BY <1>2, <1>4 DEF Current
<1>6. Agrees(o)
  BY EachAgrees
<1> HIDE DEF q, p
<1>7. Agrees(q)
  BY <1>1, <1>2, <1>5, <1>6 DEF Agrees, Waiting
<1> QED
  BY <1>2, <1>3, <1>7, SlotAgrees DEF Probe

LEMMA ReviewAgrees ==
  ASSUME TypeOK, RequestsAgree, NEW r \in Requests, NEW s \in {"APPROVED", "REJECTED"},
         DecideReview(r, s)
  PROVE  RequestsAgree'
<1> DEFINE o == req[r]
           q == [pc |-> "probe", op |-> "delete", entry |-> o.entry, seen |-> o.seen,
                 probe |-> NoWallet]
<1>1. Agrees(o) /\ o.pc = "review"
  BY EachAgrees DEF DecideReview
<1>2. Agrees(q) /\ Agrees(Idle)
  BY <1>1 DEF Agrees, Waiting, Idle
<1> QED
  BY <1>2, SlotAgrees DEF DecideReview, Idle

LEMMA CommitsAgree ==
  ASSUME TypeOK, TypeOK', KnownEntries, RequestsAgree, NEW r \in Requests,
         \/ CommitCreate(r) \/ CommitEdit(r) \/ CommitReassign(r) \/ CommitDelete(r)
         \/ CommitReconcile(r)
  PROVE  RequestsAgree'
<1>0. \A x \in DOMAIN entry : entry[x] \in Row /\ entry[x].version \in Nat
  BY DEF TypeOK, Row, Versions
<1>1. CASE CommitCreate(r)
  <2> DEFINE e == req[r].entry
  <2>1. e \notin DOMAIN entry /\ req[r].pc = "create"
    BY <1>1 DEF CommitCreate, RequestsAgree, FreshCreates
  <2>2. DOMAIN entry' = DOMAIN entry \union {e}
    BY <1>1 DEF CommitCreate
  <2>3. \A x \in DOMAIN entry : entry'[x] = entry[x] /\ (Link(x))' = Link(x)
    BY <1>1, <2>1 DEF CommitCreate, Link
  <2>4. Finish(r)
    BY <1>1 DEF CommitCreate
  <2> QED
    BY <1>0, <2>1, <2>2, <2>3, <2>4, TablesWritten
<1>2. CASE CommitEdit(r)
  <2>1. PICK e \in DOMAIN entry : e = req[r].entry
    BY <1>2 DEF KnownEntries, Holds, CommitEdit
  <2>2. /\ DOMAIN entry' = DOMAIN entry
        /\ entry'[e].version = entry[e].version + 1
        /\ \A x \in DOMAIN entry \ {e} : entry'[x] = entry[x]
    BY <1>0, <1>2, <2>1 DEF CommitEdit, EditedRow, Row
  <2>3. \A x \in DOMAIN entry \ {e} : (Link(x))' = Link(x)
    <3>1. CASE NewWallet(req[r]) = NoWallet
      BY <1>2, <3>1 DEF CommitEdit, Link
    <3>2. CASE NewWallet(req[r]) # NoWallet
      BY <1>2, <2>1, <3>2 DEF CommitEdit, Link
    <3> QED
      BY <3>1, <3>2
  <2>4. Finish(r)
    BY <1>2 DEF CommitEdit
  <2> QED
    BY <1>0, <2>2, <2>3, <2>4, TablesWritten
<1>3. CASE CommitReassign(r)
  <2>1. PICK e \in DOMAIN entry : e = req[r].entry
    BY <1>3 DEF KnownEntries, Holds, CommitReassign
  <2>2. /\ DOMAIN entry' = DOMAIN entry
        /\ entry'[e].version = entry[e].version + 1
        /\ \A x \in DOMAIN entry \ {e} : entry'[x] = entry[x]
    BY <1>0, <1>3, <2>1 DEF CommitReassign, MovedRow, Row
  <2>3. \A x \in DOMAIN entry \ {e} : (Link(x))' = Link(x)
    BY <1>3 DEF CommitReassign, Link
  <2>4. Finish(r)
    BY <1>3 DEF CommitReassign
  <2> QED
    BY <1>0, <2>2, <2>3, <2>4, TablesWritten
<1>4. CASE CommitDelete(r)
  <2>1. PICK e \in DOMAIN entry : e = req[r].entry
    BY <1>4 DEF KnownEntries, Holds, CommitDelete
  <2>2. /\ DOMAIN entry' = DOMAIN entry
        /\ entry'[e] = [entry[e] EXCEPT !.deleted = TRUE]
        /\ \A x \in DOMAIN entry \ {e} : entry'[x] = entry[x]
    BY <1>4, <2>1 DEF CommitDelete
  <2>3. /\ entry'[e].deleted /\ entry'[e].version = entry[e].version
        /\ entry'[e].book = entry[e].book /\ entry'[e].money = entry[e].money
        /\ entry'[e].obligation = entry[e].obligation
    BY <1>0, <2>1, <2>2 DEF Row
  <2>4. \A x \in DOMAIN entry \ {e} : (Link(x))' = Link(x)
    BY <1>4, <2>1 DEF CommitDelete, Link
  <2>5. Finish(r)
    BY <1>4 DEF CommitDelete
  <2>6. DOMAIN entry' = DOMAIN entry
    BY <2>2
  <2>7. ASSUME NEW x \in DOMAIN entry
        PROVE  /\ x \in DOMAIN entry'
               /\ entry[x].version <= entry'[x].version
               /\ entry[x].version = entry'[x].version =>
                    /\ entry'[x].book = entry[x].book
                    /\ entry'[x].money = entry[x].money
                    /\ entry'[x].obligation = entry[x].obligation
                    /\ ~entry'[x].deleted => ~entry[x].deleted /\ (Link(x))' = Link(x)
    <3>1. CASE x = e
      BY <1>0, <2>1, <2>3, <2>6, <3>1
    <3>2. CASE x # e
      BY <1>0, <2>2, <2>4, <3>2
    <3> QED
      BY <3>1, <3>2
  <2>8. \A x \in DOMAIN entry' : x \in DOMAIN entry
    BY <2>2
  <2> QED
    BY <2>5, <2>7, <2>8, TablesWritten
<1>5. CASE CommitReconcile(r)
  <2>1. DOMAIN entry' = DOMAIN entry
    BY <1>5 DEF CommitReconcile
  <2>2. \A x \in DOMAIN entry :
          /\ entry'[x].version = entry[x].version /\ entry'[x].book = entry[x].book
          /\ entry'[x].money = entry[x].money /\ entry'[x].obligation = entry[x].obligation
          /\ entry'[x].deleted = entry[x].deleted
    BY <1>0, <1>5 DEF CommitReconcile, Row
  <2>3. \A x : (Link(x))' = Link(x)
    BY <1>5 DEF CommitReconcile, Link
  <2>4. Finish(r)
    BY <1>5 DEF CommitReconcile
  <2> QED
    BY <1>0, <2>1, <2>2, <2>3, <2>4, TablesWritten
<1> QED
  BY <1>1, <1>2, <1>3, <1>4, <1>5

LEMMA RequestsStep ==
  TypeOK /\ TypeOK' /\ KnownEntries /\ VoidedIsDeleted /\ RequestsAgree /\ [Next]_vars
    => RequestsAgree'
<1> SUFFICES ASSUME TypeOK, TypeOK', KnownEntries, VoidedIsDeleted, RequestsAgree, [Next]_vars
             PROVE  RequestsAgree'
  OBVIOUS
<1>1. CASE UNCHANGED vars
  BY <1>1 DEF vars, RequestsAgree, FreshCreates, SeenIsPast, ProbesHold, Current, Link
<1> QED
  BY <1>1, ReadsAgree, ProbeAgrees, ReviewAgrees, CommitsAgree DEF Next

-----------------------------------------------------------------------------
(* The invariant.                                                          *)

LEMMA InitIInv == Init => IInv
<1> SUFFICES ASSUME Init PROVE IInv
  OBVIOUS
<1>1. DOMAIN entry = {} /\ DOMAIN walletTx = {} /\ DOMAIN journals = {}
  BY DEF Init
<1>2. \A r \in Requests : req[r] = Idle
  BY DEF Init
<1>3. TypeOK
  BY InitType
<1>4. KnownEntries /\ FreshCreates /\ SeenIsPast /\ ProbesHold
  BY <1>2 DEF KnownEntries, Holds, FreshCreates, SeenIsPast, ProbesHold, Idle, Waiting
<1>5. JournalsHaveEntries /\ VoidedIsDeleted /\ HistoryIsComplete
  BY <1>1 DEF JournalsHaveEntries, VoidedIsDeleted, HistoryIsComplete
<1> QED
  BY <1>3, <1>4, <1>5 DEF IInv

LEMMA StepIInv == IInv /\ [Next]_vars => IInv'
<1> SUFFICES ASSUME IInv, [Next]_vars PROVE IInv'
  OBVIOUS
<1>1. TypeOK /\ KnownEntries /\ TablesAgree /\ RequestsAgree
  BY DEF IInv, TablesAgree, RequestsAgree
<1>2. TypeOK' /\ KnownEntries'
  BY <1>1, NextType, NextKnown
<1>3. TablesAgree'
  BY <1>1, <1>2, TablesStep
<1>4. RequestsAgree'
  BY <1>1, <1>2, RequestsStep DEF TablesAgree
<1> QED
  BY <1>2, <1>3, <1>4 DEF IInv, TablesAgree, RequestsAgree

LEMMA AlwaysIInv == Spec => []IInv
BY InitIInv, StepIInv, PTL DEF Spec

(* The comment at the wallet probe of updateEntry is right, whatever races: *)
(* once the version claim succeeds, the wallet probed without a lock is the *)
(* wallet of the entry.                                                    *)
THEOREM ProbeIsAlwaysSafe == Spec => []ProbeIsSafe
<1>1. IInv => ProbeIsSafe
  BY DEF IInv, ProbesHold, ProbeIsSafe, Claims, Current
<1> QED
  BY <1>1, AlwaysIInv, PTL

-----------------------------------------------------------------------------
(* Entries in step with their journals.                                    *)

(* An entry the step does not write.                                       *)
LEMMA StepsElsewhere ==
  ASSUME NEW x \in DOMAIN entry, x \in DOMAIN entry', InStep(x),
         entry[x].version \in Versions,
         entry'[x].version = entry[x].version, entry'[x].deleted = entry[x].deleted,
         entry'[x].book = entry[x].book, entry'[x].money = entry[x].money,
         entry'[x].obligation = entry[x].obligation, (Link(x))' = Link(x),
         Link(x) # NoWallet => walletTx'[x].money = walletTx[x].money,
         \A v \in Versions :
            /\ IsPosted(journals', <<x, v>>) <=> IsPosted(journals, <<x, v>>)
            /\ IsPosted(journals, <<x, v>>) => journals'[<<x, v>>] = journals[<<x, v>>]
  PROVE  (InStep(x))'
<1>1. (PostedVersions(x))' = PostedVersions(x)
  BY DEF PostedVersions
<1>2. CASE entry[x].deleted
  BY <1>1, <1>2 DEF InStep
<1>3. CASE ~entry[x].deleted
  <2>1. PostedVersions(x) = {entry[x].version}
    BY <1>3 DEF InStep
  <2>2. IsPosted(journals, <<x, entry[x].version>>)
    BY <2>1 DEF PostedVersions
  <2>3. journals'[<<x, entry[x].version>>] = journals[<<x, entry[x].version>>]
    BY <2>2
  <2>4. EntryDraft(entry'[x].book, (Link(x))', entry'[x].money, entry'[x].obligation)
          = EntryDraft(entry[x].book, Link(x), entry[x].money, entry[x].obligation)
    BY DEF EntryDraft
  <2> QED
    BY <1>1, <1>3, <2>1, <2>3, <2>4 DEF InStep
<1> QED
  BY <1>2, <1>3

(* The entry an edit or a move writes: the journal of its version was the   *)
(* one in force, and that of the next is posted in its place.               *)
LEMMA RepostedInStep ==
  ASSUME TypeOK, TypeOK', NEW e \in DOMAIN entry, e \in DOMAIN entry', InStep(e), ~entry[e].deleted,
         NEW d, ~entry'[e].deleted, entry'[e].version = entry[e].version + 1,
         journals' = Repost(journals, <<e, entry[e].version>>, <<e, entry'[e].version>>, d),
         d = EntryDraft(entry'[e].book, (Link(e))', entry'[e].money, entry'[e].obligation),
         (Link(e))' # NoWallet => walletTx'[e].money = entry'[e].money
  PROVE  (InStep(e))'
<1> DEFINE old == <<e, entry[e].version>>
           new == <<e, entry'[e].version>>
<1>1. entry[e].version \in Versions /\ entry'[e].version \in Versions
  BY DEF TypeOK, Row
<1>2. Reposted(journals, journals', old, new, d)
  BY RepostPosts
<1>3. PostedVersions(e) = {entry[e].version}
  BY DEF InStep
<1>4. \A v \in Versions : IsPosted(journals, <<e, v>>) <=> v = entry[e].version
  BY <1>1, <1>3 DEF PostedVersions
<1>5. \A v \in Versions : IsPosted(journals', <<e, v>>) <=> v = entry'[e].version
  <2> TAKE v \in Versions
  <2>1. IsPosted(journals', <<e, v>>) <=>
          <<e, v>> = new \/ (<<e, v>> # old /\ IsPosted(journals, <<e, v>>))
    BY <1>2 DEF Reposted
  <2> QED
    BY <1>4, <2>1
<1>6. (PostedVersions(e))' = {entry'[e].version}
  BY <1>1, <1>5 DEF PostedVersions
<1>7. journals'[new].draft = d
  BY <1>2 DEF Reposted
<1> QED
  BY <1>6, <1>7 DEF InStep

(* The journals of entries other than e are the same in both ledgers.       *)
LeavesOthers(j, k, e) ==
  \A x, u : x # e => /\ IsPosted(k, <<x, u>>) <=> IsPosted(j, <<x, u>>)
                     /\ IsPosted(j, <<x, u>>) => k[<<x, u>>] = j[<<x, u>>]

(* A repost of e leaves them alone, ...                                     *)
LEMMA RepostElsewhere ==
  ASSUME NEW j, NEW e, NEW v, NEW w, NEW d
  PROVE  LeavesOthers(j, Repost(j, <<e, v>>, <<e, w>>, d), e)
<1> DEFINE old == <<e, v>>
           new == <<e, w>>
           J == Repost(j, old, new, d)
<1>1. Reposted(j, J, old, new, d)
  BY RepostPosts
<1> HIDE DEF J
<1>2. ASSUME NEW x, NEW u, x # e
      PROVE  /\ IsPosted(J, <<x, u>>) <=> IsPosted(j, <<x, u>>)
             /\ IsPosted(j, <<x, u>>) => J[<<x, u>>] = j[<<x, u>>]
  <2> DEFINE k == <<x, u>>
  <2>1. k # old /\ k # new
    BY <1>2
  <2> HIDE DEF k, old, new
  <2>2. IsPosted(J, k) <=> IsPosted(j, k)
    BY <1>1, <2>1 DEF Reposted
  <2>3. IsPosted(j, k) => J[k] = j[k]
    BY <1>1, <2>1 DEF Reposted, IsPosted
  <2> QED
    BY <2>2, <2>3 DEF k
<1> QED
  BY <1>2 DEF LeavesOthers, J

(* ... and so does a reversal.                                              *)
LEMMA ReverseElsewhere ==
  ASSUME NEW j, NEW e, NEW v
  PROVE  LeavesOthers(j, ReverseIn(j, <<e, v>>), e)
<1> DEFINE key == <<e, v>>
<1>1. ASSUME NEW x, NEW u, x # e
      PROVE  /\ IsPosted(ReverseIn(j, key), <<x, u>>) <=> IsPosted(j, <<x, u>>)
             /\ IsPosted(j, <<x, u>>) => ReverseIn(j, key)[<<x, u>>] = j[<<x, u>>]
  <2> DEFINE k == <<x, u>>
  <2>1. k # key
    BY <1>1
  <2> HIDE DEF k, key
  <2>2. IsPosted(ReverseIn(j, key), k) <=> IsPosted(j, k)
    BY <2>1, ReversePosts
  <2>3. ReverseIn(j, key)[k] = j[k]
    BY <2>1, ReversePosts
  <2> QED
    BY <2>2, <2>3 DEF k
<1> QED
  BY <1>1 DEF LeavesOthers

(* A step keeps the entries in step, but for those in S.                    *)
KeepsInStep(S) == \A x \in Entries \ S : InStep(x) => (InStep(x))'

LEMMA CreateInStep ==
  ASSUME IInv, IInv', NEW r \in Requests, CommitCreate(r)
  PROVE  KeepsInStep({})
<1> USE DEF IInv
<1>0. req[r] \in Creating
  BY RequestKinds DEF TypeOK, CommitCreate
<1>1. PICK e \in Entries, b \in CreateBody : e = req[r].entry /\ b = req[r].body
  BY <1>0 DEF Creating
<1> DEFINE d == EntryDraft(b.book, b.wallet, b.money, b.obligation)
           new == <<e, 1>>
<1>2. e \notin DOMAIN entry /\ e \notin DOMAIN walletTx
  BY <1>1 DEF FreshCreates, CommitCreate, TypeOK
<1>3. /\ DOMAIN entry' = DOMAIN entry \union {e}
      /\ entry'[e] = [version |-> 1, deleted |-> FALSE, reconciled |-> FALSE, book |-> b.book,
                      money |-> b.money, obligation |-> b.obligation]
      /\ \A x \in DOMAIN entry : entry'[x] = entry[x]
  BY <1>1, <1>2 DEF CommitCreate
<1>4. \A x \in DOMAIN entry : /\ (Link(x))' = Link(x)
                              /\ Link(x) # NoWallet => walletTx'[x].money = walletTx[x].money
  BY <1>2, <1>1 DEF CommitCreate, Link
<1>5. (Link(e))' = b.wallet /\ (b.wallet # NoWallet => walletTx'[e].money = b.money)
  <2>1. CASE b.wallet = NoWallet
    BY <2>1, <1>2, <1>1 DEF CommitCreate, Link
  <2>2. CASE b.wallet # NoWallet
    <3>1. e \in DOMAIN walletTx' /\ walletTx'[e] = [wallet |-> b.wallet, money |-> b.money, voided |-> FALSE]
      BY <2>2, <1>1 DEF CommitCreate
    <3> QED
      BY <2>2, <3>1 DEF Link
  <2> QED
    BY <2>1, <2>2
<1>6. journals' = PostIn(journals, new, d)
  BY <1>1 DEF CommitCreate
<1> HIDE DEF d
<1>7. /\ DOMAIN journals' = DOMAIN journals \union {new}
      /\ journals'[new] = [status |-> "POSTED", draft |-> d]
      /\ \A k \in DOMAIN journals : k # new => journals'[k] = journals[k]
  BY <1>6 DEF PostIn
<1>8. \A v : <<e, v>> \notin DOMAIN journals
  BY <1>2 DEF JournalsHaveEntries
<1>9. (PostedVersions(e))' = {1}
  <2>1. 1 \in Versions
    BY <1>3 DEF TypeOK, Row
  <2>2. \A v \in Versions : IsPosted(journals', <<e, v>>) <=> v = 1
    <3> TAKE v \in Versions
    <3>1. v = 1 => IsPosted(journals', <<e, v>>)
      BY <1>7 DEF IsPosted
    <3>2. v # 1 => <<e, v>> \notin DOMAIN journals'
      BY <1>7, <1>8
    <3> QED
      BY <3>1, <3>2 DEF IsPosted
  <2> QED
    BY <2>1, <2>2 DEF PostedVersions
<1>10. (InStep(e))'
  <2>1. journals'[<<e, entry'[e].version>>].draft
          = EntryDraft(entry'[e].book, (Link(e))', entry'[e].money, entry'[e].obligation)
    BY <1>3, <1>5, <1>7 DEF d
  <2> QED
    BY <1>3, <1>5, <1>9, <2>1 DEF InStep
<1>11. ASSUME NEW x \in DOMAIN entry, InStep(x) PROVE (InStep(x))'
  <2>1. \A v \in Versions :
          /\ IsPosted(journals', <<x, v>>) <=> IsPosted(journals, <<x, v>>)
          /\ IsPosted(journals, <<x, v>>) => journals'[<<x, v>>] = journals[<<x, v>>]
    BY <1>2, <1>7 DEF IsPosted
  <2>2. entry[x].version \in Versions
    BY DEF TypeOK, Row
  <2> QED
    BY <1>3, <1>4, <1>11, <2>1, <2>2, StepsElsewhere
<1>12. ASSUME NEW x, x \notin DOMAIN entry' PROVE (InStep(x))'
  BY <1>12 DEF InStep
<1> QED
  BY <1>3, <1>10, <1>11, <1>12 DEF KeepsInStep

LEMMA EditInStep ==
  ASSUME IInv, IInv', NEW r \in Requests, CommitEdit(r)
  PROVE  KeepsInStep(IF Current(req[r]) THEN {} ELSE {req[r].entry})
<1> USE DEF IInv
<1> DEFINE q == req[r]
           row == EditedRow(q)
           d == EditedDraft(q)
<1>0. PICK e \in DOMAIN entry : e = q.entry
  BY DEF KnownEntries, Holds, CommitEdit
<1>1. /\ q \in Editing /\ e \in Entries /\ entry' = [entry EXCEPT ![e] = row]
      /\ (Link(e))' = NewWallet(q)
      /\ \A x \in DOMAIN entry \ {e} :
           /\ (Link(x))' = Link(x)
           /\ x \in DOMAIN walletTx' <=> x \in DOMAIN walletTx
           /\ x \in DOMAIN walletTx => walletTx'[x] = walletTx[x]
      /\ NewWallet(q) # NoWallet => walletTx'[e].money = NewMoney(q)
  BY <1>0, EditTables
<1>2. row.version = entry[e].version + 1 /\ row.book = entry[e].book /\ row.deleted = entry[e].deleted
  BY <1>0 DEF EditedRow, TypeOK, Row
<1>3. journals' = Repost(journals, <<e, q.seen.version>>, <<e, row.version>>, d)
  BY <1>0 DEF CommitEdit
<1>4. ASSUME NEW x \in DOMAIN entry \ {e}, InStep(x) PROVE (InStep(x))'
  <2>1. \A v \in Versions :
          /\ IsPosted(journals', <<x, v>>) <=> IsPosted(journals, <<x, v>>)
          /\ IsPosted(journals, <<x, v>>) => journals'[<<x, v>>] = journals[<<x, v>>]
    <3> DEFINE from == q.seen.version
               to == row.version
    <3> HIDE DEF from, to, d
    <3>1. LeavesOthers(journals, journals', e)
      BY <1>3, RepostElsewhere DEF from, to
    <3> QED
      BY <3>1 DEF LeavesOthers
  <2>2. entry[x].version \in Versions /\ entry'[x] = entry[x] /\ x \in DOMAIN entry'
    BY <1>1 DEF TypeOK, Row
  <2>3. Link(x) # NoWallet => walletTx'[x].money = walletTx[x].money
    BY <1>1 DEF Link
  <2> HIDE DEF row, d, q
  <2> QED
    BY <1>1, <1>4, <2>1, <2>2, <2>3, StepsElsewhere
<1>5. ASSUME Current(q), InStep(e) PROVE (InStep(e))'
  <2>1. q.seen.version = entry[e].version /\ ~entry[e].deleted
    BY <1>0, <1>5 DEF Current
  <2>2. q.seen.book = entry[e].book /\ q.seen.money = entry[e].money
    BY <1>0, <2>1 DEF SeenIsPast, CommitEdit, Waiting
  <2>3. row.money = NewMoney(q)
    BY <1>0, <2>2 DEF EditedRow, NewMoney, TypeOK, Row
  <2>4. d = EntryDraft(row.book, (Link(e))', row.money, row.obligation)
    BY <1>1, <1>2, <2>2 DEF EditedDraft
  <2>5. entry'[e] = row /\ e \in DOMAIN entry'
    BY <1>0, <1>1
  <2> HIDE DEF row, d, q
  <2> QED
    BY <1>1, <1>2, <1>3, <1>5, <2>1, <2>3, <2>4, <2>5, RepostedInStep
<1>6. ASSUME NEW x \in Entries, x \notin DOMAIN entry PROVE (InStep(x))'
  BY <1>1, <1>6 DEF InStep
<1> QED
  BY <1>0, <1>4, <1>5, <1>6 DEF KeepsInStep

LEMMA MoveInStep ==
  ASSUME IInv, IInv', NEW r \in Requests, CommitReassign(r)
  PROVE  KeepsInStep(IF Current(req[r]) THEN {} ELSE {req[r].entry})
<1> USE DEF IInv
<1> DEFINE q == req[r]
           row == MovedRow(q)
           d == EntryDraft(q.target, q.probe, row.money, row.obligation)
<1>0. PICK e \in DOMAIN entry : e = q.entry
  BY DEF KnownEntries, Holds, CommitReassign
<1>1. e \in Entries /\ entry' = [entry EXCEPT ![e] = row] /\ walletTx' = walletTx
  BY <1>0 DEF CommitReassign, TypeOK
<1>2. /\ row.version = entry[e].version + 1 /\ row.book = q.target /\ row.deleted = entry[e].deleted
      /\ row.money = entry[e].money
  BY <1>0 DEF MovedRow, TypeOK, Row
<1>3. journals' = Repost(journals, <<e, q.seen.version>>, <<e, row.version>>, d)
  BY <1>0 DEF CommitReassign
<1>4. \A x : (Link(x))' = Link(x)
  BY <1>1 DEF Link
<1>5. ASSUME NEW x \in DOMAIN entry \ {e}, InStep(x) PROVE (InStep(x))'
  <2>1. \A v \in Versions :
          /\ IsPosted(journals', <<x, v>>) <=> IsPosted(journals, <<x, v>>)
          /\ IsPosted(journals, <<x, v>>) => journals'[<<x, v>>] = journals[<<x, v>>]
    <3> DEFINE from == q.seen.version
               to == row.version
    <3> HIDE DEF from, to, d
    <3>1. LeavesOthers(journals, journals', e)
      BY <1>3, RepostElsewhere DEF from, to
    <3> QED
      BY <3>1 DEF LeavesOthers
  <2>2. entry[x].version \in Versions /\ entry'[x] = entry[x] /\ x \in DOMAIN entry'
    BY <1>1 DEF TypeOK, Row
  <2> HIDE DEF row, d, q
  <2> QED
    BY <1>1, <1>4, <1>5, <2>1, <2>2, StepsElsewhere
<1>6. ASSUME Current(q), InStep(e) PROVE (InStep(e))'
  <2>1. q.seen.version = entry[e].version /\ ~entry[e].deleted
    BY <1>0, <1>6 DEF Current
  <2>2. q.probe = Link(e)
    BY <1>0, <1>6 DEF ProbesHold, CommitReassign
  <2>3. d = EntryDraft(row.book, (Link(e))', row.money, row.obligation)
    BY <1>2, <1>4, <2>2
  <2>4. entry'[e] = row /\ e \in DOMAIN entry'
    BY <1>0, <1>1
  <2>5. (Link(e))' # NoWallet => walletTx'[e].money = row.money
    BY <1>1, <1>2, <1>4, <1>6, <2>1 DEF InStep
  <2> HIDE DEF row, d, q
  <2> QED
    BY <1>1, <1>2, <1>3, <1>6, <2>1, <2>3, <2>4, <2>5, RepostedInStep
<1>7. ASSUME NEW x \in Entries, x \notin DOMAIN entry PROVE (InStep(x))'
  BY <1>1, <1>7 DEF InStep
<1> QED
  BY <1>0, <1>5, <1>6, <1>7 DEF KeepsInStep

LEMMA DeleteInStep ==
  ASSUME IInv, IInv', NEW r \in Requests, CommitDelete(r)
  PROVE  KeepsInStep(IF Current(req[r]) THEN {} ELSE {req[r].entry})
<1> USE DEF IInv
<1> DEFINE q == req[r]
<1>0. PICK e \in DOMAIN entry : e = q.entry
  BY DEF KnownEntries, Holds, CommitDelete
<1>1. /\ DOMAIN entry' = DOMAIN entry /\ entry'[e].deleted
      /\ \A x \in DOMAIN entry \ {e} : entry'[x] = entry[x]
  BY <1>0 DEF CommitDelete, TypeOK, Row
<1>2. journals' = ReverseIn(journals, <<e, q.seen.version>>)
  BY <1>0 DEF CommitDelete
<1>3. \A x \in DOMAIN entry \ {e} : /\ (Link(x))' = Link(x)
                                    /\ Link(x) # NoWallet => walletTx'[x].money = walletTx[x].money
  BY <1>0 DEF CommitDelete, Link
<1>4. ASSUME NEW x \in DOMAIN entry \ {e}, InStep(x) PROVE (InStep(x))'
  <2>1. \A v \in Versions :
          /\ IsPosted(journals', <<x, v>>) <=> IsPosted(journals, <<x, v>>)
          /\ IsPosted(journals, <<x, v>>) => journals'[<<x, v>>] = journals[<<x, v>>]
    <3>1. LeavesOthers(journals, journals', e)
      BY <1>2, ReverseElsewhere
    <3> QED
      BY <3>1 DEF LeavesOthers
  <2>2. entry[x].version \in Versions /\ entry'[x] = entry[x] /\ x \in DOMAIN entry'
    BY <1>1 DEF TypeOK, Row
  <2> HIDE DEF q
  <2> QED
    BY <1>3, <1>4, <2>1, <2>2, StepsElsewhere
<1>5. ASSUME Current(q), InStep(e) PROVE (InStep(e))'
  <2>1. q.seen.version = entry[e].version /\ ~entry[e].deleted
    BY <1>0, <1>5 DEF Current
  <2>2. PostedVersions(e) = {entry[e].version}
    BY <1>5, <2>1 DEF InStep
  <2>3. \A v \in Versions : ~IsPosted(journals', <<e, v>>)
    <3> TAKE v \in Versions
    <3>1. IsPosted(journals, <<e, v>>) => v = entry[e].version
      BY <2>2 DEF PostedVersions
    <3>2. \A k : IsPosted(journals', k) => k # <<e, q.seen.version>> /\ IsPosted(journals, k)
      BY <1>2, ReversePosts
    <3> QED
      BY <2>1, <3>1, <3>2
  <2>4. (PostedVersions(e))' = {}
    BY <2>3 DEF PostedVersions
  <2>5. (Link(e))' = NoWallet
    BY <1>0 DEF CommitDelete, Link
  <2> QED
    BY <1>1, <2>4, <2>5 DEF InStep
<1>6. ASSUME NEW x \in Entries, x \notin DOMAIN entry PROVE (InStep(x))'
  BY <1>1, <1>6 DEF InStep
<1> QED
  BY <1>0, <1>4, <1>5, <1>6 DEF KeepsInStep

LEMMA OthersInStep ==
  ASSUME IInv, UNCHANGED <<walletTx, journals>>, DOMAIN entry' = DOMAIN entry,
         \A x \in DOMAIN entry :
           /\ entry'[x].version = entry[x].version /\ entry'[x].deleted = entry[x].deleted
           /\ entry'[x].book = entry[x].book /\ entry'[x].money = entry[x].money
           /\ entry'[x].obligation = entry[x].obligation
  PROVE  KeepsInStep({})
<1>1. \A x : (Link(x))' = Link(x)
  BY DEF Link
<1>2. \A x \in DOMAIN entry : entry[x].version \in Versions
  BY DEF IInv, TypeOK, Row
<1>3. ASSUME NEW x \in DOMAIN entry, InStep(x) PROVE (InStep(x))'
  BY <1>1, <1>2, <1>3, StepsElsewhere
<1>4. ASSUME NEW x, x \notin DOMAIN entry PROVE (InStep(x))'
  BY <1>4 DEF InStep
<1> QED
  BY <1>3, <1>4 DEF KeepsInStep

(* A commit on a reading that is out of date is a stale write: an edit that *)
(* carries a version has claimed it.                                       *)
LEMMA StaleCommits ==
  ASSUME TypeOK, NEW r \in Requests, CommitEdit(r) \/ CommitReassign(r) \/ CommitDelete(r),
         ~Current(req[r])
  PROVE  StaleWrite(r, req[r].entry)
<1> DEFINE q == req[r]
<1>1. q.pc = "commit" /\ req'[r] = Idle
  BY DEF CommitEdit, CommitReassign, CommitDelete, Finish, TypeOK
<1>2. CASE CommitEdit(r)
  <2>1. q.op = "edit" /\ ~q.versioned
    BY <1>2 DEF CommitEdit, Claims, Current
  <2> QED
    BY <1>1, <2>1 DEF StaleWrite, Kind, Waiting
<1>3. CASE CommitReassign(r) \/ CommitDelete(r)
  <2>1. q.op \in {"reassign", "delete"}
    BY <1>3 DEF CommitReassign, CommitDelete
  <2> QED
    BY <1>1, <2>1 DEF StaleWrite, Kind, Waiting
<1> QED
  BY <1>2, <1>3

LEMMA StepInStep ==
  ASSUME IInv, IInv', [Next]_vars, NEW x \in Entries, InStep(x), ~(InStep(x))'
  PROVE  \E r \in Requests : StaleWrite(r, x)
<1>1. CASE UNCHANGED <<entry, walletTx, journals>>
  BY <1>1, OthersInStep DEF KeepsInStep
<1>2. CASE UNCHANGED vars
  BY <1>1, <1>2 DEF vars
<1>3. ASSUME NEW r \in Requests, Quiet(r) PROVE FALSE
  BY <1>1, <1>3, QuietWrites, OthersInStep DEF KeepsInStep
<1>4. ASSUME NEW r \in Requests, CommitReconcile(r) PROVE FALSE
  BY <1>4, ReconcileWrites, OthersInStep DEF KeepsInStep, IInv
<1>5. ASSUME NEW r \in Requests, CommitCreate(r) PROVE FALSE
  BY <1>5, CreateInStep DEF KeepsInStep
<1>6. ASSUME NEW r \in Requests, CommitEdit(r) \/ CommitReassign(r) \/ CommitDelete(r)
      PROVE  StaleWrite(r, x)
  <2>1. ~Current(req[r]) /\ x = req[r].entry
    BY <1>6, EditInStep, MoveInStep, DeleteInStep DEF KeepsInStep
  <2> QED
    BY <1>6, <2>1, StaleCommits DEF IInv
<1> QED
  BY <1>2, <1>3, <1>4, <1>5, <1>6, StepKinds

(* However edits, moves, deletions, reviews and reconciliations of entries  *)
(* race, journals and wallet rows stay in step with their entry until a     *)
(* move, a deletion or an edit without a version commits on a reading that  *)
(* is out of date.                                                         *)
THEOREM EntriesKeepStep == Spec => EntriesStayInStep
<1> DEFINE Keeps == \A e \in Entries :
                      InStep(e) /\ ~(InStep(e))' => \E r \in Requests : StaleWrite(r, e)
<1>1. IInv /\ [Next]_vars => [Keeps]_vars
  BY StepIInv, StepInStep
<1> HIDE DEF Keeps
<1>2. Spec => [][Keeps]_vars
  BY <1>1, AlwaysIInv, PTL DEF Spec
<1> QED
  BY <1>2 DEF EntriesStayInStep, Keeps

-----------------------------------------------------------------------------
(* What a step does to the ledger and the caches: nothing, or a post for a  *)
(* new entry, a repost under a key not used before, or a reversal.          *)
PostsNew ==
  \E r \in Requests, d \in Draft :
    /\ req[r].pc = "create"
    /\ Finish(r)
    /\ DOMAIN entry' = DOMAIN entry \union {req[r].entry}
    /\ journals' = PostIn(journals, <<req[r].entry, 1>>, d)
    /\ caches' = AddDeltas(caches, d, 1)

RepostsOne ==
  \E d \in Draft : \E old, new :
    /\ new[1] \in DOMAIN entry
    /\ new \notin DOMAIN journals
    /\ journals' = Repost(journals, old, new, d)
    /\ caches' = CachesAfterRepost(journals, caches, old, d)

ReversesOne ==
  \E key : /\ journals' = ReverseIn(journals, key)
           /\ caches' = CachesAfterReverse(journals, caches, key)

LEMMA LedgerMoves ==
  ASSUME TypeOK, KnownEntries, [Next]_vars
  PROVE  \/ PostsNew
         \/ /\ DOMAIN entry' = DOMAIN entry
            /\ RepostsOne \/ ReversesOne \/ UNCHANGED <<journals, caches>>
<1>1. CASE UNCHANGED vars
  BY <1>1 DEF vars
<1>2. ASSUME NEW r \in Requests, CommitCreate(r) PROVE PostsNew
  <2> DEFINE b == req[r].body
             d == EntryDraft(b.book, b.wallet, b.money, b.obligation)
  <2>1. req[r] \in Creating
    BY <1>2, RequestKinds DEF TypeOK, CommitCreate
  <2>2. d \in Draft
    BY <2>1, DraftType DEF Creating, CreateBody, Probed
  <2>3. DOMAIN entry' = DOMAIN entry \union {req[r].entry}
    BY <1>2 DEF CommitCreate
  <2> QED
    BY <1>2, <2>2, <2>3 DEF CommitCreate, PostsNew
<1>3. ASSUME NEW r \in Requests, CommitEdit(r)
      PROVE  DOMAIN entry' = DOMAIN entry /\ RepostsOne
  <2> DEFINE q == req[r]
             old == <<q.entry, q.seen.version>>
  <2>1. q \in Editing /\ q.entry \in DOMAIN entry
    BY <1>3, RequestKinds DEF TypeOK, CommitEdit, Waiting, KnownEntries, Holds
  <2>2. EditedDraft(q) \in Draft
    BY <2>1, EditComputes, DraftType DEF EditedDraft, Editing, Row
  <2>3. DOMAIN entry' = DOMAIN entry
    BY <1>3 DEF CommitEdit
  <2>4. /\ <<q.entry, EditedRow(q).version>> \notin DOMAIN journals
        /\ journals' = Repost(journals, old, <<q.entry, EditedRow(q).version>>, EditedDraft(q))
        /\ caches' = CachesAfterRepost(journals, caches, old, EditedDraft(q))
    BY <1>3 DEF CommitEdit
  <2> DEFINE new == <<q.entry, EditedRow(q).version>>
             d == EditedDraft(q)
  <2>5. /\ new[1] \in DOMAIN entry /\ d \in Draft
        /\ new \notin DOMAIN journals
        /\ journals' = Repost(journals, old, new, d)
        /\ caches' = CachesAfterRepost(journals, caches, old, d)
    BY <2>1, <2>2, <2>4
  <2> HIDE DEF new, d, old
  <2> QED
    BY <2>3, <2>5 DEF RepostsOne
<1>4. ASSUME NEW r \in Requests, CommitReassign(r)
      PROVE  DOMAIN entry' = DOMAIN entry /\ RepostsOne
  <2> DEFINE q == req[r]
             old == <<q.entry, q.seen.version>>
             d == EntryDraft(q.target, q.probe, MovedRow(q).money, MovedRow(q).obligation)
  <2>1. q \in Moving /\ q.entry \in DOMAIN entry
    BY <1>4, RequestKinds DEF TypeOK, CommitReassign, Waiting, KnownEntries, Holds
  <2>2. entry[q.entry] \in Row
    BY <2>1 DEF TypeOK
  <2>3. d \in Draft
    BY <2>1, <2>2, DraftType DEF MovedRow, Moving, Row
  <2>4. DOMAIN entry' = DOMAIN entry
    BY <1>4 DEF CommitReassign
  <2>5. /\ <<q.entry, MovedRow(q).version>> \notin DOMAIN journals
        /\ journals' = Repost(journals, old, <<q.entry, MovedRow(q).version>>, d)
        /\ caches' = CachesAfterRepost(journals, caches, old, d)
    BY <1>4 DEF CommitReassign
  <2> DEFINE new == <<q.entry, MovedRow(q).version>>
  <2>6. /\ new[1] \in DOMAIN entry /\ d \in Draft
        /\ new \notin DOMAIN journals
        /\ journals' = Repost(journals, old, new, d)
        /\ caches' = CachesAfterRepost(journals, caches, old, d)
    BY <2>1, <2>3, <2>5
  <2> HIDE DEF new, d, old
  <2> QED
    BY <2>4, <2>6 DEF RepostsOne
<1>5. ASSUME NEW r \in Requests, CommitDelete(r)
      PROVE  DOMAIN entry' = DOMAIN entry /\ ReversesOne
  BY <1>5 DEF CommitDelete, ReversesOne
<1>6. ASSUME NEW r \in Requests, CommitReconcile(r)
      PROVE  DOMAIN entry' = DOMAIN entry /\ UNCHANGED <<journals, caches>>
  BY <1>6 DEF CommitReconcile
<1>7. ASSUME NEW r \in Requests,
             \/ \E e \in Entries, body \in CreateBody : ReadCreate(r, e, body)
             \/ \E e \in Entries, body \in EditBody, v \in BOOLEAN : ReadEdit(r, e, body, v)
             \/ \E e \in Entries, b \in Books, v \in Versions : ReadReassign(r, e, b, v)
             \/ \E e \in Entries : ReadDelete(r, e) \/ ReadAskDelete(r, e) \/ ReadReconcile(r, e)
             \/ \E i \in DeleteRequests : CommitAskDelete(r, i) \/ ReadReview(r, i)
             \/ \E s \in {"APPROVED", "REJECTED"} : DecideReview(r, s)
             \/ Probe(r)
             \/ Abandon(r)
      PROVE  UNCHANGED <<entry, journals, caches>>
  BY <1>7 DEF ReadCreate, ReadEdit, ReadReassign, ReadDelete, ReadAskDelete, ReadReconcile,
              CommitAskDelete, ReadReview, DecideReview, Probe, Abandon
<1> QED
  BY <1>1, <1>2, <1>3, <1>4, <1>5, <1>6, <1>7 DEF Next

-----------------------------------------------------------------------------
(* A create still holds a fresh identifier, and the ledger only entries     *)
(* that are there: true of all requests, versioned or not.                  *)
LEMMA FreshStep ==
  ASSUME TypeOK, FreshCreates, [Next]_vars
  PROVE  FreshCreates'
<1>1. ASSUME NEW r \in Requests, NEW q, req' = [req EXCEPT ![r] = q], DOMAIN entry' = DOMAIN entry,
             q.pc = "create" =>
               /\ q.entry \notin DOMAIN entry
               /\ \A s \in Requests : req[s].pc = "create" => req[s].entry # q.entry
      PROVE  FreshCreates'
  <2>1. req'[r] = q /\ \A s \in Requests \ {r} : req'[s] = req[s]
    BY <1>1 DEF TypeOK
  <2> QED
    BY <1>1, <2>1 DEF FreshCreates
<1>2. ASSUME NEW r \in Requests, Finish(r), DOMAIN entry' = DOMAIN entry PROVE FreshCreates'
  BY <1>1, <1>2 DEF Finish, Idle
<1>3. CASE UNCHANGED vars
  BY <1>3 DEF vars, FreshCreates
<1>4. ASSUME NEW r \in Requests, CommitCreate(r) PROVE FreshCreates'
  <2>1. req'[r] = Idle /\ \A s \in Requests \ {r} : req'[s] = req[s]
    BY <1>4 DEF TypeOK, CommitCreate, Finish
  <2>2. DOMAIN entry' = DOMAIN entry \union {req[r].entry} /\ req[r].pc = "create"
    BY <1>4 DEF CommitCreate
  <2> QED
    BY <2>1, <2>2 DEF FreshCreates, Idle
<1>5. ASSUME NEW r \in Requests, NEW e \in Entries, NEW b \in CreateBody, ReadCreate(r, e, b)
      PROVE  FreshCreates'
  BY <1>1, <1>5 DEF ReadCreate
<1>6. ASSUME NEW r \in Requests,
             \/ \E e \in Entries, body \in EditBody, v \in BOOLEAN : ReadEdit(r, e, body, v)
             \/ \E e \in Entries, b \in Books, v \in Versions : ReadReassign(r, e, b, v)
      PROVE  FreshCreates'
  BY <1>1, <1>6 DEF ReadEdit, ReadReassign
<1>7. ASSUME NEW r \in Requests,
             \/ \E e \in Entries : ReadDelete(r, e) \/ ReadAskDelete(r, e) \/ ReadReconcile(r, e)
             \/ \E i \in DeleteRequests : ReadReview(r, i)
      PROVE  FreshCreates'
  BY <1>1, <1>7 DEF ReadDelete, ReadAskDelete, ReadReconcile, ReadReview
<1>8. ASSUME NEW r \in Requests, NEW s \in {"APPROVED", "REJECTED"}, DecideReview(r, s)
      PROVE  FreshCreates'
  BY <1>1, <1>8 DEF DecideReview, Idle
<1>9. ASSUME NEW r \in Requests, Probe(r) PROVE FreshCreates'
  <2> DEFINE p == IF req[r].op = "reassign" THEN AnyLink(req[r].entry) ELSE Link(req[r].entry)
             q == [req[r] EXCEPT !.pc = "commit", !.probe = p]
  <2>1. req[r] \in Editing \union Moving \union Deleting
    BY <1>9, RequestKinds DEF TypeOK, Probe, Waiting
  <2>2. q.pc = "commit"
    BY <2>1 DEF Editing, Moving, Deleting
  <2>3. req' = [req EXCEPT ![r] = q] /\ DOMAIN entry' = DOMAIN entry
    BY <1>9 DEF Probe
  <2> HIDE DEF q
  <2> QED
    BY <1>1, <2>2, <2>3
<1>10. ASSUME NEW r \in Requests,
              \/ CommitEdit(r) \/ CommitReassign(r) \/ CommitDelete(r) \/ CommitReconcile(r)
              \/ Abandon(r) \/ \E i \in DeleteRequests : CommitAskDelete(r, i)
       PROVE  FreshCreates'
  <2>1. Finish(r) /\ DOMAIN entry' = DOMAIN entry
    BY <1>10 DEF CommitEdit, CommitReassign, CommitDelete, CommitAskDelete, CommitReconcile, Abandon
  <2> QED
    BY <1>2, <2>1
<1> QED
  BY <1>3, <1>4, <1>5, <1>6, <1>7, <1>8, <1>9, <1>10 DEF Next

-----------------------------------------------------------------------------
(* The inductive invariant behind CachesFollowLedger.                       *)
FollowInv ==
  /\ TypeOK
  /\ KnownEntries
  /\ FreshCreates
  /\ JournalsHaveEntries
  /\ IsFiniteSet(DOMAIN entry)
  /\ IsFiniteSet(DOMAIN journals)
  /\ CachesFollowLedger

(* The legs of an entry move whole numbers of cents.                        *)
LEMMA DraftWeighs == ASSUME NEW d \in Draft PROVE Weighs(d)
BY DeltaType DEF Weighs, CashDelta, TotalIncome, TotalExpense

LEMMA InitFollow == Init => FollowInv
<1> SUFFICES ASSUME Init PROVE FollowInv
  OBVIOUS
<1>1. DOMAIN journals = {} /\ DOMAIN entry = {} /\ \A r \in Requests : req[r] = Idle
  BY DEF Init
<1>2. TypeOK /\ KnownEntries /\ FreshCreates /\ JournalsHaveEntries
  BY <1>1, InitType DEF KnownEntries, FreshCreates, JournalsHaveEntries, Holds, Idle
<1>3. IsFiniteSet(DOMAIN entry) /\ IsFiniteSet(DOMAIN journals) /\ Posted(journals) = {}
  BY <1>1, FS_EmptySet DEF Posted
<1>4. \A p : LedgerCash(journals, p) = 0 /\ LedgerIncome(journals, p) = 0
             /\ LedgerExpense(journals, p) = 0
  BY <1>3, CashIsSum, IncomeIsSum, ExpenseIsSum, SumEmpty
<1>5. CachesFollowLedger
  BY <1>4 DEF Init, CachesFollowLedger, CachesEqualLedger
<1> QED
  BY <1>2, <1>3, <1>5 DEF FollowInv

LEMMA StepFollow == FollowInv /\ [Next]_vars => FollowInv'
<1> SUFFICES ASSUME FollowInv, [Next]_vars PROVE FollowInv'
  OBVIOUS
<1> USE DEF FollowInv
<1>1. TypeOK' /\ KnownEntries' /\ FreshCreates'
  BY NextType, NextKnown, FreshStep
<1>2. Weighed(journals) /\ CachesEqualLedger(journals, caches)
  BY DraftWeighs DEF Weighed, CachesFollowLedger, TypeOK, Journal
<1>3. JournalsHaveEntries' /\ Weighed(journals') /\ CachesEqualLedger(journals', caches')
  <2>1. CASE PostsNew
    <3>1. PICK r \in Requests, d \in Draft :
            /\ req[r].pc = "create"
            /\ DOMAIN entry' = DOMAIN entry \union {req[r].entry}
            /\ journals' = PostIn(journals, <<req[r].entry, 1>>, d)
            /\ caches' = AddDeltas(caches, d, 1)
      BY <2>1 DEF PostsNew
    <3>2. <<req[r].entry, 1>> \notin DOMAIN journals
      BY <3>1 DEF FreshCreates, JournalsHaveEntries
    <3>3. JournalsHaveEntries'
      BY <3>1 DEF JournalsHaveEntries, PostIn
    <3> QED
      BY <1>2, <3>1, <3>2, <3>3, DraftWeighs, PostFollows
  <2>2. CASE DOMAIN entry' = DOMAIN entry /\ RepostsOne
    <3>0. PICK d \in Draft : \E old, new :
            /\ new[1] \in DOMAIN entry
            /\ new \notin DOMAIN journals
            /\ journals' = Repost(journals, old, new, d)
            /\ caches' = CachesAfterRepost(journals, caches, old, d)
      BY <2>2 DEF RepostsOne
    <3>1. PICK old, new :
            /\ new[1] \in DOMAIN entry
            /\ new \notin DOMAIN journals
            /\ journals' = Repost(journals, old, new, d)
            /\ caches' = CachesAfterRepost(journals, caches, old, d)
      BY <3>0
    <3>2. DOMAIN journals' = DOMAIN journals \union {new}
      <4>1. Reposted(journals, Repost(journals, old, new, d), old, new, d)
        BY RepostPosts
      <4> QED
        BY <3>1, <4>1 DEF Reposted
    <3>3. JournalsHaveEntries'
      BY <2>2, <3>1, <3>2 DEF JournalsHaveEntries
    <3> QED
      BY <1>2, <3>1, <3>3, DraftWeighs, RepostFollows
  <2>3. CASE DOMAIN entry' = DOMAIN entry /\ ReversesOne
    <3>1. PICK key : /\ journals' = ReverseIn(journals, key)
                     /\ caches' = CachesAfterReverse(journals, caches, key)
      BY <2>3 DEF ReversesOne
    <3>2. DOMAIN journals' = DOMAIN journals
      BY <3>1, PostedAfter
    <3>3. JournalsHaveEntries'
      BY <2>3, <3>2 DEF JournalsHaveEntries
    <3> QED
      BY <1>2, <3>1, <3>3, ReverseFollows
  <2>4. CASE DOMAIN entry' = DOMAIN entry /\ UNCHANGED <<journals, caches>>
    BY <1>2, <2>4 DEF JournalsHaveEntries
  <2> QED
    BY <2>1, <2>2, <2>3, <2>4, LedgerMoves
<1>4. IsFiniteSet(DOMAIN entry')
  <2>1. CASE PostsNew
    <3>1. PICK r \in Requests : DOMAIN entry' = DOMAIN entry \union {req[r].entry}
      BY <2>1 DEF PostsNew
    <3> QED
      BY <3>1, FS_AddElement
  <2> QED
    BY <2>1, LedgerMoves
<1> QED
  BY <1>1, <1>3, <1>4 DEF Weighed, CachesFollowLedger

LEMMA FollowAlways == Spec => []FollowInv
BY InitFollow, StepFollow, PTL DEF Spec

(* However the requests of any number of clients race, with version or      *)
(* without, the four cached columns are the sums over the ledger: every     *)
(* commit adds to the caches exactly what it posts, and takes back exactly  *)
(* what it reverses.                                                        *)
THEOREM CachesAlwaysFollow == Spec => []CachesFollowLedger
<1>1. FollowInv => CachesFollowLedger
  BY DEF FollowInv
<1> QED
  BY <1>1, FollowAlways, PTL

-----------------------------------------------------------------------------
(* The sums over the entries.                                              *)

(* What the lines of an entry's journal move, with the obligation aside.    *)
LEMMA DraftLines ==
  ASSUME NEW d \in Draft, NEW p \in Places, NEW b \in Books
  PROVE  /\ CashDelta(d, p) =
              (IF d.linked THEN (IF p = d.wallet THEN WalletDelta(d.money) ELSE 0)
                           ELSE (IF p = d.book THEN BookDelta(d.money, FALSE) ELSE 0))
         /\ TotalIncome(d, b) = (IF b = d.book THEN IncomeDelta(d.money) ELSE 0)
         /\ TotalExpense(d, b) = (IF b = d.book THEN ExpenseDelta(d.money) ELSE 0)
<1> DEFINE P == Places \union {NoWallet}
           c == [rule |-> d.rule, book |-> d.book, linked |-> d.linked, wallet |-> d.wallet,
                 money |-> d.money, settles |-> d.settles]
<1>1. c \in EntryDrafts(P)
  BY DEF EntryDrafts, Draft, Money
<1>2. /\ c.rule = d.rule /\ c.book = d.book /\ c.linked = d.linked /\ c.wallet = d.wallet
      /\ c.money = d.money /\ c.settles = d.settles
  OBVIOUS
<1> HIDE DEF c
<1>3. d.rule = "CASHBOOK_ENTRY"
  BY DEF Draft
<1>4. Legs(c) = Legs(d)
  BY <1>2, <1>3 DEF Legs, EntryLegs, IncomeLegs, ExpenseLegs, CashRef, Settles
<1>5. /\ CashDelta(c, p) = CashDelta(d, p) /\ TotalIncome(c, b) = TotalIncome(d, b)
      /\ TotalExpense(c, b) = TotalExpense(d, b)
  BY <1>2, <1>4 DEF CashDelta, TotalIncome, TotalExpense, CountsFor
<1>6. p \in P /\ b \in P
  OBVIOUS
<1> HIDE DEF P
<1>7. /\ CashDelta(c, p) =
           (IF c.linked THEN (IF p = c.wallet THEN WalletDelta(c.money) ELSE 0)
                        ELSE (IF p = c.book THEN BookDelta(c.money, FALSE) ELSE 0))
      /\ TotalIncome(c, b) = (IF b = c.book THEN IncomeDelta(c.money) ELSE 0)
      /\ TotalExpense(c, b) = (IF b = c.book THEN ExpenseDelta(c.money) ELSE 0)
  BY <1>1, <1>6, LinesAgreeWithMoney, Zenon
<1> QED
  BY <1>2, <1>5, <1>7

(* With every entry in step, a journal in force is that of the current      *)
(* version of a living entry, and says what the entry says.                 *)
BooksInv == FollowInv /\ \A e \in Entries : InStep(e)

LEMMA PostedIsAlive ==
  ASSUME BooksInv, NEW k \in Posted(journals)
  PROVE  /\ k[1] \in DOMAIN entry /\ ~entry[k[1]].deleted
         /\ k = <<k[1], entry[k[1]].version>>
         /\ journals[k].draft = EntryDraft(entry[k[1]].book, Link(k[1]), entry[k[1]].money,
                                           entry[k[1]].obligation)
<1> USE DEF BooksInv, FollowInv
<1>1. k \in DOMAIN journals /\ IsPosted(journals, k)
  BY DEF Posted, IsPosted
<1>2. PICK e \in Entries, v \in Versions : k = <<e, v>>
  BY <1>1 DEF TypeOK
<1>3. e \in DOMAIN entry /\ v \in PostedVersions(e)
  BY <1>1, <1>2 DEF JournalsHaveEntries, PostedVersions
<1>4. ~entry[e].deleted /\ v = entry[e].version
  <2>1. InStep(e)
    OBVIOUS
  <2> QED
    BY <1>3, <2>1 DEF InStep
<1>5. journals[<<e, v>>].draft =
        EntryDraft(entry[e].book, Link(e), entry[e].money, entry[e].obligation)
  <2>1. InStep(e)
    OBVIOUS
  <2> QED
    BY <1>3, <1>4, <2>1 DEF InStep
<1> QED
  BY <1>2, <1>3, <1>4, <1>5

LEMMA AliveIsPosted ==
  ASSUME BooksInv, NEW e \in DOMAIN entry, ~entry[e].deleted
  PROVE  <<e, entry[e].version>> \in Posted(journals)
<1>1. InStep(e)
  BY DEF BooksInv, FollowInv, TypeOK
<1>2. entry[e].version \in PostedVersions(e)
  BY <1>1 DEF InStep
<1> QED
  BY <1>2 DEF PostedVersions, IsPosted, Posted

(* So a sum over living entries is a sum over the journals in force.        *)
LEMMA AliveSum ==
  ASSUME BooksInv, NEW A, \A e \in A : e \in DOMAIN entry /\ ~entry[e].deleted,
         NEW f, NEW h, \A k \in Posted(journals) : h[k] \in Int,
         \A e \in A : f[e] = h[<<e, entry[e].version>>],
         \A k \in Posted(journals) : k[1] \notin A => h[k] = 0
  PROVE  Over(f, A) = Over(h, Posted(journals))
<1> DEFINE U == Posted(journals)
<1>1. PICK g : g = [e \in A |-> <<e, entry[e].version>>]
  OBVIOUS
<1>2. \A e \in A : g[e] \in U
  BY <1>1, AliveIsPosted
<1>3. \A e \in A : h[g[e]] = f[e] /\ f[e] \in Int
  BY <1>1, <1>2
<1>4. \A e, x \in A : g[e] = g[x] => e = x
  BY <1>1
<1>5. \A k \in U : (\A e \in A : g[e] # k) => h[k] = 0
  <2> SUFFICES ASSUME NEW k \in U, k[1] \in A PROVE g[k[1]] = k
    OBVIOUS
  <2> QED
    BY <1>1, PostedIsAlive
<1>6. Summable(f, A)
  <2>1. IsFiniteSet(A)
    BY FS_Subset DEF BooksInv, FollowInv
  <2> QED
    BY <1>3, <2>1 DEF Summable
<1>7. Summable(h, U)
  BY FS_Subset DEF BooksInv, FollowInv, Summable, Posted
<1> HIDE DEF U
<1>8. Over(f, A) = Over(h, U)
  BY <1>2, <1>3, <1>4, <1>5, <1>6, <1>7, SumMatch
<1> QED
  BY <1>8 DEF U

(* The sums CachesMatchEntries names.                                       *)
CashIn(b) == MapThenSumSet(LAMBDA e : BookDelta(entry[e].money, Link(e) # NoWallet), AliveIn(b))
IncomeIn(b)  == MapThenSumSet(LAMBDA e : IncomeDelta(entry[e].money), AliveIn(b))
ExpenseIn(b) == MapThenSumSet(LAMBDA e : ExpenseDelta(entry[e].money), AliveIn(b))
LinkedTo(w)  == {e \in DOMAIN walletTx : Link(e) = w}
CashOn(w)    == MapThenSumSet(LAMBDA e : WalletDelta(walletTx[e].money), LinkedTo(w))

LEMMA CashInIsSum ==
  ASSUME NEW b
  PROVE  CashIn(b) = Over([e \in AliveIn(b) |-> BookDelta(entry[e].money, Link(e) # NoWallet)],
                          AliveIn(b))
<1> DEFINE S == AliveIn(b)
           v(e) == BookDelta(entry[e].money, Link(e) # NoWallet)
           f == [e \in S |-> v(e)]
           A(h) == [s \in SUBSET S |-> IF s = {} THEN 0 ELSE v(Pick(s)) + h[s \ {Pick(s)}]]
           B(h) == [s \in SUBSET S |-> IF s = {} THEN 0 ELSE f[Pick(s)] + h[s \ {Pick(s)}]]
<1>1. \A s \in SUBSET S : s # {} => f[Pick(s)] = v(Pick(s))
  BY PickIn
<1>2. \A h : A(h) = B(h)
  BY <1>1
<1>3. (CHOOSE h : h = A(h)) = (CHOOSE h : h = B(h))
  BY <1>2
<1>4. CashIn(b) = (CHOOSE h : h = A(h))[S]
  BY DEF CashIn, MapThenSumSet, MapThenFoldSet, Pick
<1>5. Over(f, S) = (CHOOSE h : h = B(h))[S]
  BY DEF Over, MapThenSumSet, MapThenFoldSet, Pick
<1> QED
  BY <1>3, <1>4, <1>5

LEMMA IncomeInIsSum ==
  ASSUME NEW b
  PROVE  IncomeIn(b) = Over([e \in AliveIn(b) |-> IncomeDelta(entry[e].money)], AliveIn(b))
<1> DEFINE S == AliveIn(b)
           v(e) == IncomeDelta(entry[e].money)
           f == [e \in S |-> v(e)]
           A(h) == [s \in SUBSET S |-> IF s = {} THEN 0 ELSE v(Pick(s)) + h[s \ {Pick(s)}]]
           B(h) == [s \in SUBSET S |-> IF s = {} THEN 0 ELSE f[Pick(s)] + h[s \ {Pick(s)}]]
<1>1. \A s \in SUBSET S : s # {} => f[Pick(s)] = v(Pick(s))
  BY PickIn
<1>2. \A h : A(h) = B(h)
  BY <1>1
<1>3. (CHOOSE h : h = A(h)) = (CHOOSE h : h = B(h))
  BY <1>2
<1>4. IncomeIn(b) = (CHOOSE h : h = A(h))[S]
  BY DEF IncomeIn, MapThenSumSet, MapThenFoldSet, Pick
<1>5. Over(f, S) = (CHOOSE h : h = B(h))[S]
  BY DEF Over, MapThenSumSet, MapThenFoldSet, Pick
<1> QED
  BY <1>3, <1>4, <1>5

LEMMA ExpenseInIsSum ==
  ASSUME NEW b
  PROVE  ExpenseIn(b) = Over([e \in AliveIn(b) |-> ExpenseDelta(entry[e].money)], AliveIn(b))
<1> DEFINE S == AliveIn(b)
           v(e) == ExpenseDelta(entry[e].money)
           f == [e \in S |-> v(e)]
           A(h) == [s \in SUBSET S |-> IF s = {} THEN 0 ELSE v(Pick(s)) + h[s \ {Pick(s)}]]
           B(h) == [s \in SUBSET S |-> IF s = {} THEN 0 ELSE f[Pick(s)] + h[s \ {Pick(s)}]]
<1>1. \A s \in SUBSET S : s # {} => f[Pick(s)] = v(Pick(s))
  BY PickIn
<1>2. \A h : A(h) = B(h)
  BY <1>1
<1>3. (CHOOSE h : h = A(h)) = (CHOOSE h : h = B(h))
  BY <1>2
<1>4. ExpenseIn(b) = (CHOOSE h : h = A(h))[S]
  BY DEF ExpenseIn, MapThenSumSet, MapThenFoldSet, Pick
<1>5. Over(f, S) = (CHOOSE h : h = B(h))[S]
  BY DEF Over, MapThenSumSet, MapThenFoldSet, Pick
<1> QED
  BY <1>3, <1>4, <1>5

LEMMA CashOnIsSum ==
  ASSUME NEW w
  PROVE  CashOn(w) = Over([e \in LinkedTo(w) |-> WalletDelta(walletTx[e].money)], LinkedTo(w))
<1> DEFINE S == LinkedTo(w)
           v(e) == WalletDelta(walletTx[e].money)
           f == [e \in S |-> v(e)]
           A(h) == [s \in SUBSET S |-> IF s = {} THEN 0 ELSE v(Pick(s)) + h[s \ {Pick(s)}]]
           B(h) == [s \in SUBSET S |-> IF s = {} THEN 0 ELSE f[Pick(s)] + h[s \ {Pick(s)}]]
<1>1. \A s \in SUBSET S : s # {} => f[Pick(s)] = v(Pick(s))
  BY PickIn
<1>2. \A h : A(h) = B(h)
  BY <1>1
<1>3. (CHOOSE h : h = A(h)) = (CHOOSE h : h = B(h))
  BY <1>2
<1>4. CashOn(w) = (CHOOSE h : h = A(h))[S]
  BY DEF CashOn, MapThenSumSet, MapThenFoldSet, Pick
<1>5. Over(f, S) = (CHOOSE h : h = B(h))[S]
  BY DEF Over, MapThenSumSet, MapThenFoldSet, Pick
<1> QED
  BY <1>3, <1>4, <1>5

LEMMA MoneyType ==
  ASSUME NEW m \in Moneys
  PROVE  /\ IncomeDelta(m) \in Int /\ ExpenseDelta(m) \in Int /\ WalletDelta(m) \in Int
         /\ m.amount \in Nat
BY DEF IncomeDelta, ExpenseDelta, WalletDelta, EffectiveCash

(* A book's columns are what its living entries move.                       *)
LEMMA BookMatches ==
  ASSUME BooksInv, NEW b \in Books
  PROVE  /\ caches.cash[b] = CashIn(b)
         /\ caches.income[b] = IncomeIn(b)
         /\ caches.expense[b] = ExpenseIn(b)
<1> DEFINE U == Posted(journals)
           D(e) == EntryDraft(entry[e].book, Link(e), entry[e].money, entry[e].obligation)
<1>1. \A e \in AliveIn(b) : e \in DOMAIN entry /\ ~entry[e].deleted /\ entry[e].book = b
  BY DEF AliveIn
<1>2. \A k \in U : /\ k[1] \in DOMAIN entry /\ ~entry[k[1]].deleted
                   /\ k = <<k[1], entry[k[1]].version>>
                   /\ journals[k].draft = D(k[1])
  BY PostedIsAlive
<1>3. \A e \in DOMAIN entry : D(e) \in Draft /\ entry[e].money \in Moneys
  BY DraftType, LinkType DEF BooksInv, FollowInv, TypeOK, Row
<1>4. \A e \in DOMAIN entry :
        /\ CashDelta(D(e), b) = (IF entry[e].book = b
                                 THEN BookDelta(entry[e].money, Link(e) # NoWallet) ELSE 0)
        /\ TotalIncome(D(e), b) = (IF entry[e].book = b THEN IncomeDelta(entry[e].money) ELSE 0)
        /\ TotalExpense(D(e), b) = (IF entry[e].book = b THEN ExpenseDelta(entry[e].money) ELSE 0)
        /\ CashDelta(D(e), b) \in Int /\ TotalIncome(D(e), b) \in Int
        /\ TotalExpense(D(e), b) \in Int
  <2> SUFFICES ASSUME NEW e \in DOMAIN entry, NEW d, d = D(e)
               PROVE  /\ CashDelta(d, b) = (IF entry[e].book = b
                             THEN BookDelta(entry[e].money, Link(e) # NoWallet) ELSE 0)
                      /\ TotalIncome(d, b) =
                           (IF entry[e].book = b THEN IncomeDelta(entry[e].money) ELSE 0)
                      /\ TotalExpense(d, b) =
                           (IF entry[e].book = b THEN ExpenseDelta(entry[e].money) ELSE 0)
                      /\ CashDelta(d, b) \in Int /\ TotalIncome(d, b) \in Int
                      /\ TotalExpense(d, b) \in Int
    OBVIOUS
  <2>1. d \in Draft /\ entry[e].money \in Moneys /\ Link(e) \in Wallets \union {NoWallet}
    <3>1. TypeOK /\ D(e) \in Draft /\ entry[e].money \in Moneys
      BY <1>3 DEF BooksInv, FollowInv
    <3> QED
      BY <3>1, LinkType DEF Probed
  <2>2. /\ d.linked = (Link(e) # NoWallet) /\ d.wallet = Link(e) /\ d.book = entry[e].book
        /\ d.money = entry[e].money
    BY DEF EntryDraft
  <2> HIDE DEF D
  <2>3. /\ CashDelta(d, b) =
              (IF d.linked THEN (IF b = d.wallet THEN WalletDelta(d.money) ELSE 0)
                           ELSE (IF b = d.book THEN BookDelta(d.money, FALSE) ELSE 0))
        /\ TotalIncome(d, b) = (IF b = d.book THEN IncomeDelta(d.money) ELSE 0)
        /\ TotalExpense(d, b) = (IF b = d.book THEN ExpenseDelta(d.money) ELSE 0)
    BY <2>1, DraftLines
  <2> DEFINE m == entry[e].money
  <2>6. /\ TotalIncome(d, b) = (IF entry[e].book = b THEN IncomeDelta(m) ELSE 0)
        /\ TotalExpense(d, b) = (IF entry[e].book = b THEN ExpenseDelta(m) ELSE 0)
        /\ WalletDelta(m) \in Int /\ IncomeDelta(m) \in Int /\ ExpenseDelta(m) \in Int
    BY <2>1, <2>2, <2>3, MoneyType
  <2>4. CASE Link(e) = NoWallet
    <3>1. CashDelta(d, b) = (IF entry[e].book = b THEN WalletDelta(m) ELSE 0)
      BY <2>2, <2>3, <2>4 DEF BookDelta
    <3> QED
      BY <2>4, <2>6, <3>1 DEF BookDelta
  <2>5. CASE Link(e) # NoWallet
    <3>1. b # d.wallet
      BY <2>1, <2>2, <2>5
    <3>2. CashDelta(d, b) = 0
      BY <2>2, <2>3, <2>5, <3>1
    <3> QED
      BY <2>5, <2>6, <3>2 DEF BookDelta
  <2> QED
    BY <2>4, <2>5
<1>5. caches.cash[b] = CashIn(b)
  <2>1. PICK f : f = [e \in AliveIn(b) |-> BookDelta(entry[e].money, Link(e) # NoWallet)]
    OBVIOUS
  <2>2. PICK h : h = [k \in U |-> CashDelta(journals[k].draft, b)]
    OBVIOUS
  <2>3. \A k \in U : h[k] = CashDelta(D(k[1]), b)
    BY <1>2, <2>2
  <2> HIDE DEF D
  <2>4. \A k \in U : h[k] \in Int /\ (k[1] \notin AliveIn(b) => h[k] = 0)
    BY <1>2, <1>4, <2>3 DEF AliveIn
  <2>5. \A e \in AliveIn(b) : f[e] = h[<<e, entry[e].version>>]
    BY <1>1, <1>4, <2>1, <2>3, AliveIsPosted
  <2>6. Over(f, AliveIn(b)) = Over(h, U)
    BY <1>1, <2>4, <2>5, AliveSum
  <2>7. caches.cash[b] = LedgerCash(journals, b)
    BY DEF BooksInv, FollowInv, CachesFollowLedger, CachesEqualLedger, TypeOK
  <2> QED
    BY <2>1, <2>2, <2>6, <2>7, CashInIsSum, CashIsSum
<1>6. caches.income[b] = IncomeIn(b)
  <2>1. PICK f : f = [e \in AliveIn(b) |-> IncomeDelta(entry[e].money)]
    OBVIOUS
  <2>2. PICK h : h = [k \in U |-> TotalIncome(journals[k].draft, b)]
    OBVIOUS
  <2>3. \A k \in U : h[k] = TotalIncome(D(k[1]), b)
    BY <1>2, <2>2
  <2> HIDE DEF D
  <2>4. \A k \in U : h[k] \in Int /\ (k[1] \notin AliveIn(b) => h[k] = 0)
    BY <1>2, <1>4, <2>3 DEF AliveIn
  <2>5. \A e \in AliveIn(b) : f[e] = h[<<e, entry[e].version>>]
    BY <1>1, <1>4, <2>1, <2>3, AliveIsPosted
  <2>6. Over(f, AliveIn(b)) = Over(h, U)
    BY <1>1, <2>4, <2>5, AliveSum
  <2>7. caches.income[b] = LedgerIncome(journals, b)
    BY DEF BooksInv, FollowInv, CachesFollowLedger, CachesEqualLedger, TypeOK
  <2> QED
    BY <2>1, <2>2, <2>6, <2>7, IncomeInIsSum, IncomeIsSum
<1>7. caches.expense[b] = ExpenseIn(b)
  <2>1. PICK f : f = [e \in AliveIn(b) |-> ExpenseDelta(entry[e].money)]
    OBVIOUS
  <2>2. PICK h : h = [k \in U |-> TotalExpense(journals[k].draft, b)]
    OBVIOUS
  <2>3. \A k \in U : h[k] = TotalExpense(D(k[1]), b)
    BY <1>2, <2>2
  <2> HIDE DEF D
  <2>4. \A k \in U : h[k] \in Int /\ (k[1] \notin AliveIn(b) => h[k] = 0)
    BY <1>2, <1>4, <2>3 DEF AliveIn
  <2>5. \A e \in AliveIn(b) : f[e] = h[<<e, entry[e].version>>]
    BY <1>1, <1>4, <2>1, <2>3, AliveIsPosted
  <2>6. Over(f, AliveIn(b)) = Over(h, U)
    BY <1>1, <2>4, <2>5, AliveSum
  <2>7. caches.expense[b] = LedgerExpense(journals, b)
    BY DEF BooksInv, FollowInv, CachesFollowLedger, CachesEqualLedger, TypeOK
  <2> QED
    BY <2>1, <2>2, <2>6, <2>7, ExpenseInIsSum, ExpenseIsSum
<1> QED
  BY <1>5, <1>6, <1>7

(* A wallet's balance is what the wallet rows in force move.                *)
LEMMA WalletMatches ==
  ASSUME BooksInv, NEW w \in Wallets
  PROVE  caches.cash[w] = CashOn(w)
<1> DEFINE U == Posted(journals)
           D(e) == EntryDraft(entry[e].book, Link(e), entry[e].money, entry[e].obligation)
<1>1. \A e \in LinkedTo(w) : /\ e \in DOMAIN entry /\ ~entry[e].deleted /\ Link(e) = w
                            /\ walletTx[e].money = entry[e].money
  <2> TAKE e \in LinkedTo(w)
  <2>1. e \in DOMAIN walletTx /\ Link(e) = w
    BY DEF LinkedTo
  <2>2. e \in DOMAIN entry /\ e \in Entries /\ Link(e) # NoWallet
    BY <2>1 DEF BooksInv, FollowInv, TypeOK
  <2> QED
    BY <2>1, <2>2 DEF BooksInv, InStep
<1>2. \A e \in DOMAIN entry : Link(e) = w => e \in LinkedTo(w)
  BY DEF LinkedTo, Link
<1>3. \A k \in U : /\ k[1] \in DOMAIN entry /\ journals[k].draft = D(k[1])
                   /\ k = <<k[1], entry[k[1]].version>>
  BY PostedIsAlive
<1>4. \A e \in DOMAIN entry :
        /\ CashDelta(D(e), w) = (IF Link(e) = w THEN WalletDelta(entry[e].money) ELSE 0)
        /\ CashDelta(D(e), w) \in Int
  <2> SUFFICES ASSUME NEW e \in DOMAIN entry, NEW d, d = D(e)
               PROVE  /\ CashDelta(d, w) = (IF Link(e) = w THEN WalletDelta(entry[e].money) ELSE 0)
                      /\ CashDelta(d, w) \in Int
    OBVIOUS
  <2>1. /\ d \in Draft /\ entry[e].money \in Moneys /\ entry[e].book \in Books
        /\ Link(e) \in Wallets \union {NoWallet}
    <3>1. TypeOK
      BY DEF BooksInv, FollowInv
    <3>2. Link(e) \in Wallets \union {NoWallet}
      BY <3>1, LinkType DEF Probed
    <3>3. /\ entry[e].money \in Moneys /\ entry[e].book \in Books
          /\ entry[e].obligation \in Obligations \union {NoObligation}
      BY <3>1 DEF TypeOK, Row
    <3>4. D(e) \in Draft
      BY <3>2, <3>3, DraftType DEF Probed
    <3> QED
      BY <3>2, <3>3, <3>4
  <2>2. /\ d.linked = (Link(e) # NoWallet) /\ d.wallet = Link(e) /\ d.book = entry[e].book
        /\ d.money = entry[e].money
    BY DEF EntryDraft
  <2> HIDE DEF D
  <2>3. CashDelta(d, w) =
          (IF d.linked THEN (IF w = d.wallet THEN WalletDelta(d.money) ELSE 0)
                       ELSE (IF w = d.book THEN BookDelta(d.money, FALSE) ELSE 0))
    <3>1. PICK b \in Books : TRUE
      BY <2>1
    <3> QED
      BY <2>1, DraftLines
  <2>4. w # d.book /\ w # NoWallet
    BY <2>1, <2>2
  <2>5. CashDelta(d, w) = (IF Link(e) = w THEN WalletDelta(entry[e].money) ELSE 0)
    BY <2>2, <2>3, <2>4
  <2> QED
    BY <2>1, <2>5, MoneyType
<1>5. PICK f : f = [e \in LinkedTo(w) |-> WalletDelta(walletTx[e].money)]
  OBVIOUS
<1>6. PICK h : h = [k \in U |-> CashDelta(journals[k].draft, w)]
  OBVIOUS
<1>7. \A k \in U : h[k] = CashDelta(D(k[1]), w)
  BY <1>3, <1>6
<1> HIDE DEF D
<1>8. \A k \in U : h[k] \in Int /\ (k[1] \notin LinkedTo(w) => h[k] = 0)
  BY <1>2, <1>3, <1>4, <1>7
<1>9. \A e \in LinkedTo(w) : f[e] = h[<<e, entry[e].version>>]
  BY <1>1, <1>4, <1>5, <1>7, AliveIsPosted
<1>10. Over(f, LinkedTo(w)) = Over(h, U)
  BY <1>1, <1>8, <1>9, AliveSum
<1>11. caches.cash[w] = LedgerCash(journals, w)
  BY DEF BooksInv, FollowInv, CachesFollowLedger, CachesEqualLedger, TypeOK
<1> QED
  BY <1>5, <1>6, <1>10, <1>11, CashOnIsSum, CashIsSum

(* The recomputations of the scripts would find nothing to repair while     *)
(* every entry is in step: the cached columns are then what the entries and *)
(* the wallet rows that are alive add up to.                                *)
THEOREM InStepBooksMatch == Spec => []BooksMatchInStep
<1>1. BooksInv => CachesMatchEntries
  BY BookMatches, WalletMatches
     DEF CachesMatchEntries, CashIn, IncomeIn, ExpenseIn, CashOn, LinkedTo
<1>2. FollowInv => BooksMatchInStep
  BY <1>1 DEF BooksInv, BooksMatchInStep
<1> QED
  BY <1>2, FollowAlways, PTL

-----------------------------------------------------------------------------
(* What is owed.                                                           *)

LEMMA EditWrites ==
  ASSUME TypeOK, KnownEntries, SeenIsPast, NEW r \in Requests, CommitEdit(r), Current(req[r]),
         NEW e, e = req[r].entry
  PROVE  /\ e \in DOMAIN entry /\ ~entry[e].deleted
         /\ DOMAIN entry' = DOMAIN entry
         /\ \A x \in DOMAIN entry \ {e} : entry'[x] = entry[x]
         /\ req[r] \in Editing
         /\ req[r].seen.version = entry[e].version
         /\ req[r].seen.money = entry[e].money /\ req[r].seen.obligation = entry[e].obligation
         /\ entry'[e].money = NewMoney(req[r]) /\ entry'[e].obligation = Target(req[r])
         /\ ~entry'[e].deleted /\ entry'[e].version = entry[e].version + 1
         /\ entry'[e].reconciled = entry[e].reconciled /\ entry'[e].book = entry[e].book
<1> DEFINE q == req[r]
<1>1. q \in Editing /\ e \in DOMAIN entry /\ entry[e] \in Row
  BY RequestKinds DEF TypeOK, CommitEdit, Waiting, KnownEntries, Holds
<1>2. Current(q)
  OBVIOUS
<1>3. /\ q.seen.version = entry[e].version /\ ~entry[e].deleted
      /\ q.seen.money = entry[e].money /\ q.seen.obligation = entry[e].obligation
  BY <1>2 DEF SeenIsPast, CommitEdit, Current, Waiting
<1>4. entry' = [entry EXCEPT ![e] = EditedRow(q)]
  BY DEF CommitEdit
<1> DEFINE row == EditedRow(q)
<1>5. /\ row.version = entry[e].version + 1 /\ row.deleted = entry[e].deleted
      /\ row.reconciled = entry[e].reconciled /\ row.book = entry[e].book
      /\ row.money = (IF q.body.money = Same THEN entry[e].money ELSE q.body.money)
      /\ row.obligation = (IF q.body.obligation = Same THEN entry[e].obligation
                           ELSE q.body.obligation)
  BY <1>1 DEF EditedRow, Row
<1>6. row.money = NewMoney(q) /\ row.obligation = Target(q)
  BY <1>3, <1>5 DEF NewMoney, Target
<1> HIDE DEF row
<1>7. entry'[e] = row /\ DOMAIN entry' = DOMAIN entry /\ \A x \in DOMAIN entry \ {e} : entry'[x] = entry[x]
  BY <1>1, <1>4 DEF row
<1> QED
  BY <1>1, <1>3, <1>5, <1>6, <1>7

LEMMA MoveWrites ==
  ASSUME TypeOK, KnownEntries, NEW r \in Requests, CommitReassign(r), NEW e, e = req[r].entry
  PROVE  /\ e \in DOMAIN entry /\ DOMAIN entry' = DOMAIN entry
         /\ \A x \in DOMAIN entry \ {e} : entry'[x] = entry[x]
         /\ entry'[e].money = entry[e].money /\ entry'[e].obligation = entry[e].obligation
         /\ entry'[e].deleted = entry[e].deleted /\ entry'[e].reconciled = entry[e].reconciled
<1>1. e \in DOMAIN entry /\ entry[e] \in Row
  BY DEF TypeOK, CommitReassign, KnownEntries, Holds
<1>2. entry' = [entry EXCEPT ![e] = MovedRow(req[r])]
  BY DEF CommitReassign
<1>3. /\ MovedRow(req[r]).money = entry[e].money /\ MovedRow(req[r]).obligation = entry[e].obligation
      /\ MovedRow(req[r]).deleted = entry[e].deleted
      /\ MovedRow(req[r]).reconciled = entry[e].reconciled
  BY <1>1 DEF MovedRow, Row
<1> QED
  BY <1>1, <1>2, <1>3

LEMMA DeleteWrites ==
  ASSUME TypeOK, KnownEntries, NEW r \in Requests, CommitDelete(r), NEW e, e = req[r].entry
  PROVE  /\ e \in DOMAIN entry
         /\ DOMAIN entry' = DOMAIN entry
         /\ \A x \in DOMAIN entry \ {e} : entry'[x] = entry[x]
         /\ entry'[e].deleted
         /\ entry'[e].money = entry[e].money /\ entry'[e].obligation = entry[e].obligation
         /\ entry'[e].version = entry[e].version /\ entry'[e].book = entry[e].book
         /\ entry'[e].reconciled = entry[e].reconciled
<1>1. e \in DOMAIN entry /\ entry[e] \in Row
  BY DEF TypeOK, CommitDelete, KnownEntries, Holds
<1> QED
  BY <1>1 DEF CommitDelete, Row

LEMMA CreateWrites ==
  ASSUME TypeOK, FreshCreates, NEW r \in Requests, CommitCreate(r), NEW e, e = req[r].entry,
         NEW b, b = req[r].body
  PROVE  /\ req[r] \in Creating /\ e \in Entries /\ e \notin DOMAIN entry
         /\ DOMAIN entry' = DOMAIN entry \union {e}
         /\ \A x \in DOMAIN entry : entry'[x] = entry[x]
         /\ ~entry'[e].deleted /\ entry'[e].money = b.money /\ entry'[e].obligation = b.obligation
         /\ b \in CreateBody
<1>1. req[r] \in Creating
  BY RequestKinds DEF TypeOK, CommitCreate
<1>2. e \notin DOMAIN entry
  BY DEF FreshCreates, CommitCreate
<1> QED
  BY <1>1, <1>2 DEF CommitCreate, Creating

Pays(row, o) == IF ~row.deleted /\ row.obligation = o THEN row.money.amount ELSE 0

PaidIn(E, o) ==
  MapThenSumSet(LAMBDA e : E[e].money.amount,
                {e \in DOMAIN E : ~E[e].deleted /\ E[e].obligation = o})

Payable(E) == IsFiniteSet(DOMAIN E) /\ \A e \in DOMAIN E : E[e].money.amount \in Nat

LEMMA PaidInIsSum ==
  ASSUME NEW E, Payable(E), NEW o
  PROVE  PaidIn(E, o) = Over([e \in DOMAIN E |-> Pays(E[e], o)], DOMAIN E)
<1> DEFINE S == {e \in DOMAIN E : ~E[e].deleted /\ E[e].obligation = o}
           v(e) == E[e].money.amount
           f == [e \in S |-> v(e)]
           A(h) == [s \in SUBSET S |-> IF s = {} THEN 0 ELSE v(Pick(s)) + h[s \ {Pick(s)}]]
           B(h) == [s \in SUBSET S |-> IF s = {} THEN 0 ELSE f[Pick(s)] + h[s \ {Pick(s)}]]
<1>1. \A s \in SUBSET S : s # {} => f[Pick(s)] = v(Pick(s))
  BY PickIn
<1>2. \A h : A(h) = B(h)
  BY <1>1
<1>3. (CHOOSE h : h = A(h)) = (CHOOSE h : h = B(h))
  BY <1>2
<1>4. PaidIn(E, o) = (CHOOSE h : h = A(h))[S]
  BY DEF PaidIn, MapThenSumSet, MapThenFoldSet, Pick
<1>5. Over(f, S) = (CHOOSE h : h = B(h))[S]
  BY DEF Over, MapThenSumSet, MapThenFoldSet, Pick
<1>6. PICK g : g = [e \in DOMAIN E |-> Pays(E[e], o)]
  OBVIOUS
<1>7. Summable(g, DOMAIN E) /\ \A e \in DOMAIN E \ S : g[e] = 0
  BY <1>6 DEF Summable, Payable, Pays
<1>8. \A e \in S : f[e] = g[e]
  BY <1>6 DEF Pays
<1>9. S \in SUBSET DOMAIN E
  OBVIOUS
<1> HIDE DEF S, f
<1>10. Over(g, DOMAIN E) = Over(g, S)
  BY <1>7, <1>9, SumZeros
<1>11. Over(g, S) = Over(f, S)
  BY <1>8, SumSame
<1> QED
  BY <1>3, <1>4, <1>5, <1>6, <1>10, <1>11

LEMMA PaidMoves ==
  ASSUME NEW E, Payable(E), NEW o
  PROVE  /\ PaidIn(E, o) \in Nat
         /\ \A e \in DOMAIN E : Pays(E[e], o) <= PaidIn(E, o)
         /\ \A F : \A e \in DOMAIN E :
              Payable(F) /\ DOMAIN F = DOMAIN E
                /\ (\A x \in DOMAIN E \ {e} : Pays(F[x], o) = Pays(E[x], o))
              => PaidIn(F, o) = PaidIn(E, o) - Pays(E[e], o) + Pays(F[e], o)
         /\ \A F : \A e :
              Payable(F) /\ e \notin DOMAIN E /\ DOMAIN F = DOMAIN E \union {e}
                /\ (\A x \in DOMAIN E : Pays(F[x], o) = Pays(E[x], o))
              => PaidIn(F, o) = PaidIn(E, o) + Pays(F[e], o)
<1>1. PICK f : f = [e \in DOMAIN E |-> Pays(E[e], o)]
  OBVIOUS
<1>2. PaidIn(E, o) = Over(f, DOMAIN E)
  BY <1>1, PaidInIsSum
<1>3. IsFiniteSet(DOMAIN E) /\ \A e \in DOMAIN E : f[e] = Pays(E[e], o) /\ f[e] \in Nat
  BY <1>1 DEF Payable, Pays
<1>4. Summable(f, DOMAIN E)
  BY <1>3 DEF Summable
<1>5. PaidIn(E, o) \in Nat
  BY <1>2, <1>3, SumNat
<1>6. \A e \in DOMAIN E : Pays(E[e], o) <= PaidIn(E, o)
  BY <1>2, <1>3, SumAtLeast
<1>7. ASSUME NEW F, NEW e \in DOMAIN E, Payable(F), DOMAIN F = DOMAIN E,
             \A x \in DOMAIN E \ {e} : Pays(F[x], o) = Pays(E[x], o)
      PROVE  PaidIn(F, o) = PaidIn(E, o) - Pays(E[e], o) + Pays(F[e], o)
  <2>1. PICK g : g = [x \in DOMAIN F |-> Pays(F[x], o)]
    OBVIOUS
  <2>2. PaidIn(F, o) = Over(g, DOMAIN E)
    BY <1>7, <2>1, PaidInIsSum
  <2>3. g[e] = Pays(F[e], o) /\ g[e] \in Int
    BY <1>7, <2>1 DEF Payable, Pays
  <2>4. \A x \in DOMAIN E \ {e} : g[x] = f[x]
    BY <1>3, <1>7, <2>1
  <2>5. Over(g, DOMAIN E) = Over(f, DOMAIN E) - f[e] + g[e]
    BY <1>4, <2>3, <2>4, SumChange
  <2> QED
    BY <1>2, <1>3, <2>2, <2>3, <2>5
<1>8. ASSUME NEW F, NEW e, Payable(F), e \notin DOMAIN E, DOMAIN F = DOMAIN E \union {e},
             \A x \in DOMAIN E : Pays(F[x], o) = Pays(E[x], o)
      PROVE  PaidIn(F, o) = PaidIn(E, o) + Pays(F[e], o)
  <2>1. PICK g : g = [x \in DOMAIN F |-> Pays(F[x], o)]
    OBVIOUS
  <2>2. PaidIn(F, o) = Over(g, DOMAIN E \union {e})
    BY <1>8, <2>1, PaidInIsSum
  <2>3. g[e] = Pays(F[e], o) /\ g[e] \in Int
    BY <1>8, <2>1 DEF Payable, Pays
  <2>4. \A x \in DOMAIN E : g[x] = f[x]
    BY <1>3, <1>8, <2>1
  <2>5. Over(g, DOMAIN E \union {e}) = Over(f, DOMAIN E) + g[e]
    BY <1>4, <1>8, <2>3, <2>4, SumOneMore
  <2> QED
    BY <1>2, <2>2, <2>3, <2>5
<1> QED
  BY <1>5, <1>6, <1>7, <1>8

(* What SetOutstanding and Restore leave owed.                              *)
LEMMA Outstanding ==
  ASSUME NEW obls \in ObligationRows, NEW o \in Obligations, NEW x \in Int, NEW p \in Obligations
  PROVE  SetOutstanding(obls, o, x)[p].outstanding =
           IF p = o THEN x ELSE obls[p].outstanding
BY DEF SetOutstanding, ObligationRows

(* The cap of Restore never bites: no entry has paid more than was paid.    *)
LEMMA Restored ==
  ASSUME TypeOK, IsFiniteSet(DOMAIN entry), NEW p \in Obligations, Conserved(p),
         NEW e \in DOMAIN entry, ~entry[e].deleted
  PROVE  Restore(obligation, entry[e].obligation, entry[e].money.amount)[p].outstanding
           = obligation[p].outstanding + Pays(entry[e], p)
<1> DEFINE o == entry[e].obligation
           a == entry[e].money.amount
           R == Restore(obligation, o, a)
<1>1. /\ obligation \in ObligationRows /\ o \in Obligations \union {NoObligation} /\ a \in Nat
      /\ obligation[p].outstanding \in Int
  BY DEF TypeOK, Row, ObligationRows
<1>2. CASE o = NoObligation
  BY <1>1, <1>2 DEF Restore, Pays
<1>3. CASE o \in Obligations \ {p}
  <2> DEFINE grown == obligation[o].outstanding + a
             total == ObligationTerms[o].total
             x == IF grown > total THEN total ELSE grown
  <2>1. R = SetOutstanding(obligation, o, x)
    BY <1>3 DEF Restore
  <2>2. obligation[o].outstanding \in Int /\ total \in Nat
    BY <1>1, <1>3 DEF ObligationRows
  <2>3. x \in Int
    BY <1>1, <2>2
  <2>4. R[p].outstanding = obligation[p].outstanding
    BY <1>1, <1>3, <2>1, <2>3, Outstanding
  <2> QED
    BY <1>1, <1>3, <2>4 DEF Pays
<1>4. CASE o = p
  <2>1. obligation[p].outstanding = ObligationTerms[p].total - Paid(p)
        /\ ObligationTerms[p].total \in Nat
    BY DEF Conserved
  <2>2. Payable(entry) /\ Paid(p) = PaidIn(entry, p)
    BY DEF Payable, TypeOK, Row, Paid, PaidIn
  <2>3. Pays(entry[e], p) = a
    BY <1>4 DEF Pays
  <2>4. a <= Paid(p) /\ Paid(p) \in Nat
    BY <2>2, <2>3, PaidMoves
  <2> DEFINE grown == obligation[p].outstanding + a
  <2>5. grown \in Int /\ ~(grown > ObligationTerms[p].total)
    BY <1>1, <2>1, <2>4
  <2>6. R = SetOutstanding(obligation, p, grown)
    BY <1>4, <2>5 DEF Restore
  <2>7. R[p].outstanding = grown
    BY <1>1, <2>5, <2>6, Outstanding
  <2> QED
    BY <1>1, <2>3, <2>7
<1> QED
  BY <1>1, <1>2, <1>3, <1>4

(* An edit moves what is owed by what its entry pays before and after.      *)
LEMMA EditOwes ==
  ASSUME TypeOK, IsFiniteSet(DOMAIN entry), NEW p \in Obligations, Conserved(p), NEW q \in Editing,
         q.entry \in DOMAIN entry, ~entry[q.entry].deleted,
         q.seen.money = entry[q.entry].money, q.seen.obligation = entry[q.entry].obligation
  PROVE  SettledAfter(q)[p].outstanding
           = obligation[p].outstanding + Pays(entry[q.entry], p)
               - (IF Target(q) = p THEN NewMoney(q).amount ELSE 0)
<1> DEFINE e == q.entry
           o == entry[e].obligation
           a == entry[e].money.amount
           t == Target(q)
           n == NewMoney(q).amount
           B == SettledBefore(q)
<1>1. /\ obligation \in ObligationRows /\ o \in Obligations \union {NoObligation} /\ a \in Nat
      /\ obligation[p].outstanding \in Int
  BY DEF TypeOK, Row, ObligationRows
<1>2. t \in Obligations \union {NoObligation} /\ n \in Nat
  BY EditComputes, MoneyType
<1>3. B \in ObligationRows
  BY <1>1, RestoreType DEF SettledBefore
<1>4. Pays(entry[e], p) = (IF o = p THEN a ELSE 0)
  BY DEF Pays
<1>5. B[p].outstanding = obligation[p].outstanding + (IF t # o /\ o = p THEN a ELSE 0)
  <2>1. CASE t = o
    BY <1>1, <2>1 DEF SettledBefore
  <2>2. CASE t # o
    <3>1. B = Restore(obligation, o, a)
      BY <2>2 DEF SettledBefore
    <3> QED
      BY <1>4, <2>2, <3>1, Restored
  <2> QED
    BY <2>1, <2>2
<1>6. CASE t = NoObligation
  <2>1. SettledAfter(q) = B
    BY <1>6 DEF SettledAfter
  <2> HIDE DEF t, B, n
  <2> QED
    BY <1>1, <1>4, <1>5, <1>6, <2>1 DEF t, n
<1>7. CASE t \in Obligations
  <2> DEFINE x == obligation[t].outstanding - n + (IF t = o THEN a ELSE 0)
  <2>1. obligation[t].outstanding \in Int
    BY <1>1, <1>7 DEF ObligationRows
  <2>2. x \in Int
    BY <1>1, <1>2, <2>1
  <2>3. SettledAfter(q) = SetOutstanding(B, t, x)
    BY <1>7 DEF SettledAfter
  <2>4. SettledAfter(q)[p].outstanding = (IF p = t THEN x ELSE B[p].outstanding)
    BY <1>3, <1>7, <2>2, <2>3, Outstanding
  <2> HIDE DEF t, B, n, o, a, e
  <2>5. SettledAfter(q)[p].outstanding
          = obligation[p].outstanding + Pays(entry[e], p) - (IF t = p THEN n ELSE 0)
    BY <1>1, <1>2, <1>4, <1>5, <2>1, <2>4
  <2> QED
    BY <2>5 DEF t, n, e
<1> QED
  BY <1>2, <1>6, <1>7

Commits(r) ==
  \/ CommitCreate(r)
  \/ CommitReconcile(r)
  \/ CommitEdit(r) /\ Current(req[r])
  \/ CommitReassign(r)
  \/ CommitDelete(r) /\ Current(req[r])

(* A commit on a reading that is current moves what is owed by what its     *)
(* entry paid and now pays.                                                 *)
LEMMA OwedMoves ==
  ASSUME IInv, IsFiniteSet(DOMAIN entry), NEW p \in Obligations, Conserved(p),
         NEW r \in Requests, Commits(r), NEW e, e = req[r].entry
  PROVE  \/ /\ e \notin DOMAIN entry /\ DOMAIN entry' = DOMAIN entry \union {e}
            /\ \A x \in DOMAIN entry : Pays(entry'[x], p) = Pays(entry[x], p)
            /\ obligation'[p].outstanding = obligation[p].outstanding - Pays(entry'[e], p)
         \/ /\ e \in DOMAIN entry /\ DOMAIN entry' = DOMAIN entry
            /\ \A x \in DOMAIN entry \ {e} : Pays(entry'[x], p) = Pays(entry[x], p)
            /\ obligation'[p].outstanding
                 = obligation[p].outstanding + Pays(entry[e], p) - Pays(entry'[e], p)
<1>0. TypeOK /\ KnownEntries /\ FreshCreates /\ SeenIsPast
  BY DEF IInv
<1>1. obligation \in ObligationRows /\ obligation[p].outstanding \in Int
  BY <1>0 DEF TypeOK, ObligationRows
<1>2. CASE CommitCreate(r)
  <2>1. PICK b : b = req[r].body
    OBVIOUS
  <2>2. /\ e \notin DOMAIN entry /\ DOMAIN entry' = DOMAIN entry \union {e}
        /\ \A x \in DOMAIN entry : entry'[x] = entry[x]
        /\ ~entry'[e].deleted /\ b \in CreateBody
    BY <1>0, <1>2, <2>1, CreateWrites
  <2>3. entry'[e].money = b.money /\ entry'[e].obligation = b.obligation
    BY <1>2, <2>1 DEF CommitCreate
  <2>4. b.money.amount \in Nat /\ b.obligation \in Obligations \union {NoObligation}
    BY <2>2 DEF CreateBody
  <2>5. obligation' = IF b.obligation = NoObligation THEN obligation
                      ELSE SetOutstanding(obligation, b.obligation,
                             obligation[b.obligation].outstanding - b.money.amount)
    BY <1>2, <2>1 DEF CommitCreate
  <2>6. Pays(entry'[e], p) = IF b.obligation = p THEN b.money.amount ELSE 0
    BY <2>2, <2>3 DEF Pays
  <2>7. CASE b.obligation = NoObligation
    <3>1. obligation' = obligation /\ b.obligation # p
      BY <2>5, <2>7
    <3> QED
      BY <1>1, <2>2, <2>6, <3>1
  <2>8. CASE b.obligation \in Obligations
    <3> DEFINE x == obligation[b.obligation].outstanding - b.money.amount
    <3>1. obligation[b.obligation].outstanding \in Int
      BY <1>1, <2>8 DEF ObligationRows
    <3>2. x \in Int
      BY <2>4, <3>1
    <3>3. obligation' = SetOutstanding(obligation, b.obligation, x)
      BY <2>5, <2>8
    <3>4. obligation'[p].outstanding =
            (IF p = b.obligation THEN x ELSE obligation[p].outstanding)
      BY <1>1, <2>8, <3>2, <3>3, Outstanding
    <3>5. obligation'[p].outstanding = obligation[p].outstanding - Pays(entry'[e], p)
      BY <1>1, <2>4, <2>6, <3>4
    <3> QED
      BY <2>2, <3>5
  <2> QED
    BY <2>4, <2>7, <2>8
<1>3. CASE CommitEdit(r) /\ Current(req[r])
  <2>1. PICK q : q = req[r]
    OBVIOUS
  <2>2. /\ e \in DOMAIN entry /\ ~entry[e].deleted /\ DOMAIN entry' = DOMAIN entry
        /\ \A x \in DOMAIN entry \ {e} : entry'[x] = entry[x]
        /\ q \in Editing /\ q.entry = e
        /\ q.seen.money = entry[e].money /\ q.seen.obligation = entry[e].obligation
        /\ entry'[e].money = NewMoney(q) /\ entry'[e].obligation = Target(q)
        /\ ~entry'[e].deleted
    BY <1>0, <1>3, <2>1, EditWrites
  <2>3. obligation' = SettledAfter(q)
    BY <1>3, <2>1 DEF CommitEdit
  <2>4. Pays(entry'[e], p) = IF Target(q) = p THEN NewMoney(q).amount ELSE 0
    BY <2>2 DEF Pays
  <2>5. SettledAfter(q)[p].outstanding
          = obligation[p].outstanding + Pays(entry[e], p)
              - (IF Target(q) = p THEN NewMoney(q).amount ELSE 0)
    BY <1>0, <2>2, EditOwes
  <2> QED
    BY <2>2, <2>3, <2>4, <2>5
<1>4. CASE CommitReassign(r)
  <2>1. /\ e \in DOMAIN entry /\ DOMAIN entry' = DOMAIN entry
        /\ \A x \in DOMAIN entry \ {e} : entry'[x] = entry[x]
        /\ entry'[e].money = entry[e].money /\ entry'[e].obligation = entry[e].obligation
        /\ entry'[e].deleted = entry[e].deleted
    BY <1>0, <1>4, MoveWrites
  <2>2. Pays(entry'[e], p) = Pays(entry[e], p) /\ Pays(entry[e], p) \in Int
    BY <1>0, <2>1 DEF Pays, TypeOK, Row
  <2>3. obligation' = obligation
    BY <1>4 DEF CommitReassign
  <2> QED
    BY <1>1, <2>1, <2>2, <2>3
<1>5. CASE CommitDelete(r) /\ Current(req[r])
  <2>1. PICK q : q = req[r]
    OBVIOUS
  <2>2. /\ e \in DOMAIN entry /\ DOMAIN entry' = DOMAIN entry
        /\ \A x \in DOMAIN entry \ {e} : entry'[x] = entry[x]
        /\ entry'[e].deleted
    BY <1>0, <1>5, DeleteWrites
  <2>4. ~entry[e].deleted /\ q.seen.version = entry[e].version /\ q.pc = "commit"
    BY <1>5, <2>1 DEF Current, CommitDelete
  <2>5. q.seen.money = entry[e].money /\ q.seen.obligation = entry[e].obligation
    BY <1>0, <2>1, <2>4 DEF SeenIsPast, Waiting
  <2>6. obligation' = Restore(obligation, entry[e].obligation, entry[e].money.amount)
    BY <1>5, <2>1, <2>5 DEF CommitDelete
  <2>7. obligation'[p].outstanding = obligation[p].outstanding + Pays(entry[e], p)
    BY <1>0, <2>2, <2>4, <2>6, Restored
  <2>8. Pays(entry'[e], p) = 0 /\ Pays(entry[e], p) \in Int
    BY <1>0, <2>2 DEF Pays, TypeOK, Row
  <2> QED
    BY <1>1, <2>2, <2>7, <2>8
<1>6. CASE CommitReconcile(r)
  <2>1. /\ DOMAIN entry' = DOMAIN entry
        /\ \A x \in DOMAIN entry :
             /\ entry'[x].deleted = entry[x].deleted /\ entry'[x].money = entry[x].money
             /\ entry'[x].obligation = entry[x].obligation
    BY <1>0, <1>6, ReconcileWrites
  <2>2. \A x \in DOMAIN entry : Pays(entry'[x], p) = Pays(entry[x], p)
                                /\ Pays(entry[x], p) \in Int
    BY <1>0, <2>1 DEF Pays, TypeOK, Row
  <2>3. e \in DOMAIN entry
    BY <1>0, <1>6 DEF CommitReconcile, KnownEntries, Holds
  <2>4. obligation' = obligation
    BY <1>6 DEF CommitReconcile
  <2> QED
    BY <1>1, <2>1, <2>2, <2>3, <2>4
<1> QED
  BY <1>2, <1>3, <1>4, <1>5, <1>6 DEF Commits

LEMMA ConservedStep ==
  ASSUME IInv, IInv', IsFiniteSet(DOMAIN entry), IsFiniteSet(DOMAIN entry'), [Next]_vars,
         NEW o \in Obligations, Conserved(o), ~(Conserved(o))'
  PROVE  \E r \in Requests, e \in Entries : StaleWrite(r, e)
<1>1. Payable(entry) /\ Payable(entry') /\ Paid(o) = PaidIn(entry, o)
  BY DEF IInv, Payable, TypeOK, Row, Paid, PaidIn
<1>2. (Paid(o))' = PaidIn(entry', o)
  BY DEF Paid, PaidIn, MapThenSumSet, MapThenFoldSet
<1>3. /\ obligation[o].outstanding = ObligationTerms[o].total - PaidIn(entry, o)
      /\ ObligationTerms[o].total \in Nat /\ PaidIn(entry, o) \in Nat
  BY <1>1, PaidMoves DEF Conserved
<1>4. obligation'[o].outstanding # ObligationTerms[o].total - PaidIn(entry', o)
  BY <1>2 DEF Conserved
<1>5. ~UNCHANGED <<entry, obligation>>
  BY <1>3, <1>4
<1>6. ASSUME NEW r \in Requests, Commits(r) PROVE FALSE
  <2>1. PICK e : e = req[r].entry
    OBVIOUS
  <2>2. CASE /\ e \notin DOMAIN entry /\ DOMAIN entry' = DOMAIN entry \union {e}
             /\ \A x \in DOMAIN entry : Pays(entry'[x], o) = Pays(entry[x], o)
             /\ obligation'[o].outstanding = obligation[o].outstanding - Pays(entry'[e], o)
    <3>1. PaidIn(entry', o) = PaidIn(entry, o) + Pays(entry'[e], o)
      BY <1>1, <2>2, PaidMoves
    <3>2. Pays(entry'[e], o) \in Nat
      BY <1>1, <2>2 DEF Payable, Pays
    <3> QED
      BY <1>3, <1>4, <2>2, <3>1, <3>2
  <2>3. CASE /\ e \in DOMAIN entry /\ DOMAIN entry' = DOMAIN entry
             /\ \A x \in DOMAIN entry \ {e} : Pays(entry'[x], o) = Pays(entry[x], o)
             /\ obligation'[o].outstanding
                  = obligation[o].outstanding + Pays(entry[e], o) - Pays(entry'[e], o)
    <3>1. PaidIn(entry', o) = PaidIn(entry, o) - Pays(entry[e], o) + Pays(entry'[e], o)
      BY <1>1, <2>3, PaidMoves
    <3>2. Pays(entry'[e], o) \in Nat /\ Pays(entry[e], o) \in Nat
      BY <1>1, <2>3 DEF Payable, Pays
    <3> QED
      BY <1>3, <1>4, <2>3, <3>1, <3>2
  <2> QED
    BY <1>6, <2>1, <2>2, <2>3, OwedMoves
<1>7. PICK r \in Requests : (CommitEdit(r) \/ CommitDelete(r)) /\ ~Current(req[r])
  BY <1>5, <1>6, StepKinds, QuietWrites DEF Commits, vars
<1>8. StaleWrite(r, req[r].entry)
  BY <1>7, StaleCommits DEF IInv
<1>9. req[r].entry \in Entries
  BY <1>7 DEF IInv, KnownEntries, Holds, TypeOK, CommitEdit, CommitDelete
<1> QED
  BY <1>8, <1>9

(* However requests race, what is owed on an obligation stays its total     *)
(* less what the living entries that settle it have paid, so the cap in     *)
(* restoreObligationOutstanding hides no payment, until an edit without a   *)
(* version or a deletion commits on a reading that is out of date.          *)
THEOREM PaymentsAreCounted == Spec => PaymentsStayCounted
<1> DEFINE Keeps == \A o \in Obligations :
                      Conserved(o) /\ ~(Conserved(o))' =>
                        \E r \in Requests, e \in Entries : StaleWrite(r, e)
           Inv == IInv /\ FollowInv
<1>1. Inv /\ [Next]_vars => Inv'
  BY StepIInv, StepFollow
<1>2. Inv /\ [Next]_vars => [Keeps]_vars
  <2> SUFFICES ASSUME Inv, [Next]_vars PROVE Keeps
    OBVIOUS
  <2>1. IInv /\ IInv' /\ IsFiniteSet(DOMAIN entry) /\ IsFiniteSet(DOMAIN entry')
    BY <1>1 DEF FollowInv
  <2> QED
    BY <2>1, ConservedStep
<1> HIDE DEF Keeps
<1>3. Spec => [][Keeps]_vars
  BY <1>2, AlwaysIInv, FollowAlways, PTL DEF Spec
<1> QED
  BY <1>3 DEF PaymentsStayCounted, Keeps

-----------------------------------------------------------------------------
(* Reconciled entries.                                                     *)

(* What changes the money, the obligation, the book or the existence of an *)
(* entry has read it unreconciled.                                         *)
Unmarked(q) ==
  q.pc \in Waiting /\ (q.op = "edit" => Touches(q.body)) => ~q.seen.reconciled

ReadsUnmarked == \A r \in Requests : Unmarked(req[r])

LEMMA QuietUnmarked ==
  ASSUME TypeOK, ReadsUnmarked, NEW r \in Requests, Quiet(r)
  PROVE  ReadsUnmarked'
<1>1. ASSUME NEW q, req' = [req EXCEPT ![r] = q], Unmarked(q) PROVE ReadsUnmarked'
  <2>1. req'[r] = q /\ \A s \in Requests \ {r} : req'[s] = req[s]
    BY <1>1 DEF TypeOK
  <2>2. \A s \in Requests : Unmarked(req'[s])
    BY <1>1, <2>1 DEF ReadsUnmarked
  <2> QED
    BY <2>2 DEF ReadsUnmarked, Unmarked
<1>2. Unmarked(Idle)
  BY DEF Unmarked, Idle, Waiting
<1>3. ASSUME NEW e \in Entries, NEW b \in CreateBody, ReadCreate(r, e, b) PROVE ReadsUnmarked'
  <2>1. Unmarked([pc |-> "create", entry |-> e, body |-> b])
    BY DEF Unmarked, Waiting
  <2> QED
    BY <1>1, <1>3, <2>1 DEF ReadCreate
<1>4. ASSUME NEW e \in Entries, NEW b \in EditBody, NEW v \in BOOLEAN, ReadEdit(r, e, b, v)
      PROVE  ReadsUnmarked'
  <2> DEFINE q == [pc |-> "probe", op |-> "edit", entry |-> e, seen |-> entry[e],
                   probe |-> NoWallet, versioned |-> v, body |-> b]
  <2>1. Touches(b) => ~entry[e].reconciled
    BY <1>4, Zenon DEF ReadEdit
  <2>2. q.body = b /\ q.op = "edit" /\ q.seen = entry[e]
    OBVIOUS
  <2>3. req' = [req EXCEPT ![r] = q]
    BY <1>4, Zenon DEF ReadEdit
  <2> HIDE DEF q
  <2>4. Unmarked(q)
    BY <2>1, <2>2, Zenon DEF Unmarked
  <2> QED
    BY <1>1, <2>3, <2>4
<1>5. ASSUME NEW e \in Entries, NEW b \in Books, NEW v \in Versions, ReadReassign(r, e, b, v)
      PROVE  ReadsUnmarked'
  <2>1. Unmarked([pc |-> "probe", op |-> "reassign", entry |-> e, seen |-> entry[e],
                  probe |-> NoWallet, target |-> b, expected |-> v])
    BY <1>5 DEF Unmarked, ReadReassign
  <2> QED
    BY <1>1, <1>5, <2>1 DEF ReadReassign
<1>6. ASSUME NEW e \in Entries, ReadDelete(r, e) PROVE ReadsUnmarked'
  <2>1. Unmarked([pc |-> "probe", op |-> "delete", entry |-> e, seen |-> entry[e],
                  probe |-> NoWallet])
    BY <1>6 DEF Unmarked, ReadDelete, Reversible
  <2> QED
    BY <1>1, <1>6, <2>1 DEF ReadDelete
<1>7. ASSUME NEW e \in Entries, ReadAskDelete(r, e) \/ ReadReconcile(r, e) PROVE ReadsUnmarked'
  <2>1. /\ Unmarked([pc |-> "ask", entry |-> e])
        /\ Unmarked([pc |-> "reconcile", entry |-> e, seen |-> entry[e]])
    BY DEF Unmarked, Waiting
  <2> QED
    BY <1>1, <1>7, <2>1 DEF ReadAskDelete, ReadReconcile
<1>8. ASSUME NEW i \in DeleteRequests, ReadReview(r, i) PROVE ReadsUnmarked'
  <2>1. Unmarked([pc |-> "review", id |-> i, entry |-> deleteReq[i].entry,
                  seen |-> entry[deleteReq[i].entry]])
    BY DEF Unmarked, Waiting
  <2> QED
    BY <1>1, <1>8, <2>1 DEF ReadReview
<1>9. ASSUME NEW s \in {"APPROVED", "REJECTED"}, DecideReview(r, s) PROVE ReadsUnmarked'
  <2> DEFINE q == [pc |-> "probe", op |-> "delete", entry |-> req[r].entry,
                   seen |-> req[r].seen, probe |-> NoWallet]
  <2>1. Reversible(req[r].seen) => Unmarked(q)
    BY DEF Unmarked, Reversible
  <2> HIDE DEF q
  <2>2. req' = [req EXCEPT ![r] = IF s = "APPROVED" /\ Reversible(req[r].seen) THEN q ELSE Idle]
    BY <1>9 DEF DecideReview, q
  <2> QED
    BY <1>1, <1>2, <2>1, <2>2
<1>10. ASSUME Probe(r) PROVE ReadsUnmarked'
  <2> DEFINE o == req[r]
             p == IF o.op = "reassign" THEN AnyLink(o.entry) ELSE Link(o.entry)
             q == [o EXCEPT !.pc = "commit", !.probe = p]
  <2>1. o \in Editing \union Moving \union Deleting /\ o.pc = "probe"
    BY <1>10, RequestKinds DEF TypeOK, Probe, Waiting
  <2>2. q.op = o.op /\ q.seen = o.seen /\ (o.op = "edit" => q.body = o.body)
    BY <2>1 DEF Editing, Moving, Deleting
  <2>3. req' = [req EXCEPT ![r] = q]
    BY <1>10 DEF Probe
  <2>4. Unmarked(o) /\ o.pc \in Waiting
    BY <2>1 DEF ReadsUnmarked, Waiting
  <2> HIDE DEF q, o
  <2>5. Unmarked(q)
    BY <2>2, <2>4 DEF Unmarked
  <2> QED
    BY <1>1, <2>3, <2>5
<1>11. ASSUME Abandon(r) \/ (\E i \in DeleteRequests : CommitAskDelete(r, i)) PROVE ReadsUnmarked'
  BY <1>1, <1>2, <1>11 DEF Abandon, CommitAskDelete, Finish
<1> QED
  BY <1>3, <1>4, <1>5, <1>6, <1>7, <1>8, <1>9, <1>10, <1>11 DEF Quiet

LEMMA StepUnmarked == TypeOK /\ ReadsUnmarked /\ [Next]_vars => ReadsUnmarked'
<1> SUFFICES ASSUME TypeOK, ReadsUnmarked, [Next]_vars PROVE ReadsUnmarked'
  OBVIOUS
<1>1. CASE UNCHANGED vars
  BY <1>1 DEF vars, ReadsUnmarked, Unmarked
<1>2. ASSUME NEW r \in Requests, Finish(r) PROVE ReadsUnmarked'
  <2>1. \A s \in Requests : req'[s] = Idle \/ req'[s] = req[s]
    BY <1>2 DEF Finish, TypeOK
  <2>2. Unmarked(Idle)
    BY DEF Unmarked, Idle, Waiting
  <2>3. \A s \in Requests : Unmarked(req'[s])
    BY <2>1, <2>2 DEF ReadsUnmarked
  <2> QED
    BY <2>3 DEF ReadsUnmarked, Unmarked
<1>3. ASSUME NEW r \in Requests,
             CommitCreate(r) \/ CommitEdit(r) \/ CommitReassign(r) \/ CommitDelete(r)
               \/ CommitReconcile(r)
      PROVE  Finish(r)
  BY <1>3 DEF CommitCreate, CommitEdit, CommitReassign, CommitDelete, CommitReconcile
<1> QED
  BY <1>1, <1>2, <1>3, StepKinds, QuietUnmarked

(* Which commits change an entry that is, and stays, reconciled.            *)
LEMMA EndsReading ==
  ASSUME TypeOK, KnownEntries, FreshCreates, ReadsUnmarked, [Next]_vars,
         NEW e \in DOMAIN entry, ~Frozen(e)
  PROVE  \E r \in Requests : /\ req[r].pc = "commit" /\ req[r].entry = e
                             /\ ~req[r].seen.reconciled /\ req'[r] = Idle
<1>1. ASSUME UNCHANGED entry PROVE FALSE
  BY <1>1 DEF Frozen
<1>2. ASSUME NEW r \in Requests, Quiet(r) PROVE FALSE
  BY <1>1, <1>2, QuietWrites
<1>3. ASSUME NEW r \in Requests, CommitCreate(r) PROVE FALSE
  <2>1. entry'[e] = entry[e]
    BY <1>3, CreateWrites
  <2> QED
    BY <2>1 DEF Frozen
<1>4. ASSUME NEW r \in Requests, CommitReconcile(r) PROVE FALSE
  BY <1>4, ReconcileWrites DEF Frozen
<1>5. ASSUME NEW r \in Requests, CommitEdit(r) \/ CommitReassign(r) \/ CommitDelete(r)
      PROVE  /\ req[r].pc = "commit" /\ req[r].entry = e
             /\ ~req[r].seen.reconciled /\ req'[r] = Idle
  <2>1. req[r].pc = "commit" /\ req'[r] = Idle
    BY <1>5 DEF CommitEdit, CommitReassign, CommitDelete, Finish, TypeOK
  <2>2. \A x \in DOMAIN entry \ {req[r].entry} : entry'[x] = entry[x]
    BY <1>5 DEF CommitEdit, CommitReassign, CommitDelete, TypeOK
  <2>3. req[r].entry = e
    BY <2>2 DEF Frozen
  <2>4. CASE CommitReassign(r) \/ CommitDelete(r)
    BY <2>1, <2>3, <2>4 DEF CommitReassign, CommitDelete, ReadsUnmarked, Unmarked, Waiting
  <2>5. CASE CommitEdit(r)
    <3>1. entry' = [entry EXCEPT ![e] = EditedRow(req[r])] /\ req[r].op = "edit"
      BY <2>3, <2>5 DEF CommitEdit
    <3>2. entry[e] \in Row
      BY DEF TypeOK
    <3>3. Touches(req[r].body)
      <4>1. SUFFICES ASSUME ~Touches(req[r].body) PROVE Frozen(e)
        OBVIOUS
      <4>2. EditedRow(req[r]) = [entry[e] EXCEPT !.version = @ + 1, !.money = entry[e].money,
                                                 !.obligation = entry[e].obligation]
        BY <2>3, <4>1 DEF EditedRow, Touches
      <4> QED
        BY <3>1, <3>2, <4>2 DEF Frozen, Row
    <3> QED
      BY <2>1, <2>3, <3>1, <3>3 DEF ReadsUnmarked, Unmarked, Waiting
  <2> QED
    BY <1>5, <2>4, <2>5
<1> QED
  BY <1>1, <1>2, <1>3, <1>4, <1>5, StepKinds DEF vars

(* What is begun on an entry that is reconciled, an approved delete request *)
(* included, never changes its money, its book or its obligation and never  *)
(* deletes it while it stays reconciled, whatever else is in progress.      *)
THEOREM ReconciledStaysKept == Spec => ReconciledIsKept
<1> DEFINE Keeps == \A e \in DOMAIN entry :
                      entry[e].reconciled /\ entry'[e].reconciled /\ ~Frozen(e) =>
                        \E r \in Requests : /\ req[r].pc = "commit" /\ req[r].entry = e
                                            /\ ~req[r].seen.reconciled /\ req'[r] = Idle
<1>1. Init => ReadsUnmarked
  BY DEF Init, ReadsUnmarked, Unmarked, Idle, Waiting
<1>2. IInv /\ ReadsUnmarked /\ [Next]_vars => ReadsUnmarked' /\ Keeps
  BY StepUnmarked, EndsReading DEF IInv
<1> HIDE DEF Keeps
<1>3. Spec => [][Keeps]_vars
  BY <1>1, <1>2, AlwaysIInv, PTL DEF Spec
<1> QED
  BY <1>3 DEF ReconciledIsKept, Keeps

=============================================================================
