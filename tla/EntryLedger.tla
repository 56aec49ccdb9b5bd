---------------------------- MODULE EntryLedger ----------------------------
(***************************************************************************)
(* Cashbook entries and the journals that stand behind them                *)
(* (src/modules/entries/entries.service.ts).                               *)
(*                                                                         *)
(* Every write of an entry has the same shape: the entry row is read       *)
(* outside any transaction and checked (the Read actions); the wallet link *)
(* is probed without a lock, only to learn which wallet row to lock        *)
(* (Probe); then one transaction takes the locks and does everything else  *)
(* (the Commit actions).  A request holds the row it read across the gap,  *)
(* and what others commit in the gap is what this module is about.         *)
(*                                                                         *)
(* The transaction is one step: it locks the book, the wallet and the      *)
(* obligation it touches before it writes, and holds them to the commit.   *)
(* A request that the code refuses, or that dies with its process, changes *)
(* nothing (Abandon).                                                      *)
(*                                                                         *)
(* Fixed here: every fiscal period is open, currencies agree, no entry     *)
(* carries stock, no obligation is backed by an invoice, LEDGER_MODE = on. *)
(***************************************************************************)
EXTENDS Posting

CONSTANTS
  Entries,          \* identifiers of entries
  Books,            \* cashbooks
  Wallets,          \* wallet accounts
  Obligations,      \* receivables and payables
  DeleteRequests,   \* identifiers of delete requests
  Requests,         \* HTTP requests that may be in progress at one time
  Moneys,           \* the (type, amount, charge) combinations clients send
  ObligationTerms,  \* [Obligations -> [type, book, total]], fixed at creation
  Overdraftable,    \* the wallets with allowNegative
  MaxVersion,       \* bound on the versions of an entry
  Operations,       \* the operations the clients use
  Overlapping,      \* the pairs of kinds of request in progress at one time
  NoWallet, NoObligation, Same

AllOperations ==
  {"create", "createUnlinked", "edit", "describe", "settle", "unsettle", "relink",
   "reassign", "delete", "requestDelete", "reconcile"}

Kinds == {"create", "edit", "describe", "reassign", "delete", "ask", "review", "reconcile"}

ASSUME ConstantsAssumption ==
  /\ Moneys \subseteq [type : EntryTypes, amount : Nat, charge : Nat]
  /\ ObligationTerms \in [Obligations -> [type : ObligationTypes, book : Books, total : Nat]]
  /\ Overdraftable \subseteq Wallets
  /\ MaxVersion \in Nat \ {0}
  /\ Operations \subseteq AllOperations
  /\ Overlapping \subseteq SUBSET Kinds
  /\ NoWallet \notin Wallets
  /\ NoObligation \notin Obligations
  /\ Same \notin Moneys \union Wallets \union Obligations \union {NoObligation}
  /\ Books \cap Wallets = {}

VARIABLES
  entry,        \* the entries table: a function from the entries created so far
  walletTx,     \* CASHBOOK_ENTRY rows of account_transactions, by entry
  obligation,   \* cashbook_obligations: outstanding amount and status
  deleteReq,    \* the delete requests made so far
  journals,     \* journal_entries by posting key <<entry, version>>
  caches,       \* Cashbook.balance/totalIncome/totalExpense and Account.balance
  req           \* the requests in progress

vars == <<entry, walletTx, obligation, deleteReq, journals, caches, req>>

Versions == 1 .. MaxVersion
Keys     == Entries \X Versions
Places   == Books \union Wallets

Row == [version : Versions, deleted : BOOLEAN, reconciled : BOOLEAN, book : Books,
        money : Moneys, obligation : Obligations \union {NoObligation}]

WalletTx == [wallet : Wallets, money : Moneys, voided : BOOLEAN]

Draft == [rule : {"CASHBOOK_ENTRY"}, book : Books, linked : BOOLEAN,
          wallet : Wallets \union {NoWallet}, money : Moneys,
          obligation : Obligations \union {NoObligation},
          settles : ObligationTypes \union {"NOTHING"}]

Journal == [status : {"POSTED", "REVERSED"}, draft : Draft]

(* The body of an update: each field given or left out.                    *)
EditBody == [money : Moneys \union {Same}, wallet : Wallets \union {Same},
             obligation : Obligations \union {NoObligation, Same}]

CreateBody == [book : Books, money : Moneys, wallet : Wallets \union {NoWallet},
               obligation : Obligations \union {NoObligation}]

Idle == [pc |-> "idle"]

(* What a request remembers: the row it read, the wallet it probed, the    *)
(* body the client sent.                                                   *)
Waiting == {"probe", "commit"}
Probed  == Wallets \union {NoWallet}

Creating   == [pc : {"create"}, entry : Entries, body : CreateBody]
Editing    == [pc : Waiting, op : {"edit"}, entry : Entries, seen : Row, probe : Probed,
               versioned : BOOLEAN, body : EditBody]
Moving     == [pc : Waiting, op : {"reassign"}, entry : Entries, seen : Row, probe : Probed,
               target : Books, expected : Versions]
Deleting   == [pc : Waiting, op : {"delete"}, entry : Entries, seen : Row, probe : Probed]
Reviewing  == [pc : {"review"}, id : DeleteRequests, entry : Entries, seen : Row]
Asking     == [pc : {"ask"}, entry : Entries]
Reconciling == [pc : {"reconcile"}, entry : Entries, seen : Row]

Request == {Idle} \union Creating \union Editing \union Moving \union Deleting
             \union Reviewing \union Asking \union Reconciling

TypeOK ==
  /\ DOMAIN entry \subseteq Entries
  /\ \A e \in DOMAIN entry : entry[e] \in Row
  /\ DOMAIN walletTx \subseteq DOMAIN entry
  /\ \A e \in DOMAIN walletTx : walletTx[e] \in WalletTx
  /\ obligation \in [Obligations -> [outstanding : Int,
                                     status : {"OPEN", "PARTIAL", "PAID", "CANCELLED"},
                                     archived : BOOLEAN]]
  /\ DOMAIN deleteReq \subseteq DeleteRequests
  /\ \A i \in DOMAIN deleteReq :
       deleteReq[i] \in [entry : DOMAIN entry, status : {"PENDING", "APPROVED", "REJECTED"}]
  /\ DOMAIN journals \subseteq Keys
  /\ \A k \in DOMAIN journals : journals[k] \in Journal
  /\ caches \in [cash : [Places -> Int], income : [Books -> Int], expense : [Books -> Int]]
  /\ req \in [Requests -> Request]

-----------------------------------------------------------------------------
(* Helpers.                                                                *)

Exists(e) == e \in DOMAIN entry /\ ~entry[e].deleted

(* The non-voided wallet row of an entry.                                  *)
Link(e) == IF e \in DOMAIN walletTx /\ ~walletTx[e].voided
           THEN walletTx[e].wallet ELSE NoWallet

(* reassignEntry probes without the voidedAt filter.                       *)
AnyLink(e) == IF e \in DOMAIN walletTx THEN walletTx[e].wallet ELSE NoWallet

EntryDraft(book, wallet, money, o) ==
  [rule |-> "CASHBOOK_ENTRY", book |-> book, linked |-> wallet # NoWallet,
   wallet |-> wallet, money |-> money, obligation |-> o,
   settles |-> IF o = NoObligation THEN "NOTHING" ELSE ObligationTerms[o].type]

(* RECEIVABLE is settled by income, PAYABLE by expense.                    *)
RightDirection(o, money) ==
  ObligationTerms[o].type = "RECEIVABLE" <=> money.type = "INCOME"

SetOutstanding(obls, o, x) ==
  [obls EXCEPT ![o].outstanding = x,
               ![o].status = ObligationStatus(ObligationTerms[o].total, x, @)]

(* Altered form of Restore: the payment is not taken back.                 *)
Restore_Forgotten(obls, o, amount) == obls

(* A payment taken back: the outstanding amount grows, capped at the total. *)
Restore(obls, o, amount) ==
  IF o = NoObligation THEN obls
  ELSE SetOutstanding(obls, o,
         LET grown == obls[o].outstanding + amount
         IN  IF grown > ObligationTerms[o].total THEN ObligationTerms[o].total ELSE grown)

Covers(w, change) == w \in Overdraftable \/ caches.cash[w] + change >= 0

(* The clients of this instance: two requests are in progress together     *)
(* only if their kinds are a pair of Overlapping ({a} for a twice).        *)
Kind(q) == IF q.pc \notin Waiting THEN q.pc
           ELSE IF q.op = "edit" /\ ~q.versioned THEN "describe" ELSE q.op

Admits(r, kind) ==
  \A s \in Requests \ {r} : req[s] # Idle => {kind, Kind(req[s])} \in Overlapping

Finish(r) == req' = [req EXCEPT ![r] = Idle]

-----------------------------------------------------------------------------
Init ==
  /\ entry = << >>
  /\ walletTx = << >>
  /\ obligation = [o \in Obligations |-> [outstanding |-> ObligationTerms[o].total,
                                          status |-> "OPEN", archived |-> FALSE]]
  /\ deleteReq = << >>
  /\ journals = << >>
  /\ caches = [cash    |-> [p \in Places |-> 0],
               income  |-> [b \in Books |-> 0],
               expense |-> [b \in Books |-> 0]]
  /\ req = [r \in Requests |-> Idle]

-----------------------------------------------------------------------------
(* createEntryWithin: the checks made before the locks are taken ...       *)
ReadCreate(r, e, body) ==
  /\ req[r] = Idle
  /\ Admits(r, "create")
  /\ e \notin DOMAIN entry
  /\ \A q \in Requests : req[q].pc = "create" => req[q].entry # e  \* a fresh uuid
  /\ IF body.wallet = NoWallet THEN "createUnlinked" \in Operations
                               ELSE "create" \in Operations
  /\ body.obligation # NoObligation =>
       /\ "settle" \in Operations
       /\ ObligationTerms[body.obligation].book = body.book
       /\ ~obligation[body.obligation].archived
       /\ obligation[body.obligation].status \notin {"PAID", "CANCELLED"}
       /\ RightDirection(body.obligation, body.money)
       /\ body.money.amount <= obligation[body.obligation].outstanding
  /\ req' = [req EXCEPT ![r] = [pc |-> "create", entry |-> e, body |-> body]]
  /\ UNCHANGED <<entry, walletTx, obligation, deleteReq, journals, caches>>

(* ... and the write, under the locks: only the overdraft and the overpayment *)
(* are checked again.                                                         *)
CommitCreate(r) ==
  LET q == req[r]
      e == req[r].entry
      b == req[r].body
      d == EntryDraft(b.book, b.wallet, b.money, b.obligation)
  IN /\ q.pc = "create"
     /\ b.wallet # NoWallet /\ WalletDelta(b.money) < 0 =>
          Covers(b.wallet, WalletDelta(b.money))
     /\ b.obligation # NoObligation =>
          b.money.amount <= obligation[b.obligation].outstanding
     /\ Postable(d)
     /\ entry' = [x \in DOMAIN entry \union {e} |->
                    IF x = e THEN [version |-> 1, deleted |-> FALSE, reconciled |-> FALSE,
                                   book |-> b.book, money |-> b.money,
                                   obligation |-> b.obligation]
                    ELSE entry[x]]
     /\ walletTx' = IF b.wallet = NoWallet THEN walletTx
                    ELSE [x \in DOMAIN walletTx \union {e} |->
                            IF x = e THEN [wallet |-> b.wallet, money |-> b.money,
                                           voided |-> FALSE]
                            ELSE walletTx[x]]
     /\ obligation' = IF b.obligation = NoObligation THEN obligation
                      ELSE SetOutstanding(obligation, b.obligation,
                             obligation[b.obligation].outstanding - b.money.amount)
     /\ journals' = PostIn(journals, <<e, 1>>, d)
     /\ caches' = AddDeltas(caches, d, 1)
     /\ Finish(r)
     /\ UNCHANGED deleteReq

-----------------------------------------------------------------------------
(* updateEntry.  A body that touches money, wallet or obligation must carry *)
(* expectedVersion; one that only changes descriptions may leave it out.    *)
(* The version a client expects is one it has read, so it equals the one    *)
(* read here or the request is refused at once.                             *)

Touches(body) == body.money # Same \/ body.wallet # Same \/ body.obligation # Same

Sends(body, versioned) ==
  /\ body.money # Same => "edit" \in Operations
  /\ body.wallet # Same => "relink" \in Operations
  /\ body.obligation \in Obligations => "settle" \in Operations
  /\ body.obligation = NoObligation => "unsettle" \in Operations
  /\ ~versioned => "describe" \in Operations

ReadEdit(r, e, body, versioned) ==
  /\ req[r] = Idle
  /\ Admits(r, IF versioned THEN "edit" ELSE "describe")
  /\ Exists(e)
  /\ Sends(body, versioned)
  /\ Touches(body) => ~entry[e].reconciled /\ versioned
  /\ req' = [req EXCEPT ![r] = [pc |-> "probe", op |-> "edit", entry |-> e,
                                seen |-> entry[e], probe |-> NoWallet,
                                versioned |-> versioned, body |-> body]]
  /\ UNCHANGED <<entry, walletTx, obligation, deleteReq, journals, caches>>

(* The unlocked probe of the wallet link, by every operation on an entry.  *)
Probe(r) ==
  /\ req[r].pc = "probe"
  /\ req' = [req EXCEPT ![r].pc = "commit",
                        ![r].probe = IF req[r].op = "reassign"
                                     THEN AnyLink(req[r].entry) ELSE Link(req[r].entry)]
  /\ UNCHANGED <<entry, walletTx, obligation, deleteReq, journals, caches>>

(* Altered form of Claims: the version is not compared.                    *)
Claims_Unversioned(q, version) == ~entry[q.entry].deleted

(* The compare-and-swap on version: the WHERE clause of the updateMany.    *)
Claims(q, version) == entry[q.entry].version = version /\ ~entry[q.entry].deleted

(* The money and the wallet an edit computes with: fields the body leaves  *)
(* out come from the row read before the transaction, and the wallet from  *)
(* the row read under the locks.                                           *)
NewMoney(q)  == IF q.body.money = Same THEN q.seen.money ELSE q.body.money
NewWallet(q) == IF q.body.wallet = Same THEN Link(q.entry) ELSE q.body.wallet

(* The overdraft check, made on a debit of the target wallet only.         *)
EditCovered(q) ==
  LET w     == NewWallet(q)
      moved == w # Link(q.entry) \/ NewMoney(q) # q.seen.money
      old   == IF w = Link(q.entry) THEN WalletDelta(q.seen.money) ELSE 0
  IN  w # NoWallet /\ moved /\ WalletDelta(NewMoney(q)) < 0 =>
        Covers(w, WalletDelta(NewMoney(q)) - old)

(* The obligation the edited entry settles, and the obligations after the   *)
(* edit: unlinked, moved to another one, or adjusted by the difference.     *)
Target(q) == IF q.body.obligation = Same THEN q.seen.obligation ELSE q.body.obligation

SettledBefore(q) ==
  IF Target(q) = q.seen.obligation THEN obligation
  ELSE Restore(obligation, q.seen.obligation, q.seen.money.amount)

SettledAfter(q) ==
  IF Target(q) = NoObligation THEN SettledBefore(q)
  ELSE SetOutstanding(SettledBefore(q), Target(q),
         obligation[Target(q)].outstanding - NewMoney(q).amount
           + (IF Target(q) = q.seen.obligation THEN q.seen.money.amount ELSE 0))

EditSettles(q) ==
  Target(q) # NoObligation =>
    /\ Target(q) # q.seen.obligation =>
         /\ ObligationTerms[Target(q)].book = q.seen.book
         /\ ~obligation[Target(q)].archived
         /\ obligation[Target(q)].status # "CANCELLED"
    /\ SettledAfter(q)[Target(q)].outstanding >= 0
    /\ RightDirection(Target(q), NewMoney(q))

(* The row after the edit: only the fields the body gives are written.     *)
EditedRow(q) ==
  LET now == entry[q.entry]
  IN  [now EXCEPT !.version = @ + 1,
                  !.money = IF q.body.money = Same THEN @ ELSE q.body.money,
                  !.obligation = IF q.body.obligation = Same THEN @ ELSE q.body.obligation]

EditedDraft(q) ==
  EntryDraft(q.seen.book, NewWallet(q), EditedRow(q).money, EditedRow(q).obligation)

CommitEdit(r) ==
  LET q   == req[r]
      e   == req[r].entry
      row == EditedRow(q)
      old == <<e, q.seen.version>>
  IN /\ q.pc = "commit" /\ q.op = "edit"
     /\ q.versioned => Claims(q, q.seen.version)
     /\ Link(e) = q.probe
     /\ entry[e].version < MaxVersion               \* bound
     /\ EditCovered(q)
     /\ EditSettles(q)
     /\ <<e, row.version>> \notin DOMAIN journals   \* onDuplicate: THROW
     /\ Postable(EditedDraft(q))
     /\ entry' = [entry EXCEPT ![e] = row]
     /\ walletTx' = IF NewWallet(q) = NoWallet THEN walletTx
                    ELSE [x \in DOMAIN walletTx \union {e} |->
                            IF x = e THEN [wallet |-> NewWallet(q), money |-> NewMoney(q),
                                           voided |-> FALSE]
                            ELSE walletTx[x]]
     /\ obligation' = SettledAfter(q)
     /\ journals' = Repost(journals, old, <<e, row.version>>, EditedDraft(q))
     /\ caches' = CachesAfterRepost(journals, caches, old, EditedDraft(q))
     /\ Finish(r)
     /\ UNCHANGED deleteReq

-----------------------------------------------------------------------------
(* reassignEntry: the entry moves to another book under a claim of the     *)
(* version the client expects, which nothing compares with the row read    *)
(* here: a client may count on an edit of its own that is still under way. *)
ReadReassign(r, e, b, expected) ==
  /\ "reassign" \in Operations
  /\ req[r] = Idle
  /\ Admits(r, "reassign")
  /\ Exists(e)
  /\ ~entry[e].reconciled
  /\ b # entry[e].book
  /\ req' = [req EXCEPT ![r] = [pc |-> "probe", op |-> "reassign", entry |-> e,
                                seen |-> entry[e], probe |-> NoWallet, target |-> b,
                                expected |-> expected]]
  /\ UNCHANGED <<entry, walletTx, obligation, deleteReq, journals, caches>>

MovedRow(q) == [entry[q.entry] EXCEPT !.version = @ + 1, !.book = q.target]

CommitReassign(r) ==
  LET q   == req[r]
      e   == req[r].entry
      row == MovedRow(q)
      old == <<e, q.seen.version>>
      d   == EntryDraft(q.target, q.probe, row.money, row.obligation)
  IN /\ q.pc = "commit" /\ q.op = "reassign"
     /\ Claims(q, q.expected)
     /\ entry[e].version < MaxVersion               \* bound
     /\ <<e, row.version>> \notin DOMAIN journals
     /\ Postable(d)
     /\ entry' = [entry EXCEPT ![e] = row]
     /\ journals' = Repost(journals, old, <<e, row.version>>, d)
     /\ caches' = CachesAfterRepost(journals, caches, old, d)
     /\ Finish(r)
     /\ UNCHANGED <<walletTx, obligation, deleteReq>>

-----------------------------------------------------------------------------
(* Altered form of Reversible: nobody looks at the mark.                   *)
Reversible_Anyway(row) == TRUE

(* What reverseEntryWithin asks of the row it is given, which was read     *)
(* before its transaction.                                                 *)
Reversible(row) == ~row.reconciled

(* deleteEntry by a user who may also approve.                             *)
ReadDelete(r, e) ==
  /\ "delete" \in Operations
  /\ req[r] = Idle
  /\ Admits(r, "delete")
  /\ Exists(e)
  /\ Reversible(entry[e])
  /\ req' = [req EXCEPT ![r] = [pc |-> "probe", op |-> "delete", entry |-> e,
                                seen |-> entry[e], probe |-> NoWallet]]
  /\ UNCHANGED <<entry, walletTx, obligation, deleteReq, journals, caches>>

(* reverseEntryWithin, on the row read before the transaction.  There is no *)
(* version claim and no second look at isDeleted.                           *)
CommitDelete(r) ==
  LET q   == req[r]
      e   == req[r].entry
      key == <<e, q.seen.version>>
  IN /\ q.pc = "commit" /\ q.op = "delete"
     /\ Link(e) = q.probe
     /\ Link(e) # NoWallet /\ WalletDelta(q.seen.money) > 0 =>
          Covers(Link(e), -WalletDelta(q.seen.money))
     /\ entry' = [entry EXCEPT ![e].deleted = TRUE]
     /\ walletTx' = IF Link(e) = NoWallet THEN walletTx
                    ELSE [walletTx EXCEPT ![e].voided = TRUE]
     /\ obligation' = Restore(obligation, q.seen.obligation, q.seen.money.amount)
     /\ journals' = ReverseIn(journals, key)
     /\ caches' = CachesAfterReverse(journals, caches, key)
     /\ Finish(r)
     /\ UNCHANGED deleteReq

(* deleteEntry by a user who may only ask: look for a pending request ...  *)
ReadAskDelete(r, e) ==
  /\ "requestDelete" \in Operations
  /\ req[r] = Idle
  /\ Admits(r, "ask")
  /\ Exists(e)
  /\ ~\E i \in DOMAIN deleteReq : deleteReq[i] = [entry |-> e, status |-> "PENDING"]
  /\ req' = [req EXCEPT ![r] = [pc |-> "ask", entry |-> e]]
  /\ UNCHANGED <<entry, walletTx, obligation, deleteReq, journals, caches>>

(* ... then file one.                                                      *)
CommitAskDelete(r, i) ==
  /\ req[r].pc = "ask"
  /\ i \notin DOMAIN deleteReq
  /\ deleteReq' = [x \in DOMAIN deleteReq \union {i} |->
                     IF x = i THEN [entry |-> req[r].entry, status |-> "PENDING"]
                     ELSE deleteReq[x]]
  /\ Finish(r)
  /\ UNCHANGED <<entry, walletTx, obligation, journals, caches>>

(* reviewDeleteRequest loads the request with its entry, deleted or not,   *)
ReadReview(r, i) ==
  /\ req[r] = Idle
  /\ Admits(r, "review")
  /\ i \in DOMAIN deleteReq
  /\ deleteReq[i].status = "PENDING"
  /\ req' = [req EXCEPT ![r] = [pc |-> "review", id |-> i, entry |-> deleteReq[i].entry,
                                seen |-> entry[deleteReq[i].entry]]]
  /\ UNCHANGED <<entry, walletTx, obligation, deleteReq, journals, caches>>

(* records the decision in a write of its own, and on approval goes on to  *)
(* the deletion, which stops at once when the entry it loaded is reconciled. *)
DecideReview(r, status) ==
  LET q == req[r]
  IN /\ q.pc = "review"
     /\ deleteReq' = [deleteReq EXCEPT ![q.id].status = status]
     /\ req' = [req EXCEPT ![r] =
                  IF status = "APPROVED" /\ Reversible(q.seen)
                  THEN [pc |-> "probe", op |-> "delete", entry |-> q.entry,
                        seen |-> q.seen, probe |-> NoWallet]
                  ELSE Idle]
     /\ UNCHANGED <<entry, walletTx, obligation, journals, caches>>

-----------------------------------------------------------------------------
(* toggleReconciliation of cashbooks.service.ts: read, then write the      *)
(* negation of what was read; no lock, no version.                         *)
ReadReconcile(r, e) ==
  /\ "reconcile" \in Operations
  /\ req[r] = Idle
  /\ Admits(r, "reconcile")
  /\ Exists(e)
  /\ req' = [req EXCEPT ![r] = [pc |-> "reconcile", entry |-> e, seen |-> entry[e]]]
  /\ UNCHANGED <<entry, walletTx, obligation, deleteReq, journals, caches>>

CommitReconcile(r) ==
  /\ req[r].pc = "reconcile"
  /\ entry' = [entry EXCEPT ![req[r].entry].reconciled = ~req[r].seen.reconciled]
  /\ Finish(r)
  /\ UNCHANGED <<walletTx, obligation, deleteReq, journals, caches>>

(* A request that is refused, times out or dies with its process.          *)
Abandon(r) ==
  /\ req[r] # Idle
  /\ Finish(r)
  /\ UNCHANGED <<entry, walletTx, obligation, deleteReq, journals, caches>>

-----------------------------------------------------------------------------
Next ==
  \E r \in Requests :
    \/ \E e \in Entries, body \in CreateBody : ReadCreate(r, e, body)
    \/ CommitCreate(r)
    \/ \E e \in Entries, body \in EditBody, v \in BOOLEAN : ReadEdit(r, e, body, v)
    \/ Probe(r)
    \/ CommitEdit(r)
    \/ \E e \in Entries, b \in Books, v \in Versions : ReadReassign(r, e, b, v)
    \/ CommitReassign(r)
    \/ \E e \in Entries : ReadDelete(r, e)
    \/ CommitDelete(r)
    \/ \E e \in Entries : ReadAskDelete(r, e)
    \/ \E i \in DeleteRequests : CommitAskDelete(r, i)
    \/ \E i \in DeleteRequests : ReadReview(r, i)
    \/ \E s \in {"APPROVED", "REJECTED"} : DecideReview(r, s)
    \/ \E e \in Entries : ReadReconcile(r, e)
    \/ CommitReconcile(r)
    \/ Abandon(r)

Spec == Init /\ [][Next]_vars

-----------------------------------------------------------------------------
(* Properties.                                                             *)

PostedVersions(e) == {v \in Versions : IsPosted(journals, <<e, v>>)}

(* What a request read of its entry is what the entry is.                  *)
Current(q) == entry[q.entry].version = q.seen.version /\ ~entry[q.entry].deleted

(* The step ends a write of e that acts on a reading since overtaken.  An  *)
(* edit that expects a version never gets there: updateEntry compares it   *)
(* with the row it read and claims it.  An edit without one, a move and a  *)
(* deletion do.                                                            *)
StaleWrite(r, e) ==
  /\ req[r].pc = "commit" /\ req[r].entry = e
  /\ Kind(req[r]) \in {"describe", "reassign", "delete"}
  /\ ~Current(req[r]) /\ req'[r] = Idle

(* An entry is in step when, of its journals, the one of its version is in *)
(* force, saying what the entry says (book, wallet, money, obligation) as  *)
(* its wallet row does; deleted, when it has no journal and no wallet row  *)
(* in force.                                                               *)
InStep(e) ==
  e \in DOMAIN entry =>
    IF entry[e].deleted THEN PostedVersions(e) = {} /\ Link(e) = NoWallet
    ELSE /\ PostedVersions(e) = {entry[e].version}
         /\ journals[<<e, entry[e].version>>].draft =
              EntryDraft(entry[e].book, Link(e), entry[e].money, entry[e].obligation)
         /\ Link(e) # NoWallet => walletTx[e].money = entry[e].money

(* Whatever races, and however often, journals and wallet rows stay in     *)
(* step with their entry, unless a write that no version claim protects    *)
(* commits on a reading that is out of date: a versioned edit never puts   *)
(* them out of step, nor does any write of an entry that it read last.     *)
EntriesStayInStep ==
  [][\A e \in Entries :
       InStep(e) /\ ~InStep(e)' => \E r \in Requests : StaleWrite(r, e)]_vars

(* "Editing reverses the previous version's journal and posts a new one":  *)
(* of the journals of an entry only that of its version is in force, and   *)
(* while the entry is not deleted that one is.  A move that expects a      *)
(* version ahead of the row it read breaks it.                             *)
LedgerFollowsVersions ==
  \A e \in DOMAIN entry :
    /\ PostedVersions(e) \subseteq {entry[e].version}
    /\ ~entry[e].deleted => entry[e].version \in PostedVersions(e)

(* The comment at the wallet probe of updateEntry: the version claim makes *)
(* the unlocked probe safe, so the check after it never fails for an edit  *)
(* whose claim succeeds.                                                   *)
ProbeIsSafe ==
  \A r \in Requests :
    LET q == req[r]
    IN  q.pc = "commit" =>
          (q.op = "edit" =>
             (q.versioned /\ Claims(q, q.seen.version) => q.probe = Link(q.entry)))

(* The four cached columns are exactly the sums over the ledger that       *)
(* LedgerIntegrityService compares them with.                              *)
CachesFollowLedger == CachesEqualLedger(journals, caches)

(* A deleted entry leaves nothing in force in the ledger.                  *)
DeletedLeavesNoTrace ==
  \A e \in DOMAIN entry : entry[e].deleted => PostedVersions(e) = {}

(* recomputeCashbookFromEntries and recomputeWalletBalance: the caches are *)
(* what the entries and the wallet rows that are still alive add up to.    *)
AliveIn(b) == {e \in DOMAIN entry : ~entry[e].deleted /\ entry[e].book = b}

CachesMatchEntries ==
  /\ \A b \in Books :
       /\ caches.cash[b] =
            MapThenSumSet(LAMBDA e : BookDelta(entry[e].money, Link(e) # NoWallet), AliveIn(b))
       /\ caches.income[b] = MapThenSumSet(LAMBDA e : IncomeDelta(entry[e].money), AliveIn(b))
       /\ caches.expense[b] = MapThenSumSet(LAMBDA e : ExpenseDelta(entry[e].money), AliveIn(b))
  /\ \A w \in Wallets :
       caches.cash[w] = MapThenSumSet(LAMBDA e : WalletDelta(walletTx[e].money),
                                      {e \in DOMAIN walletTx : Link(e) = w})

(* And they are, whatever has raced, whenever every entry is in step.      *)
BooksMatchInStep == (\A e \in Entries : InStep(e)) => CachesMatchEntries

(* What is owed on an obligation is its total less what the entries that   *)
(* settle it, and are still alive, have paid.                              *)
Paid(o) == MapThenSumSet(LAMBDA e : entry[e].money.amount,
                         {e \in DOMAIN entry : ~entry[e].deleted /\ entry[e].obligation = o})

Conserved(o) == obligation[o].outstanding = ObligationTerms[o].total - Paid(o)

ObligationsConserved == \A o \in Obligations : Conserved(o)

(* With every overlap allowed, a payment counted twice or given back twice *)
(* is again the work of a write on a reading that is out of date.          *)
PaymentsStayCounted ==
  [][\A o \in Obligations :
       Conserved(o) /\ ~Conserved(o)' =>
         \E r \in Requests, e \in Entries : StaleWrite(r, e)]_vars

(* "Soft immutability: reconciled entries cannot change money-affecting    *)
(* fields", nor be moved or deleted, while they stay reconciled.           *)
Frozen(e) ==
  /\ entry'[e].money = entry[e].money
  /\ entry'[e].book = entry[e].book
  /\ entry'[e].obligation = entry[e].obligation
  /\ entry'[e].deleted = entry[e].deleted

ReconciledIsFrozen ==
  [][\A e \in DOMAIN entry : entry[e].reconciled /\ entry'[e].reconciled => Frozen(e)]_vars

(* The edits, moves and deletions that do change a reconciled entry have   *)
(* read it unreconciled: what is begun while it is reconciled, an approved *)
(* delete request included, never changes it.                              *)
ReconciledIsKept ==
  [][\A e \in DOMAIN entry :
       entry[e].reconciled /\ entry'[e].reconciled /\ ~Frozen(e) =>
         \E r \in Requests : /\ req[r].pc = "commit" /\ req[r].entry = e
                             /\ ~req[r].seen.reconciled /\ req'[r] = Idle]_vars
=============================================================================
