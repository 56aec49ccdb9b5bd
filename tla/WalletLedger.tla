---------------------------- MODULE WalletLedger ----------------------------
(***************************************************************************)
(* Wallet accounts, their direct transactions and the transfers between    *)
(* them (src/modules/accounts, src/modules/account-transactions).          *)
(*                                                                         *)
(* Direct transactions, transfers and recalculation lock the wallet rows   *)
(* before they read anything, so each is one step.  Archiving and deleting *)
(* an account read the row without a lock, decide, and write: two steps.   *)
(* The transactions that entries of a cashbook put on a wallet are those   *)
(* of EntryLedger and are left out here.                                   *)
(***************************************************************************)
EXTENDS Posting

CONSTANTS
  Wallets,       \* identifiers of accounts
  Txs,           \* identifiers of direct transactions
  Transfers,     \* identifiers of transfers
  Requests,      \* requests that may be between their read and their write
  Moneys,        \* the (type, amount, charge) combinations clients send
  Openings,      \* the opening balances
  Sums,          \* the (amount, fee) pairs of transfers
  MaxVersion,    \* bound on the versions of a direct transaction
  Operations     \* the kinds of request the clients send

AllOperations ==
  {"direct", "edit", "editOpening", "delete", "deleteOpening", "transfer", "recalculate",
   "allowNegative", "archive", "remove"}

ASSUME WalletAssumption ==
  /\ Moneys \subseteq [type : EntryTypes, amount : Nat, charge : Nat]
  /\ Openings \subseteq Nat
  /\ Sums \subseteq [amount : Nat \ {0}, fee : Nat]
  /\ MaxVersion \in Nat \ {0}
  /\ Operations \subseteq AllOperations

VARIABLES
  account,    \* the accounts that exist
  directTx,   \* account_transactions with sourceType DIRECT
  transfer,   \* account_transfers
  journals,   \* journal_entries by posting key
  caches,     \* Account.balance, as the cash part of the cached columns
  req         \* the requests between their read and their write

vars == <<account, directTx, transfer, journals, caches, req>>

Versions == 1 .. MaxVersion

TxKey(t, v)    == <<"wallet-tx", t, v>>
OpenKey(w)     == <<"account-open", w, 1>>
TransferKey(x) == <<"transfer", x, 1>>

Keys == ({"wallet-tx"} \X Txs \X Versions) \union ({"account-open"} \X Wallets \X {1})
          \union ({"transfer"} \X Transfers \X {1})

Account  == [archived : BOOLEAN, allowNegative : BOOLEAN]
DirectTx == [wallet : Wallets, money : [type : EntryTypes, amount : Nat, charge : Nat],
             voided : BOOLEAN, version : Versions]
Transfer == [from : Wallets, to : Wallets, amount : Nat, fee : Nat]

Draft ==
  [rule : {"ACCOUNT_TRANSACTION"}, wallet : Wallets,
   money : [type : EntryTypes, amount : Nat, charge : Nat]]
    \union [rule : {"ACCOUNT_OPENING"}, wallet : Wallets, signed : Nat]
    \union [rule : {"ACCOUNT_TRANSFER"}, from : Wallets, to : Wallets, amount : Nat, fee : Nat]

Journal == [status : {"POSTED", "REVERSED"}, draft : Draft]

Idle    == [pc |-> "idle"]
Request == {Idle} \union [pc : {"archive"}, wallet : Wallets, archive : BOOLEAN]
             \union [pc : {"remove"}, wallet : Wallets]

TypeOK ==
  /\ DOMAIN account \subseteq Wallets
  /\ \A w \in DOMAIN account : account[w] \in Account
  /\ DOMAIN directTx \subseteq Txs
  /\ \A t \in DOMAIN directTx : directTx[t] \in DirectTx
  /\ DOMAIN transfer \subseteq Transfers
  /\ \A x \in DOMAIN transfer : transfer[x] \in Transfer
  /\ DOMAIN journals \subseteq Keys
  /\ \A k \in DOMAIN journals : journals[k] \in Journal
  /\ caches \in [cash : [DOMAIN account -> Int], income : [{} -> Int], expense : [{} -> Int]]
  /\ req \in [Requests -> Request]

-----------------------------------------------------------------------------
(* Helpers.                                                                *)

With(f, x, value) == [y \in DOMAIN f \union {x} |-> IF y = x THEN value ELSE f[y]]

Within(f, S) == [y \in DOMAIN f \ S |-> f[y]]

WalletDraft(w, m) == [rule |-> "ACCOUNT_TRANSACTION", wallet |-> w, money |-> m]
OpeningDraft(w, x) == [rule |-> "ACCOUNT_OPENING", wallet |-> w, signed |-> x]
TransferDraft(x)   == [rule |-> "ACCOUNT_TRANSFER", from |-> x.from, to |-> x.to,
                       amount |-> x.amount, fee |-> x.fee]

(* The direct transaction that createAccount writes for the opening balance *)
(* is one that has no journal under a key of its own.                       *)
IsOpening(t) == TxKey(t, 1) \notin DOMAIN journals

(* Identifiers are uuids: one that was used is never used again.           *)
Mentioned(w) ==
  \E k \in DOMAIN journals, i \in Slots : Legs(journals[k].draft)[i].ref = Wallet(w)

Fresh(t) == t \notin DOMAIN directTx /\ \A v \in Versions : TxKey(t, v) \notin DOMAIN journals

(* A wallet the client names with one of its own direct transactions.      *)
Owns(w, t) == w \in DOMAIN account /\ t \in DOMAIN directTx /\ directTx[t].wallet = w

Covers(w, change) == account[w].allowNegative \/ caches.cash[w] + change >= 0

Finish(r) == req' = [req EXCEPT ![r] = Idle]

-----------------------------------------------------------------------------
Init ==
  /\ account = << >>
  /\ directTx = << >>
  /\ transfer = << >>
  /\ journals = << >>
  /\ caches = [cash |-> << >>, income |-> << >>, expense |-> << >>]
  /\ req = [r \in Requests |-> Idle]

(* createAccount: the row starts at zero and the opening journal moves it; *)
(* a direct transaction stands for the opening balance in the history.     *)
CreateAccount(w, negative, opening) ==
  /\ w \notin DOMAIN account /\ ~Mentioned(w)                 \* a fresh uuid
  /\ account' = With(account, w, [archived |-> FALSE, allowNegative |-> negative])
  /\ LET opened == [caches EXCEPT !.cash = With(@, w, 0)]
     IN  IF opening = 0
         THEN /\ caches' = opened
              /\ UNCHANGED <<directTx, journals>>
         ELSE /\ \E t \in Txs :
                   /\ Fresh(t)
                   /\ directTx' = With(directTx, t,
                        [wallet |-> w, voided |-> FALSE, version |-> 1,
                         money |-> [type |-> "INCOME", amount |-> opening, charge |-> 0]])
              /\ journals' = PostIn(journals, OpenKey(w), OpeningDraft(w, opening))
              /\ caches' = AddDeltas(opened, OpeningDraft(w, opening), 1)
  /\ UNCHANGED <<transfer, req>>

(* createDirectTransaction.                                                *)
CreateDirect(w, t, m) ==
  /\ "direct" \in Operations
  /\ w \in DOMAIN account /\ ~account[w].archived
  /\ Fresh(t)
  /\ WalletDelta(m) < 0 => Covers(w, WalletDelta(m))
  /\ Postable(WalletDraft(w, m))
  /\ directTx' = With(directTx, t,
                      [wallet |-> w, money |-> m, voided |-> FALSE, version |-> 1])
  /\ journals' = PostIn(journals, TxKey(t, 1), WalletDraft(w, m))
  /\ caches' = AddDeltas(caches, WalletDraft(w, m), 1)
  /\ UNCHANGED <<account, transfer, req>>

(* version: { increment: 1 }.                                              *)
Bumped(row) == row.version + 1

(* updateDirectTransaction: the balance is checked against a debit only,   *)
(* and an archived wallet is not refused.                                  *)
UpdateDirect(w, t, m) ==
  LET row == directTx[t]
      old == TxKey(t, row.version)
      d   == WalletDraft(w, m)
  IN /\ Owns(w, t)
     /\ IF IsOpening(t) THEN "editOpening" \in Operations ELSE "edit" \in Operations
     /\ ~row.voided
     /\ row.version < MaxVersion                               \* bound
     /\ WalletDelta(m) < 0 => Covers(w, WalletDelta(m) - WalletDelta(row.money))
     /\ Postable(d)
     /\ directTx' = [directTx EXCEPT ![t].money = m, ![t].version = Bumped(row)]
     /\ journals' = Repost(journals, old, TxKey(t, Bumped(row)), d)
     /\ caches' = CachesAfterRepost(journals, caches, old, d)
     /\ UNCHANGED <<account, transfer, req>>

(* deleteDirectTransaction: the row is voided and its journal reversed.    *)
DeleteDirect(w, t) ==
  LET row == directTx[t]
      key == TxKey(t, row.version)
  IN /\ Owns(w, t)
     /\ IF IsOpening(t) THEN "deleteOpening" \in Operations ELSE "delete" \in Operations
     /\ ~row.voided
     /\ WalletDelta(row.money) > 0 => Covers(w, -WalletDelta(row.money))
     /\ directTx' = [directTx EXCEPT ![t].voided = TRUE]
     /\ journals' = ReverseIn(journals, key)
     /\ caches' = CachesAfterReverse(journals, caches, key)
     /\ UNCHANGED <<account, transfer, req>>

(* transferBetweenAccounts.                                                *)
TransferBetween(x, from, to, sum) ==
  LET row == [from |-> from, to |-> to, amount |-> sum.amount, fee |-> sum.fee]
  IN /\ "transfer" \in Operations
     /\ from # to
     /\ x \notin DOMAIN transfer
     /\ {from, to} \subseteq DOMAIN account
     /\ ~account[from].archived /\ ~account[to].archived
     /\ Covers(from, -(sum.amount + sum.fee))
     /\ transfer' = With(transfer, x, row)
     /\ journals' = PostIn(journals, TransferKey(x), TransferDraft(row))
     /\ caches' = AddDeltas(caches, TransferDraft(row), 1)
     /\ UNCHANGED <<account, directTx, req>>

(* recomputeWalletBalance: the rows that are not voided, and the transfers; *)
(* first two altered forms, one that takes voided rows in and one that     *)
(* forgets the fee of a transfer.                                          *)
Alive_WithVoided(w) == {t \in DOMAIN directTx : directTx[t].wallet = w}

Alive(w)    == {t \in DOMAIN directTx : directTx[t].wallet = w /\ ~directTx[t].voided}
Arrived(w)  == {x \in DOMAIN transfer : transfer[x].to = w}
Left(w)     == {x \in DOMAIN transfer : transfer[x].from = w}

RowBalance(w) ==
  MapThenSumSet(LAMBDA t : WalletDelta(directTx[t].money), Alive(w))
    + MapThenSumSet(LAMBDA x : transfer[x].amount, Arrived(w))
    - MapThenSumSet(LAMBDA x : transfer[x].amount + transfer[x].fee, Left(w))

(* recalculateAccountBalance writes the cached balance itself.             *)
Recalculate(w) ==
  /\ "recalculate" \in Operations
  /\ w \in DOMAIN account
  /\ caches' = [caches EXCEPT !.cash[w] = RowBalance(w)]
  /\ UNCHANGED <<account, directTx, transfer, journals, req>>

(* updateAccount, of the field that matters here.                          *)
AllowNegative(w, b) ==
  /\ "allowNegative" \in Operations
  /\ w \in DOMAIN account
  /\ account' = [account EXCEPT ![w].allowNegative = b]
  /\ UNCHANGED <<directTx, transfer, journals, caches, req>>

-----------------------------------------------------------------------------
(* setAccountArchiveStatus: the balance is looked at, then the flag set.   *)
ReadArchive(r, w, b) ==
  /\ "archive" \in Operations
  /\ req[r] = Idle
  /\ w \in DOMAIN account
  /\ b => caches.cash[w] = 0
  /\ req' = [req EXCEPT ![r] = [pc |-> "archive", wallet |-> w, archive |-> b]]
  /\ UNCHANGED <<account, directTx, transfer, journals, caches>>

CommitArchive(r) ==
  LET q == req[r]
  IN /\ q.pc = "archive"
     /\ q.wallet \in DOMAIN account
     /\ account' = [account EXCEPT ![q.wallet].archived = q.archive]
     /\ Finish(r)
     /\ UNCHANGED <<directTx, transfer, journals, caches>>

(* deleteAccount: transactions are counted, then the row is deleted.  Its  *)
(* transactions go with it (onDelete: Cascade), a transfer forbids it      *)
(* (onDelete: Restrict), and the journal lines stay.                       *)
RowsOf(w) == {t \in DOMAIN directTx : directTx[t].wallet = w}

ReadRemove(r, w) ==
  /\ "remove" \in Operations
  /\ req[r] = Idle
  /\ w \in DOMAIN account
  /\ RowsOf(w) = {}
  /\ req' = [req EXCEPT ![r] = [pc |-> "remove", wallet |-> w]]
  /\ UNCHANGED <<account, directTx, transfer, journals, caches>>

CommitRemove(r) ==
  LET w == req[r].wallet
  IN /\ req[r].pc = "remove"
     /\ w \in DOMAIN account
     /\ Arrived(w) = {} /\ Left(w) = {}
     /\ account' = Within(account, {w})
     /\ directTx' = Within(directTx, RowsOf(w))
     /\ caches' = [caches EXCEPT !.cash = Within(@, {w})]
     /\ Finish(r)
     /\ UNCHANGED <<transfer, journals>>

(* A request that is refused or dies with its process.                     *)
Abandon(r) ==
  /\ req[r] # Idle
  /\ Finish(r)
  /\ UNCHANGED <<account, directTx, transfer, journals, caches>>

-----------------------------------------------------------------------------
Next ==
  \/ \E w \in Wallets, n \in BOOLEAN, x \in Openings : CreateAccount(w, n, x)
  \/ \E w \in Wallets, t \in Txs, m \in Moneys : CreateDirect(w, t, m)
  \/ \E w \in Wallets, t \in Txs, m \in Moneys : UpdateDirect(w, t, m)
  \/ \E w \in Wallets, t \in Txs : DeleteDirect(w, t)
  \/ \E x \in Transfers, v, w \in Wallets, s \in Sums : TransferBetween(x, v, w, s)
  \/ \E w \in Wallets : Recalculate(w)
  \/ \E w \in Wallets, b \in BOOLEAN : AllowNegative(w, b)
  \/ \E r \in Requests, w \in Wallets, b \in BOOLEAN : ReadArchive(r, w, b)
  \/ \E r \in Requests : CommitArchive(r)
  \/ \E r \in Requests, w \in Wallets : ReadRemove(r, w)
  \/ \E r \in Requests : CommitRemove(r)
  \/ \E r \in Requests : Abandon(r)

Spec == Init /\ [][Next]_vars

-----------------------------------------------------------------------------
(* Properties.                                                             *)

(* The cached balance of a wallet is the sum over the ledger that          *)
(* LedgerIntegrityService compares it with.                                *)
CachesFollowLedger == CachesEqualLedger(journals, caches)

(* The cached balance is also what the rows of the wallet add up to, so    *)
(* that recalculateAccountBalance never finds a drift.                     *)
BalanceMatchesRows == \A w \in DOMAIN account : caches.cash[w] = RowBalance(w)

(* Of the journals of a direct transaction only the one of its current     *)
(* version is in force, and only while the transaction is not voided.      *)
OneJournalInForce ==
  \A t \in DOMAIN directTx : \A v \in Versions :
    IsPosted(journals, TxKey(t, v)) =>
      /\ v = directTx[t].version
      /\ ~directTx[t].voided
      /\ journals[TxKey(t, v)].draft = WalletDraft(directTx[t].wallet, directTx[t].money)

(* The three accounts the code keeps of a wallet agree: its cached balance *)
(* with the ledger and with its rows, and the journals in force with the   *)
(* versions of the rows.                                                   *)
WalletsAgree == CachesFollowLedger /\ BalanceMatchesRows /\ OneJournalInForce
=============================================================================
