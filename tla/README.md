# Formal models of the cashbook backend

This directory holds TLA+ models of the cashbook backend: an Express and
Prisma server over Postgres, with Redis and BullMQ for background work. It
keeps the books of workspaces (cashbooks, wallets, receivables, invoices,
tickets, stock) on a double-entry ledger, and the records of their people
(attendance, leave, tasks, expense claims). The models are written from the
code; every definition that stands for code is listed with its file and lines
under `map` in `PROJECT.json`, and paths below are relative to the repository's
own `src/`.

What the checks say in short: where the code claims a row by its version or
holds a lock from the decision to the commit, the books stay consistent, and
that part is proved for any number of rows and requests. Where a handler
decides on a row it read before its transaction, and looks at it no more, the
books can be brought out of step. The models have those steps too. For entries,
voids and ticket days the properties say that nothing *but* such a step does the
harm, under every overlap; what the harm is, and what else goes wrong, is listed
under [What does not hold](#what-does-not-hold), with the instance that reaches it.

- [The system](#the-system)
- [The shape of the models](#the-shape-of-the-models)
- [Modules](#modules)
- [Runs](#runs)
- [What does not hold](#what-does-not-hold)
- [Fairness](#fairness)
- [Proofs](#proofs)
- [What the models leave out](#what-the-models-leave-out)
- [Plan](#plan)

## The system

### Components

Every component with its status is in `PROJECT.json`. This is what each keeps
and does, and what makes it correct.

| Component | State | Operations | Correct when |
|---|---|---|---|
| ledger core (`core/ledger`, `core/finance/money.ts`) | journals and lines by posting key; cached balances of books and wallets | post, reverse, repost; integrity checks and repairs | each journal balances; the caches equal the sums over the lines; a key is posted once |
| entries (`modules/entries`) | entries with a version; their wallet rows; delete requests | create, edit, move, delete, ask for and review a deletion, bulk forms | only the journal of the current version is in force, and it says what the entry says; payments and obligations agree |
| locks and transactions (`core/db`) | row locks held by open transactions | `acquireLocks`, `withFinancialTransaction` | no deadlock; every transaction ends |
| accounts, account transactions | wallets with a balance; direct transactions with a version; transfers | open, archive, delete, recalculate; create, edit, void; transfer | balance = rows = ledger; nothing is archived or deleted with money on it |
| obligations | total, outstanding amount, status, archived flag | create, pay, undo a payment, archive | outstanding = total less live payments; control accounts = what is owed |
| invoicing | invoices, their items, the obligation they raise, stock movements | create, edit, send, void, delete | invoice, obligation and stock tell one story |
| idempotency middleware | a record per key: in progress or completed with its response | claim, replay, refuse, settle, release, sweep | one effect per key; a replay is the answer to the same request |
| expense claims | claims with status and version | submit, attach a receipt, withdraw, decline, approve | posted once; a decision stands |
| cashbooks | totals, members, reconciliation marks | toggle reconciliation, recalculate, membership | totals equal entries; a reconciled entry is frozen |
| inventory (`modules/inventory`) | items, stock rows, movements, lots and what was drawn from them, rentals | stock in and out for entries, obligations and invoices, manual movements, reversal, return from rent | stock = sum of movements = what the documents stand for; lots account for costs |
| ticketing (`modules/ticketing`) | sessions, types, offers, tiers, cards; days, drawers, sales with their tickets | price, sell, reverse, open and count drawers, close and reopen days, configure | no day oversold, no number given twice; takings, reports and entries agree; a closed day is frozen |
| attendance (`modules/time-tracking`, `modules/attendance`, the scheduler) | work sessions, presence, timers, time entries; schedules, holidays, policy; leave, overtime, reports, flags, day rows | clock in and out, set presence, correct by hand, auto-close; request, review, cancel; sum up days | one open session per person, its intervals without gaps; decisions stand; flags are raised once |
| authentication (`modules/auth`) | users, mailed codes, refresh tokens | register, verify, log in, refresh, log out, change and reset the password | one account per address; no session from before the password |
| members, invites, roles | memberships, invitations, the permission matrix | invite, accept, decline, change role, remove, import | an invitation lets one person in once; only the owner is OWNER |
| API keys and integration | keys, the references of books | create, update, rotate, revoke; activate a book | a key reaches every active book it names; references are unique |
| tasks and projects | tasks, assignments, requests, reports; projects and their members | create, update, assign, ask, decide, report, review | a decision is made once and does what it says |
| notifications | queue jobs, notification rows | enqueue, deliver with retries, group, mark read | everyone is told, and once |
| chart of accounts, fiscal periods | the accounts a workspace adds, categories mapped to them, periods, manual journals | add, change and archive accounts; post and reverse journals; close and reopen periods | the reports of a closed period are final; an account with postings keeps its section |
| files and clean-up | attachment rows, stored objects | upload, delete, sweep orphans | no row without its object |
| circuit breakers | state, failure count | call, open, half-open, close | one probe at a time |
| reports, reference data, audit log, HTTP shell | read-only, independent rows, append-only, wiring | | no invariant that spans steps |

The last three are not modelled.

### How they interact

Requests run concurrently in one or more Node processes. They share nothing in
memory that matters here: they meet in the database. Most money paths have the
same outline.

1. The idempotency middleware claims the key of the request, where the route
   uses it. Creating, editing, moving and deleting entries do, and so do creating
   wallets, transfers, wallet transactions, manual journals, and ticket sales and
   memberships; obligations, invoicing and expense claims do not.
2. The service reads the rows it needs outside any transaction and checks them.
3. It opens a transaction by `withFinancialTransaction`, takes row locks by
   `acquireLocks` in one global order of tables and ids, and checks again what
   the author thought could have changed.
4. It writes the rows and calls the `PostingService` in the same transaction,
   which posts or reverses journals and moves the cached balances.
5. The middleware records the response, apart from the transaction.

Entries reach wallets, obligations, invoices and stock. Invoices raise
obligations. Approved expense claims create entries or obligations. Ticket sales
create entries, and the closing of a day reconciles them. So the entry handlers,
their locks and the ledger under them are the core, and come first here.

The records about people meet elsewhere. Who is signed in and who is a member in
which role decides what every handler lets through; tasks, projects and time are
kept per workspace; decisions about them put jobs on a queue, whose worker writes
notifications. A scheduler ends forgotten work sessions and sums up finished
days. These handlers rarely take locks: they read, decide, and write with a
condition (`updateMany ... where status`) or a unique index that may refuse.

### What is hard

Each hazard is in `PROJECT.json` at its line, with the properties that watch
it, or the reason that none does yet. The families are:

- a row read before the transaction and used in it: entries, invoices,
  archiving, expense claims, roles, tasks, shift corrections, leave;
- operations that must exclude each other but lock different rows, or in
  different orders: voiding an invoice against paying it, a sale against the
  counting of its drawer;
- work spread over several transactions: expense claim approval, the review of
  a delete request, the settling of an idempotency record, a change of password
  and the end of its sessions, the activation of books for a key;
- state kept twice: caches against ledger, invoice against obligation,
  obligation against entries, wallet rows against journals, stock against
  movements and lots, takings against entries, presence against its intervals;
- work somebody else must finish: the sweep of stuck keys, the scheduler that
  closes forgotten sessions, a queue that may deliver a job again;
- long sequences of legal calls that end in a state no single check expects,
  such as deleting a payment of an obligation that has been archived.

## The shape of the models

**One request, two or three steps.** A handler that decides on an unlocked read
is a *Read* action, which puts the row into the request's slot `req[r]`, and a
*Commit* action, which uses it. Anything may commit between the two. A handler
that takes its locks before it reads anything is one action.

**A transaction is one step.** This is justified for the handlers modelled: what
their transaction reads after its locks cannot be changed by others until it
ends, and Postgres makes all its writes visible at once. In `EntryLedger` the
lock is that of the book together with the compare-and-swap on the entry row;
where a transaction takes a decision on data that is *not* locked, the data
comes from the earlier Read. Deadlocks, and the abort and retry they cause, are
the subject of `LockOrder`. `Abandon`, `Refuse` and `Crash` stand for requests
that are refused, time out or die: a transaction that does not commit leaves
nothing.

**Requests of the people side** are the same thing under the name `req[r].pc`:
what was read and how far the handler has come. `Calls` holds it for
`SignIn`, `Access`, `TaskBoard` and `Workspace`. A request may *break off* between
any two of its steps (`BreakOff`): the process dies or a step throws, and what was
written stays. Unique indexes and check constraints refuse the writing step.

**Loads.** Clients are bounded by what they ask for, in kinds and number (`Loads`,
`Operations`, `MaxRequests`): an instance is a set of mixes, each explored in
every interleaving.

**Journals.** A journal is stored as the draft it was built from and a status;
its legs are computed by `Legs`. The mirror image that `reverse` posts is not
stored: a journal is `REVERSED` exactly when its mirror image exists, and the
two add up to nothing.

**Money** is a small natural number. The formulas are those of `money.ts`; what
is lost is rounding to the currency's decimals.

**Identifiers** are uuids: an identifier that was used is never given out again.

**Overlapping operations.** `Overlapping`, a constant of `EntryLedger` and
`Receivables`, bounds the clients and not the code: two requests are in progress
together only if their operations are one of the pairs it lists (`Admits`). With
every pair (`AnyPair`) it is no restriction, with none requests come one at a
time. The runs of `EntryLedger` have every pair.

**Overtaken readings.** `Current` says of a request that what it read of its row
is still so. `StaleWrite`, of entries, and `StaleVoid`, of invoices, are the steps
that commit although it is not. Properties such as `EntriesStayInStep` let a step
do harm only if it is one of these: they hold of every interleaving, and say at
once that the claim of a version, where the code makes one, is enough.

**Altered forms.** An operator whose name has a suffix (`Claims_Unversioned`,
`Cancelled_FlipOnly`) is a plausible mistake in the operator it is named after.
The models never use it; replacing the one by the other shows that a property
notices the mistake. They are listed under `mutants`.

## Modules

| Module | Models | State |
|---|---|---|
| `Posting` | `core/finance/money.ts`, `core/ledger/rules/*`, `posting.service.ts`, the sums of `integrity.service.ts` | none: operators on journals and caches |
| `EntryLedger` | `entries.service.ts`, `toggleReconciliation` of cashbooks | `entry`, `walletTx`, `obligation`, `deleteReq`, `journals`, `caches`, `req` |
| `EntryVersions` | the inductive invariant of `EntryLedger` | |
| `WalletLedger` | `accounts.service.ts`, `account-transactions.service.ts` | `account`, `directTx`, `transfer`, `journals`, `caches`, `req` |
| `Receivables` | `obligations.service.ts`, `invoicing.service.ts`, the obligation half of entries | `obligation`, `invoice`, `payment`, `stock`, `journals`, `req` |
| `LockOrder` | `locks.ts`, `transaction.ts`, the lock plans of the handlers | `status`, `plan`, `at`, `held`, `attempts` |
| `Idempotency` | `middlewares/idempotency.ts` and the sweep | `record`, `inside`, `effects`, `answers` |
| `ExpenseClaims` | `expense-claims.service.ts` | `claim`, `posted`, `req` |
| `ChartOfAccounts` | `chart-of-accounts.service.ts`, `core/ledger/period.ts` | `today`, `chart`, `mapped`, `journal`, `period`, `desk`, `asked` |
| `ClaimBooks` | composes the last two: the posting of a claim looks at a period | those, and `spent` |
| `StockPromise` | what inventory promises to documents | `lines`, `onHand` |
| `StockRoom` | `inventory.service.ts`, the calls of entries, wallets, obligations and invoices | `item`, `stock`, `moves`, `lots`, `uses`, `doc`, `rental`, `req` |
| `TicketPricing` | `ticketing/pricing.ts` | none: operators on baskets and offers |
| `TicketDesk` | `ticketing.service.ts`, `memberships.service.ts` | `today`, `settings`, `session`, `type`, `offer`, `tier`, `card`, `day`, `shift`, `sale`, `asked`, `req` |
| `Permissions` | `workspace-permissions.ts`, `permissions.ts`, `workspace-access.ts` | none |
| `WorkTime` | `time-tracking.service.ts`, attendance policy, `attendanceScheduler.ts` | `now`, `session`, `presence`, `entry`, `flag`, `hours`, `holiday`, `policy`, `site`, `sweep`, `crashes`, `req`, `asked` |
| `PeopleOps` | `leave.service.ts`, `people-ops.service.ts`, `rollup.service.ts` | those of `WorkTime`, `leave`, `booked`, `overtime`, `report`, `dayRow` |
| `Calls` | requests in flight | `req`, `asked` |
| `SignIn` | `auth.service.ts` | `account`, `code`, `session` |
| `Access` | `members`, `invites`, `api-keys`, members of books | `member`, `invite`, `bookMember`, `book`, `refs`, `key` |
| `Notices` | `config/queues.ts`, `notifications.worker.ts`, `notifications.service.ts` | `job`, `notice`, `faults` |
| `TaskBoard` | `tasks.service.ts`, `projects.service.ts`, `deadlineScheduler.ts` | `task`, `assigned`, `ask`, `report`, `project`, `crew` |
| `Workspace` | composes the last four | |

`Posting` is extended by `EntryLedger`, `WalletLedger` and `Receivables`, which
differ in the drafts they post. `TicketDesk` extends `TicketPricing`; `WorkTime`
and `Access` extend `Permissions`; `PeopleOps` extends `WorkTime`; `TaskBoard`
extends `Access` and `Notices`, and `Workspace` puts `SignIn` beside it. `StockRoom`
instantiates `StockPromise`. `MC*` modules hold what TLC needs. `*Proofs` modules
hold proofs; those of `Idempotency` and `LockOrder` are in `WorkspaceProofs`, those of
`WorkTime` in `PeopleOpsProofs`.

### `Posting`

`EffectiveCash`, `WalletDelta`, `BookDelta`, `IncomeDelta`, `ExpenseDelta` and
`ObligationStatus` are the functions of `money.ts`. `IncomeLegs` to
`WriteOffLegs` are the posting rules. Each writes five legs at most, so a draft
has five slots and a leg of zero is one that `resolveDraft` drops. `Postable` is
`resolveDraft` and `assertBalanced`. `AddDeltas` is `deltasFromLines` with the
cache update; `PostIn`, `ReverseIn` and `Repost` are what `post`, `reverse` and
`repost` leave in `journal_entries`. `reverse` of a key without a journal, or of
a journal that is already reversed, does nothing: that leniency is what turns
several races below into silent ones. `LEDGER_MODE` is `on`, its default.

### `EntryLedger`

| Action | Code |
|---|---|
| `ReadCreate`, `CommitCreate` | `createEntryWithin` |
| `ReadEdit`, `Probe`, `CommitEdit` | `updateEntry`: the checks on the row read, the unlocked probe of the wallet link, the transaction |
| `ReadReassign`, `Probe`, `CommitReassign` | `reassignEntry` |
| `ReadDelete`, `Probe`, `CommitDelete` | `deleteEntry`, `reverseEntryWithin` |
| `ReadAskDelete`, `CommitAskDelete` | `deleteEntry` by a user who may not approve |
| `ReadReview`, `DecideReview` | `reviewDeleteRequest`, which goes on to a deletion |
| `ReadReconcile`, `CommitReconcile` | `toggleReconciliation` |

An edit is a record of fields, each given or `Same`. The account id in the
update DTO cannot be null, so an edit may link or change a wallet but not
unlink it. `versioned` says whether the body carried `expectedVersion`: the code
demands it when the body touches money, wallet or obligation, compares it with
the row read, and claims it; other edits do without. An unversioned edit is the
request `"describe"` in `Operations`; it still reverses and reposts the journal.
A move carries `expected`, the version the client sent, *any* version: the code
claims it and never compares it with the row read, whose version names the
journal it reverses (`:1854`, `:1878`). So a move that expects the version an edit
in progress is about to write goes through on the old row. Deletions claim
nothing. Bulk operations are the single ones in a row.

| Property | Says |
|---|---|
| `EntriesStayInStep` | of the journals of an entry the one of its version is in force, saying what the entry says as its wallet row does, and of a deleted entry none is: and only a move, a deletion or an edit without a version that commits on an overtaken reading ends that |
| `ProbeIsSafe` | what an edit with a version found out of the wallet without a lock is so, whenever its claim succeeds |
| `CachesFollowLedger` | cached balances are the sums over the ledger, always |
| `BooksMatchInStep` | they are the sums over living entries and wallet rows (`CachesMatchEntries`) whenever every entry is in step |
| `PaymentsStayCounted` | what is owed on an obligation is its total less the living payments (`Conserved`), until a write on an overtaken reading |
| `ReconciledIsKept` | what changes or deletes a reconciled entry has read it unreconciled |
| `LedgerFollowsVersions`, `DeletedLeavesNoTrace`, `ObligationsConserved`, `ReconciledIsFrozen` | what the documents and comments say, and does not hold |

### `WalletLedger`

Direct transactions, transfers and `recalculateAccountBalance` lock the wallet
first and are one action each. `setAccountArchiveStatus` and `deleteAccount`
read first and are two, so that a transaction may come in between; no run has
a property about what is left then, see below. The opening balance is modelled as the code writes it: a
`DIRECT` row whose journal is under the `account-open` key, so `IsOpening` is
"has no `wallet-tx` journal". Editing and deleting such a row are separate
`Operations`, so that a run may leave them out. `WalletsAgree` is
`CachesFollowLedger` and `BalanceMatchesRows`, which set the cached balance equal
to the sum over the ledger and to the rows (as `recalculateAccountBalance` counts
them), with `OneJournalInForce`, which ties the journals to the versions of the
rows.

### `Receivables`

Payments (`ReadPay`, `CommitPay`) are the entries of `EntryLedger` seen from the
obligation; here they have no wallet and no later edits. `CommitArchive` contains
`cancelObligationInTx` when the row *read* was open. `CommitSend` raises the
obligation with no posting, as `sendInvoice` does. `Synced` is
`syncInvoiceFromObligation`; nothing in the code writes `OVERDUE`, so the
model has no such status. The payment `sendInvoice` may take at once is an
ordinary `pay` request after it. `updateObligation` changes no money.
`cancelObligation` itself is reached by no route, only by tests, and is not an
action; its inner part is. Stock is two counters per invoice: how often the
goods left and how often they came back. Since a sent invoice never reaches AR,
`ControlsAgree` cannot hold of a run that sends one;
`LedgerCarriesWhatIsOwed` says it of each obligation that was created directly:
what its own journals, its write-off's and its payments' carry on the control
account is what is owed on it.

`VoidSettles` says that an invoice stays `Clean` (a void one has its sale undone
and no payment standing, any other has none of its goods back) but for a step that
ends a void of an invoice changed since it was read (`StaleVoid`), or where the
obligation is archived already. `VoidUndoesSale`,
that a void invoice has its sale undone, is what the comments of `voidInvoice` say.

### `LockOrder`

A transaction runs a plan: a sequence of statements, each a set of rows. Within
a statement rows are locked in the order of `LOCK_RANK` and id, as
`acquireLocks` does. `Victim` is Postgres aborting a member of a cycle;
`withFinancialTransaction` starts the victim again up to `Retries` times, a
plain `$transaction` does not. The plans of the handlers are operators of the
rows they touch: `UpdateEntry`, `DeleteEntry`, `VoidInvoice` and so on; rows of
stock are locked one by one in the order of the lines (`OneByOne`). A plan
*climbs* if every later statement locks rows after those of the earlier ones;
`VoidInvoice`, which updates the invoice before the obligation, and `UpdateEntry`
with stock or an invoice behind it, which claims the entry row before them, do
not; nor does any plan whose lines name their items in another order than that of
their ids.

### `Idempotency`

| Action | Code |
|---|---|
| `Claim`, `Taken` | the insert of the record, and its unique violation |
| `LookupGone`, `LookupDone`, `LookupRefused` | the branches after the lookup |
| `Commit`, `Fail` | the handler, as one transaction that commits or an error |
| `Settle`, `SettleFails`, `Release` | the wrapped `res.json` |
| `Crash` | the process dies, or an error nobody catches |
| `Sweep` | the maintenance job removing an expired record |

Records expire after 24 hours, so `Sweep` is allowed only when no request is
left that owns the record: the model has no clock, and this is all it assumes of
the expiry.

### `ExpenseClaims`

An approval is `ReadReview`, `ClaimRow`, `Post`, `Record`, three transactions
after a read; `HandBack` is the catch block; `Crash` may come between any two.
What is posted is one step here, since `EntryLedger` and `Receivables` have it
in detail.

### `ChartOfAccounts` and `ClaimBooks`

`desk[r]` is what a request at the accountant's desk has read. `create`, `update`,
`archive` and `mapCategory` read and write without a transaction and are a `Read`
and a `Commit` each; so is `closePeriod`, which looks for an overlap and then
writes the row of its start date, whatever that row says by then. `reopenPeriod`
is one action: what it reads, it does not use. A posting has three steps:
`ReadJournal` looks at the accounts, `BeginJournal` is `assertPeriodOpen` in the
transaction, `PostJournal` its end. So has a reversal, of *any* journal, with
`ReversalDay` (`resolveReversalDate`) in the middle.

A journal is its day, the two accounts it moves money between (`System` for those
that are seeded and protected), and the day of its reversal. Amounts are left
out: what a report of a day shows is which journals and reversals are in it
(`Report`).

`ClaimBooks` puts the approval of claims over it. `PostEntry` is `Post` of
`ExpenseClaims` and `PostJournal` at once, after `BeginEntry` has found the day of
the expense open; `PostPayable`, for money the member advanced, is dated today and
looks at no period, as `createObligation` does. An approval that fails or dies in
between (`GiveUp`) takes its transaction along. The composition implements
`ExpenseClaims`, which is proved.

`ReportsStand` asks of every step: a closed day stays closed unless its period is
reopened; once the transactions under way in it have ended (`Begun`), none begins
and its report does not change; and an account with postings keeps its class,
once the changes that counted none have ended (`Reclassing`). It speaks of days
before today, since a reversal may fall on today whatever period today is in.
`ClosingsMeet` allows two closings at one time, with which it fails.

### `StockRoom` and `StockPromise`

`StockPromise` says what other modules may rely on: at any time a document has
moved exactly the lines it stands for now. A document is restated, and the shelf
changes by the difference; anything else moves one item, or takes a rental back.

`StockRoom` is the detailed one, and `KeepsPromise`, the abstract specification
under the mapping "lines are the document's lines, onHand is the stock row", is a
property of its run.

| Action | Code |
|---|---|
| `CreateItem`, `UpdateItem`, `DeactivateItem` | the item handlers |
| `ReadManual`, `CommitManual` | `createTransaction`, whose check of the item comes before its transaction |
| `Book`, `Edit`, `Delete` | entries, wallet transactions and obligations that carry goods: `processStockIn`, `processStockOut`, and `reverseInventoryForReference` before an edit |
| `SendInvoice`, `VoidInvoice` | an invoice that sells and rents |
| `ReadReturn`, `CommitReturn` | `returnRental`, which reads its lines outside the transaction |

A movement is a sequence of operators on a working copy `w` (`StockIn`, `StockOut`,
`Undo`), since one document makes many and one refusal undoes them all. `Taken`
is the draw on lots by FIFO or LIFO, `Average` the running average with the
rounding of its column, `IsReversed` what the code finds out by looking for a
movement that reverses it.

`StockAgrees` sets the stock row against the movements, and the lines of a rental
against the movements that brought goods back: a line never shows more than came
back. It may show less, since two returns in progress together, or a list that
names a line twice, bring goods back twice and are written down once. That no more
comes back than went out, which the check of `returnRental` is there for, is
`BackOnce`, and does not hold.

### `TicketPricing` and `TicketDesk`

`TicketPricing` is `pricing.ts` as operators: the basket becomes heads, each offer
in the order of its priority takes a discount off the heads it may touch, and
what is left is charged. `TicketDesk` calls it where `createSale` does.

| Action | Code |
|---|---|
| `BeginSale`, `LockSale`, `CommitSale` | `createSale`: what it reads first; the lock of the day and what is read under it; the commit |
| `BeginVoid`, `CommitVoid` | `voidSale` |
| `CloseDay`, `ReopenDay` | the day, with the reconciliation of its entries |
| `OpenShift`, `CloseShift` | drawers |
| `CreateSession` ... `DeleteDiscountRule`, `UpdateSettings`, `Provision`, `SetFeature` | configuration |
| `BeginTier`, `FinishTier` | a tier and its rule, written apart |
| `CreateCard`, `UpdateCard`, `BeginRenew`, `FinishRenew` | memberships |
| `BeginBook`, then `EditEntry`, `DeleteEntry` or `ToggleReconciliation` | the book's own handlers on a sale's entry: `updateEntry` with an amount, `deleteEntry`, `toggleReconciliation`, each writing on what it read; the first claims the version it read |
| `NextDate` | the business date moves on |

A user has one request at a time. The sale keeps the lock of its day between
`LockSale` and `CommitSale`, and every other transaction on the day waits for it.
The book knows nothing of days and takes no such lock. So `DeskSafe` sets takings
against the entries nobody edited (`Unedited`) and the closing of a day against the
marks nobody toggled (`flipped`), and `ClosedDayFrozen` lets the entry of a closed
day change by a toggle, or by an edit or deletion that read it unreconciled, and
by nothing else (`Late`). What the document says, that a reconciled entry
is immutable, is `ReconciledIsFinal`, and does not hold.

### `Permissions`

The matrix of workspace permissions by role, the grants of staff tags, and which
roles a role may hand out. `WorkTime` and `Access` ask it; it has no state.

### `WorkTime` and `PeopleOps`

Instants are numbers, `DayLength` of them to a day. A clock-in resolves the
schedule (`Resolved`: an override before the default, the latest first, across
midnight), the window of arrival and the place, looks for an open session, and
writes later (`ClockIn`, `FinishClockIn`): the unique index of open sessions
(`MayOpen`) may refuse. `ClockOut`, `CloseMyOpenSession`, `SetPresence`,
`CreateWorkSession`, `UpdateWorkSession` and the timers and time entries are pairs
of the same kind. The scheduler is `SweepStart`, which collects the forgotten
sessions, `SweepClose`, one transaction each, and `SweepCrash`. `Refusable` is the
check constraint that a session or an interval ends after it began: when a
credited end violates it, the exception ends the tick. `ChangingPolicy` has the
schedules, holidays, settings and sites.

`PeopleOps` adds what is asked for and decided: `RequestLeave`, `ReviewLeave`,
`CancelLeave`, `RequestOvertime`, `ReviewOvertime`, `SubmitWorkReport`,
`ReviewWorkReport`, `WaiveFlag`, each decision a read and a claim (`Claims`: still
pending, of the version read), and the rollup, `RecomputeDay` and `WriteDay`,
`RaiseFlags`.

### `SignIn`, `Access`, `Notices`, `TaskBoard` and `Workspace`

| Module | Actions | Code |
|---|---|---|
| `SignIn` | `RegisterRead`, `RegisterWrite`, `RegisterMail`; `VerifyRead`, `VerifyWrite`, `ForgetCode`; `LoginRead`, `CreateSession`; `GoogleRead`, `GoogleWrite`; `RefreshRead`, `RefreshRevoke`; `Logout`, `LogoutAll`; `ChangeRead`, `ResetRead`, `PasswordWrite`, `PasswordRevoke` | `auth.service.ts`; `CodeExpires` and `FailuresAge` are Redis forgetting |
| `Access` | `InviteRead`, `InviteWrite`, `AcceptRead`, `AcceptWrite`, `DeclineInvite`, `InviteLapses` | `invites.service.ts` |
| | `UpdateMember`, `RemoveMember`, `Import`, each `Read` and `Write`; `JoinBookRead`, `JoinBookWrite` | `members.service.ts`, members of books |
| | `CreateKeyRead`, `UpdateKeyRead`, `ActivateRead`, `ActivateWrite`, `KeyWrite`; `RotateRead`, `RotateWrite`; `RevokeKey` | `api-keys.service.ts`: the books of a key are activated one by one before its row is written |
| `Notices` | `Dispatch`; `Deliver`, `DeliverFails`; `MarkAllRead`, `DeleteNotice`, `CooldownPasses` | the queue and its worker, with up to `Attempts` deliveries of a job |
| `TaskBoard` | tasks, assignments, requests to be assigned, reports: a `Read` and a `Write` each, for a decision `DecideRead`, `DecideClaim`, `DecideCommit` | `tasks.service.ts` |
| | projects and their members; `ScanRead`, `ScanAdd` | `projects.service.ts`, the deadline scheduler |

`Workspace` is the interleaving of them all: a request is made by somebody with a
session (`SignedIn`), roles come from `Access`, and decisions of `TaskBoard` put
jobs into `Notices`. It adds `MembersAreProved`, which relates accounts to
memberships and assignments.

## Runs

TLC finds no error in the whole state space of each instance. Deadlock is not
checked anywhere: identifiers, versions and what clients ask for are finite, so an
instance runs out of things to do, while the system does not. (Deadlock of *locks*
is the property `DeadlocksDescend`.) Requests are symmetric where nothing temporal
but single steps is checked.

| Run | Instance | Shows |
|---|---|---|
| `EntryRaces` | 1 entry, 2 books, 1 wallet, 1 delete request, 2 requests in any overlap, 3 versions; entries created unlinked and linked to the wallet by an edit, edits with and without a version, moves expecting any version, requests for deletion with their review, reconciliations; 689 thousand states | journals and wallet rows stay in step with their entry but for writes on an overtaken reading (`EntriesStayInStep`), the unlocked probe is vouched for (`ProbeIsSafe`), `CachesFollowLedger`, `BooksMatchInStep`, `ReconciledIsKept` |
| `EntryBooks` | 2 entries, 1 book, 1 receivable of 3, 2 requests in any overlap, 2 versions; payments created, edited with and without a version, linked to the receivable, deleted; 547 thousand states | `PaymentsStayCounted` |
| `WalletLedgers` | 2 wallets, 2 transactions, 1 transfer, 2 versions, opening balances that are left alone; 50 thousand states | cached balance, ledger and rows say the same and each row has one journal (`WalletsAgree`) |
| `ReceivableLedgers` | 2 obligations of both types, 1 invoice, 2 payments, 2 requests in all overlaps of two operations but five, voids overlapping with everything; 362 thousand states | `LedgerCarriesWhatIsOwed`; outstanding amounts, payments and invoices agree (`DebtsAgree`); `ArchivingCloses`; what a void leaves behind is left only by one whose invoice changed since its reading (`VoidSettles`) |
| `Locks` | 3 transactions out of 8 plans, two of which do not climb, 10 rows, 1 retry; 274 thousand states | every deadlock has a plan in it that does not climb (`DeadlocksDescend`); `EverySettles` |
| `IdempotencyFaults` | 3 requests, 1 key, 2 bodies, every fault, 2 effects; 509 thousand states | `OneOwner`, `AnswersAreFaithful`, `OwnersActOnce`, `StuckKeysAreFreed` |
| `ClaimsRaces` | 1 claim on a wallet or on the member's own money, every fault, 4 versions; 2 requests, 2 accounts, 2 manual journals, 2 entries or obligations, 3 days; three mixes of the accountant's requests, closings one at a time; 279 thousand states | `VersionPostsOnce`, `ApprovedIsPosted`; the reports of closed days are final (`ReportsStand`) |
| `StockMoves` | 1 item (LIFO, or weighted average with negative stock), an entry, an obligation, an invoice that rents and sells, 7 movements, 2 requests; 127 thousand states | stock rows, movements and the lines of rentals agree (`StockAgrees`); lots, costs and the cost report agree (`CostsAgree`); `StockRoom` implements `StockPromise` (`KeepsPromise`) |
| `TicketNights` | an owner and an attendant, 3 sessions, 4 types, 5 offers, 2 tiers, 2 cards, 2 dates, 2 sales, 1 drawer, 4 requests, the book among them; 154 thousand states | takings, reports and unedited entries agree (`DeskSafe`); nobody oversells (`SeatsHold`) or redeems more than a card allows (`AllowanceHolds`); sales of a closed day stand, and only the book still changes their entries (`ClosedDayFrozen`) |
| `WorkDays` | 1 person in 2 workspaces, 2 requests, 2 days of 3 instants, 2 sessions, 1 crash of the scheduler, four mixes of requests; 448 thousand states | one open session and one timer, intervals without gaps (`ShiftsSafe`); `ClosedStands`; `ForgottenEnds` |
| `PeopleDays` | an owner and a member, 2 requests, 2 days, six mixes of requests; 498 thousand states | booked days are those of approved leave (`LeaveMatches`); `DecisionsStand`; `FlagsSettle` |
| `Workspace` | 4 people, 2 workspaces, 2 books, 2 tasks, 2 projects, 2 requests that may break off, 1 fault of the queue, fourteen mixes of requests; 218 thousand states | `WorkspaceSafe`, `BoardSafe`, `AccessStands`, `BoardStands`, `EveryoneTold` |

What the bounds are, and why they are enough:

- *Entries.* The two requests of `EntryRaces` are enough for a stale read: one
  holds the row while the other takes any sequence of operations, three versions
  of them. Amounts are an income of 2 with a charge of 1 and an expense of 1
  without, so that amount, cash effect and sign all differ. Its books are alike, as
  no obligation names one, and deletions go through a request there, which reads
  the entry before it is decided on; `EntryBooks` has the direct ones. Entries
  created with a wallet, which are those linked to it at once, and edits that take a
  payment off its obligation, are left to the proofs, which cover all operations. In `EntryBooks` a receivable of 3 with payments of 1 and 2 is open, partly
  paid, and would be overpaid by a third, which two creations in progress do try; both
  payments may be given back, and by two deletions at once. Two versions there are
  one edit of each entry between the reads and commits of another request.
- *Wallets.* Two wallets and a transfer with a fee are both signs of a transfer;
  two versions of two transactions are an edit between two others.
- *Receivables.* `MCReceivables!NoneSpoils` leaves out five overlaps: send with
  send, edit or delete; a payment taken back twice, or while its obligation is
  archived. Each of them breaks `DebtsAgree` or `LedgerCarriesWhatIsOwed`. The
  theorems assume three more (`HarmsApart`): void with void, pay or send. Two
  payments of 1 or 2 on totals of 1 or 2 have every status.
- *Locks.* Archiving an obligation, which locks one row, is left out: it can be
  in no cycle. Three transactions allow a cycle of three; cycles of two are what
  the plans of the services can make. The theorem covers any number.
- *Idempotency.* `MaxEffects` bounds how many handlers commit; two are what a
  second effect needs. Three requests are the owner, one that lost the insert,
  and one that comes after the record is gone.
- *Claims.* Four versions are a submission, an attempt that fails and is handed
  back, and one that goes through. The mixes are: a claim while two of a period's
  closing, its reopening and the reversal of the claim's journal are asked for;
  three of these and of manual journals, on three days, so that a period of two
  days can be over; and three changes of the chart beside manual journals. Two
  requests are a posting and the closing that comes in between; the theorems cover
  any number of all of these.
- *Stock.* Rows of one item are locked alone, so one item has all races; the two
  baskets are a purchase at two costs, so that LIFO and the average differ, and a
  sale that draws on both lots. Two requests are the two overlapping returns, and
  `"repeat"` among the operations is the list that names a line twice.
- *Tickets.* Two dates let a day close while another runs; the capacity of 4 is
  under what two sales want; four requests are a sale, a reversal and a closing
  around somebody else's, or a sale, an edit, a closing and a toggle. One card redeems one ticket a day and is asked for two at a
  time, by either of two people; each tier has one offer, as `OneOffer` asks.
- *Shifts.* The shift of the override crosses midnight, and three instants a day
  are before, in and after it. The mixes are: everything that closes a session;
  attendance by hand; timers and entries; policy. Every session of the instance
  has an end to be credited, so that the sweep of one past its ceiling
  (`MAX_SESSION_MINUTES`) is not reached: `ForgottenEnds` is checked of credited ends.
- *People.* A leave of one day inside another of two clashes with it; versions of
  overtime and reports are two decisions on one read.
- *Workspace.* A mix has two to four requests of the kinds that touch the same
  rows, two of them at any time. The worker fails once, below the three
  attempts a job has; with as many failures as attempts a job is lost, and
  `EveryoneTold` says so.

`VersionPostsOnce` is what the compare-and-swap of expense claims does give:
approvers who decided on the *same* version. `OwnersActOnce` is what the
idempotency record gives, whatever fails.

## What does not hold

These are reachable in the models, and were met while the runs were being made as
wide as they are. The first are against something that the repository says. Each
is a property of its module that TLC refutes within seconds when it is checked in
place of the properties of the configuration named.

| Property | Checked in | What happens | Against |
|---|---|---|---|
| `LedgerFollowsVersions` | `EntryRaces.cfg` | a move expects the version that an edit in progress is about to write: its claim succeeds, it reposts the key of the old row, and two journals of one entry are in force (`entries.service.ts:1854`, `:1878`) | "**Editing an entry** reverses the previous version's journal and posts a new one", `docs/accounting-model.md:112` |
| `DeletedLeavesNoTrace` | `EntryRaces.cfg` | a deletion that read the entry before an edit reverses the journal the edit had reversed, and that of the new version survives the entry (`:1205`, `:1352`) | "**Deleting an entry** posts a mirror-image reversing journal", `docs/accounting-model.md:109` |
| `ObligationsConserved` | `EntryBooks.cfg` | two deletions of one payment that overlap both give it back, as nobody looks at `isDeleted` again (`:1205`) | "Open receivables must equal the AR control account", `core/ledger/integrity.service.ts:267` |
| `ReconciledIsFrozen` | `EntryRaces.cfg` | an edit, a move or a deletion that read the entry before it was reconciled goes through, as reconciling bumps no version (`:520`, `cashbooks.service.ts:509`) | "Soft immutability: reconciled entries cannot change money-affecting fields", `entries.service.ts:511` |
| `ReconciledIsFinal` | `TicketNights.cfg` | the same with `closeDay`: the entry of a sale changes or goes on a closed day | "it cannot be deleted, reassigned, or have its money fields edited from anywhere in the application", `docs/ticketing-model.md:209` |
| `VoidUndoesSale` | `ReceivableLedgers.cfg` | an invoice sent, or paid, while it is voided is void, and its obligation or its goods are as before the void (`invoicing.service.ts:589`) | "A bare status flip would leave the receivable sitting on the balance sheet forever", `invoicing.service.ts:585` |
| `BackOnce` | `StockMoves.cfg` | two returns of one rental in progress together, or a list that names a line twice, bring its goods back twice (`inventory.service.ts:1423`) | the check at `inventory.service.ts:1450` |

To see the following, run the model with the constants named.

- *Two journals of one entry in force* by edits without `expectedVersion` that race
  (`MCEntryLedger` with `Operations = {"createUnlinked", "describe"}`:
  `LedgerFollowsVersions`), because they reverse and repost what they read.
- *Opening balances edited or deleted* (`MCWalletLedger`, `Operations = {"direct",
  "editOpening", "deleteOpening"}`: `BalanceMatchesRows`): the journal under
  `account-open` stays.
- *A sent invoice of which AR never hears* (`MCReceivables`, `Operations =
  {"invoice", "send"}`: `ControlsAgree`).
- *A retry that runs without a record* (`MCIdempotency`, `Faults = {"fail"}`:
  `EffectOnce`): it finds the record gone and goes on.
- *A claim posted twice* by a second approver who reads after the first has
  claimed (`MCClaimBooks`: `PostedOnce`).

The money side, besides:

- A delete request approved for an entry that was deleted directly in the
  meantime: the payment is given back to its obligation twice, as by two deletions.
- An income reduced by an edit after it was spent overdraws the wallet, in
  entries and in direct transactions: the overdraft check looks at the sign of
  the new effect only.
- A transaction between the two steps of archiving a wallet, or of deleting it.
- Two operations on one invoice, or on an obligation and its payment, in
  progress together: send with send, edit or delete; the same payment taken back
  twice, or while its obligation is archived. (For voids see the table.)
- A payment of a sent invoice taken back after its obligation was archived leaves a
  balance that a void does not take off, since it leaves a cancelled obligation
  alone.
- A payment taken back after its obligation was archived: owed again, with its
  deferral written off, which `ControlsAgree` shows and
  `LedgerCarriesWhatIsOwed`, which follows the obligation, allows for.
- An obligation archived under a sent invoice leaves the invoice as it was;
  `InvoiceFollowsObligation` is about obligations that are not cancelled.
- Deadlocks between voiding an invoice and paying it, and between an edit with
  stock and a deletion that read the entry in different books. Postgres breaks
  them, the first in a transaction that nobody retries.
- A process that dies after its handler committed leaves the record in progress:
  until it expires, retries are refused and not replayed.
- A claim withdrawn during its approval ends approved, and a posting whose
  recording fails is handed back to be posted again.

The accountant's desk:

- Two closings in progress together pass the search for overlaps both, and with
  the same start the second overwrites the row of the first and may shorten it:
  days that were closed are open, and nobody reopened them (`MCClaimBooks` with
  `ClosingsMeet = TRUE`: `ReportsStand`; `chart-of-accounts.service.ts:547`).
- A reversal out of a closed period is dated today, closed or not
  (`period.ts:66`). `period.ts:14` says of `assertPeriodOpen` that it is called from
  every posting path; it is called by entries and manual journals, and not by
  wallet transactions, transfers, opening balances, obligations or invoices.
- A transaction that has looked at its period commits after the closing:
  `ReportsStand` waits for it (`Begun`).
- Reversing the journal of an approved claim, or of any entry, leaves the claim
  and the entry as they are (`:433`).
- `update` compares the class of a new parent, or a new class, with nothing
  (`:195`); two requests may change the class of an account and post to it.
  `mapCategory` takes archived accounts (`:293`), and `archive` may run into a
  mapping (`:247`).

Inventory and tickets:

- A voided invoice brings back everything a partial
  return has not yet covered by its own reading (`invoicing.service.ts:1118`).
- Units back from rent make no lot though the units that left drew on one, and
  units of an undone purchase may have been drawn before (`:1026`):
  `LotsExplainStock` accounts for both and for nothing else. While stock is
  negative the average cost is no average (`:433`); the cost of a voided
  invoice's sales still counts in the report. Editing a wallet transaction without
  its goods drops them (`account-transactions.service.ts:340`).
- Ticket numbers are unique in a workspace, but the counter is the day's and
  starts at 1 for every session: the sales of a second session on one date are
  refused (`ticketing.service.ts:343`).
- A sale is put on any drawer its seller has open, of whatever day (`:1366`), may
  commit while the drawer is being counted (`:915`), and a drawer opens on a closed
  day (`:854`). A card used in two sessions at once gets its allowance in each,
  and two offers of one tier each give it (`pricing.ts:208`). Two renewals at once
  are paid twice and extend once (`memberships.service.ts:377`). The entry of a
  sale on an open day can be edited or deleted like any other, and its mark
  toggled: the takings then differ from the entries, a toggled mark outlasts the
  closing or opening of its day, and a toggle on a closed day makes the entry
  editable there.

Attendance:

- The sweep credits the end of the shift even to a session that began after it;
  the row refuses, and the exception ends the tick for everybody, at every tick
  (`attendanceScheduler.ts:119`). `ForgottenEnds` excepts this (`Blocking`).
- A closed session may keep an open interval: a clock-out ends the interval it
  found, and a correction by hand ends none. `ShiftsSafe` asks for contiguous
  intervals of *open* sessions.
- A correction by hand keeps the snapshot of the schedule, breaks and overtime,
  and turns a session closed since its reading into `ADMIN_CLOSED`; day rows are
  not refreshed. Searches for overlaps come before the write, so that two
  corrections may overlap. A time entry keeps its day when moved, and a stale
  edit of a running timer starts it again.
- Two rollups of one day at once: the older may be written last, and an early one
  marks people absent. Of several approved overtimes of a day any one counts
  (`rollup.service.ts:193`). An approved report submitted again is pending again.

People, keys and tasks:

- A login that compared the old password may write its session after the
  revocation (`auth.service.ts:164` and `:331`). `SignInSafe` dates a session by the
  password in force when its row is written, and so allows it. Two
  refreshes of one token both succeed (`:230`), and so do two resets with one code
  (`:434`).
- An invitation still open is returned as it is, with its old role, even expired
  (`invites.service.ts:41`). A change of role writes what it decided before another
  change (`members.service.ts:403`). Removing a member looks at no role ceiling, and
  leaves tasks and projects (`:473`).
- Creating a key may fail after some books have got their references
  (`api-keys.service.ts:93`).
- A plain member who created a task may set it `DONE` by `updateTask`
  (`tasks.service.ts:241`), which `:300` and `:961` reserve to approvers.
  `completedAt` and `DONE` come apart (`:321`). Two approvals of different tasks
  exceed a person's capacity (`:834`). A task reopened after an approved report
  cannot be reported again (migration `0010`, line 117). The last project manager
  can be lost to two requests (`projects.service.ts:335`).
- A job without a group that is retried after its row was written makes a second
  row (`notifications.worker.ts:84`); a grouped one makes a read notice unread. Two
  scans at once find no recent notice and enqueue the same reminder twice, without
  a group key (`deadlineScheduler.ts:31`), so that it is written twice.
- The clean-up of stored objects is never scheduled (`s3Cleanup.ts:70`), and
  `deleteExpiredTokens` is never called.

## Fairness

- `LockOrder!FairLockSpec`: a transaction that can take its next lock, go to its
  next statement, commit, or be aborted as a victim, in the end does. The
  database schedules its own sessions and its deadlock detector runs on a timer.
  Weak fairness per transaction is enough, and `Begin` has none: clients owe
  nothing.
- `Idempotency!FairSpec`: the sweep of a record that stays expired in the end
  happens. The server runs it by `setInterval` every hour for as long as it
  lives. Handlers have no fairness: a process may die at any time, and the
  property is about the records such requests leave behind.

- `WorkTime!Spec`: the sweep, while it has something to start or to close, in the
  end takes a step. The scheduler runs by a timer on every replica, one at a time
  under a lock of the database that goes with the replica that dies, and crashes
  are finitely many (`MaxCrashes`). Clients owe nothing: a session nobody ends is
  the case in point.
- `Workspace!WorkspaceSpec`: a job the queue holds is delivered in the end, each
  job on its own. BullMQ gives a job back when its worker fails or dies, up to
  `Attempts` times; failures are fewer than that (`MaxFaults`). Requests have no
  fairness, and may break off for good.

All other specifications are about safety and state no fairness.

## Proofs

TLAPS checks the following for every value of the constants that meets the
modules' assumptions.

| Theorem | Statement | Assumes besides |
|---|---|---|
| `PostingProofs!EveryRuleBalances` | every rule builds legs with equal sides | amounts in range, fees not above an income |
| `PostingProofs!LinesAgreeWithMoney` | the legs of an entry move cash, income and expense by the formulas of `money.ts` | |
| `EntryProofs!TypeCorrect` | `Spec => []TypeOK` | |
| `EntryProofs!EntriesKeepStep` | `Spec => EntriesStayInStep`, whatever overlaps | |
| `EntryProofs!ProbeIsAlwaysSafe` | a claim that succeeds vouches for the unlocked probe of an edit | |
| `EntryProofs!CachesAlwaysFollow` | cached balances are the sums of the lines in force | |
| `EntryProofs!InStepBooksMatch` | `Spec => []BooksMatchInStep`: books and wallets hold what the living entries move, whenever every entry is in step | |
| `EntryProofs!PaymentsAreCounted` | `Spec => PaymentsStayCounted`, whatever overlaps | |
| `EntryProofs!ReconciledStaysKept` | `Spec => ReconciledIsKept`, whatever overlaps | |
| `WalletLedgerProofs!WalletsAlwaysAgree` | cached balance, ledger and rows of a wallet agree | opening balances neither edited nor deleted |
| `ReceivablesProofs!DebtsAlwaysAgree` | outstanding is total less standing payments, and the invoice shows it | `HarmsApart` |
| `ReceivablesProofs!ArchivingAlwaysCloses` | `Spec => ArchivingCloses` | `HarmsApart` |
| `ReceivablesProofs!LedgerAlwaysCarries` | an obligation's own journals carry on its control account what is owed on it | `HarmsApart` |
| `WorkspaceProofs!DeadlocksNeedDescent` | in every set of transactions that wait for one another one has a plan that does not climb | |
| `WorkspaceProofs!ClimbersWaitUpward` | what a climbing transaction still has to lock lies above all it holds | |
| `WorkspaceProofs!ClimbingPlansNeverDeadlock` | no set of transactions waits for itself | every plan climbs |
| `WorkspaceProofs!SingleOwner` | one request at most runs under a record | |
| `WorkspaceProofs!FaithfulAnswers` | a client told of a success is told of its own | |
| `WorkspaceProofs!OwnersCommitOnce` | under one record at most one effect is committed | |
| `ClaimBooksProofs!ApprovalsPostOnce` | approvers of one version post once | |
| `ClaimBooksProofs!ApprovalsAreBacked` | an approved claim names a posting made for it | |
| `ClaimBooksProofs!BooksKeepClaims` | `BooksSpec => Spec`: with the accountant's desk beside them, claims behave as they do alone | |
| `ClaimBooksProofs!ApprovalsStandInBooks` | so both of the above hold there | |
| `ClaimBooksProofs!BooksAreTyped` | `BooksSpec => []ChartTypeOK` | |
| `ClaimBooksProofs!ReportsAreFinal` | `ReportsStand` | `~ClosingsMeet` |
| `WorkspaceProofs!AccessIsSafe` | only the owner is `OWNER`; keys reach the books they name; no reference, and no open invitation of an address to a workspace, is given twice | |
| `WorkspaceProofs!AccessDecisionsStand` | people join by an import or an invitation open at that instant, in the role it names; settled invitations, revoked keys and references stay | |
| `WorkspaceProofs!WorkspaceIsSafe` | `WorkspaceSpec => []WorkspaceSafe`: one account per address and subject, a session does not outlive the password in force when its row was written, access is safe, members are proved, everyone is told once | |
| `WorkspaceProofs!BoardIsSafe` | one waiting request per person and task, one live report per task, nobody on a task that is not there | |
| `WorkspaceProofs!DecisionsStand` | `AccessStands`, with sign-in, tasks and notices beside it | |
| `WorkspaceProofs!ReviewsStand` | requests and reports are decided once, with their effects in the same step | |
| `PeopleOpsProofs!ShiftsHold` | `Spec => []ShiftsSafe` of `WorkTime`: one open session a person, one timer, an open session covered by contiguous intervals | |
| `PeopleOpsProofs!EndsStand` | `Spec => ClosedStands`: what ended a session stands | |
| `PeopleOpsProofs!LeaveHolds` | `PeopleSpec => []LeaveMatches`: booked days belong to approved leave, one a person and day | |
| `PeopleOpsProofs!DecisionsHold` | `PeopleSpec => DecisionsStand` | |
| `PeopleOpsProofs!FlagsHold` | `PeopleSpec => FlagsSettle` | |
| `TicketDeskProofs!DeskHolds` | `Spec => []DeskSafe`: wallets, attendants and types of ticket add up to the takings of a day, and unedited entries carry what their sales took; a closed day is reconciled, but for marks the book toggled | |
| `TicketDeskProofs!NotOversold` | `Spec => []SeatsHold`: no day and no type beyond its capacity, no number twice | |
| `TicketDeskProofs!WithinAllowance` | `Spec => []AllowanceHolds`: a sale brings a card to at most its allowance for the day | `OneOffer` |
| `TicketDeskProofs!ClosedStaysClosed` | `Spec => ClosedDayFrozen`: sales of a closed day stand, and only the book changes their entries | |

**Legs.** `EveryRuleBalances` needs no induction: a rule has five legs, and the
totals are sums of five terms. `LinesAgreeWithMoney` needs that system accounts,
book cash and wallets are different accounts (`RefsDiffer`).

**Types of entries.** `TypeOK` is inductive together with `KnownEntries`: a
commit writes the row of the entry its request holds, so that entry must be in
the table. The work is in showing that each draft is a draft and each delta an
integer.

**Versions.** `EntriesStayInStep` speaks of the step that puts an entry out of
step; the invariant, `EntryVersions!IInv`, says why the others do not. A row read
at the current version equals the current row (`SeenIsPast`), so a write whose
reading is not overtaken reverses the journal in force; every version up to the
current one has its journal and none is ahead (`HistoryIsComplete`), so the
key it posts is new; and what it probed is the wallet (`ProbesHold`), since every
change of a wallet link bumps the version, or deletes the entry
(`VoidedIsDeleted`). None of this asks which requests overlap, or what version a
move expects. An edit with a version that gets through has read the current row:
it compared its version with the row read, and claimed it. The proof has one lemma
for each kind of commit
(`EditInStep`, `MoveInStep`, `DeleteInStep`); the entries a step does not write
stay as they are (`StepsElsewhere`).

**Sums.** A balance is a fold over a set of rows, and what a fold computes seems
to need induction over the set, for which the library's theorem takes a predicate
that no prover here can instantiate. `PostingProofs` does without: a fold that failed
to be additive would fail first on a smallest set (`SmallestSet`), and its own
recursion refutes that. What
follows is what the others cite: adding a row adds its value, taking one away
subtracts it, and a sum does not change with rows outside its set. So a step that
posts, reverses or reposts moves a ledger sum by the drafts' deltas
(`PostingProofs`), which are what `AddDeltas` puts on the caches:
`CachesAlwaysFollow` needs nothing else of the entries than their types and that
a version posted is new. When every entry is in step, the journals in force are
those of living entries at their current versions and say what they say, so that
sums over lines are sums over entries (`InStepBooksMatch`).

**Reconciled entries.** A request that will change an entry's money, book or
obligation, or delete it, has read it unreconciled (`ReadsUnmarked`): every read
asks for it, an approved delete request when it is decided on (`Reversible`), and an
edit that asks nothing touches none of these fields. So `ReconciledIsKept` is what
the code's checks do give, and no more, since nobody looks again.

**Payments.** For `PaymentsStayCounted` a step changes what is owed on an obligation
and what the entries pay on it by one amount: a creation under the check in the
transaction (`Covers`), an edit by what it restores and settles again, a deletion
by what it gives back. The one it deletes must be alive and its row as it was
read, or else the step is a `StaleWrite`; reconciliations and requests for a
deletion touch neither side.

**Wallets.** A wallet's ledger is a sum over journals, its rows a sum over
transactions and transfers. The invariant pairs them: a row that is alive and no
opening row has its journal in force under the key of its version
(`RowsArePosted`), no version is posted ahead (`NoKeyAhead`), and the keys of the
other journals tell what they post (`KeysTell`). Every action then moves the
balance, the sum over the lines and the sum over the rows by one amount. The
hypothesis is a finding, see *Opening balances edited or deleted* under *What does
not hold*: the journal of an opening row is not under the key where
an edit or a deletion looks for it. `WalletLedgers.cfg` omits the two operations as well.

**Debts.** `DebtInv` says of each obligation that what is outstanding is its total
less what is paid and what was written off (`Owing`), that each row has its journals
and no other is there (`RowsAreBooked`), and of each invoice in force that it
`Matches` the one obligation it raised. An obligation that is closed without having
been archived, as that of a void invoice is, is `Dead`: no payment stands on it and
none is under way. What a request has read is `Sound`: a payment about to be taken
back stands, an invoice about to be sent is the draft that was read, an obligation
read as paid is still paid or archived. The last is why archiving closes what it
should although it decides on the row it read before its lock. `HarmsApart`
excludes the five overlaps that `ReceivableLedgers.cfg` leaves out and those of a
void with a send, a payment or another void, for any number of requests, and nothing
else. `VoidSettles`, and the other three properties under those last overlaps, are
model-checked only. What an obligation carries on its control account is a sum
over journals, and `SumMatch` pairs the journals of payments with the payments that
stand one to one.

**Locks.** `LockInv` is the types of plans and rows with `HeldBelowRest`, which speaks of climbing
plans only, so that the others may do what they like. Given it, a climbing
transaction that waits does so for a row above all those it holds. If all
members of a waiting set climbed, take the one whose wanted row is highest
(`LeastNatural` gives it): whoever holds that row waits for a higher one. So one
of them does not climb (`DeadlocksNeedDescent`). `ClimbingPlansNeverDeadlock`
draws the conclusion for plans that all climb, which is the claim of `locks.ts`.

**Idempotency.** Beside `OneOwner`, the invariant says that an owner's record is
there, in progress and for its body (`OwnersHoldRecords`), that what is
recorded as done was committed for that key and body, and that while an effect
under a record is live the record stands and nobody else is to act under it
(`EffectsHoldRecords`).

**Claims.** The versions a claim was posted under, or is about to be, all lie
behind the row's version and differ from each other; a compare-and-swap takes a
version that is not behind. An approval is backed because a request about to
record holds the number of a posting it made (`RecordsArePosted`), and postings
are only ever added.

**Periods.** Every step writes the desk of one request at most, and what a request
takes up is `Sound` for what it has just read (`EveryStepTakesUp`): a posting is
taken up for an open day, a reversal for an open day or today, a change of class
for an account without postings. That nobody begins to write into a closed day is
then immediate, and what is written was begun earlier or is dated today
(`ReportSame`). That the day stays closed needs an invariant, `ClosersInv`: a
closing about to be written is the only one and overlaps no closed period, so that
the row it overwrites is an open one. Types need that a journal under reversal
exists (`ReversalsExist`).

**Access.** `AccessInv` of `WorkspaceProofs` joins the types of the rows with what requests in
flight hold: `Requested` says that each request is `Sound` for the invitations,
books and keys as they are now. That a key in force reaches its books needs it,
since the books of a key are activated one after another by a request that writes
the key last: the books it has done with have a reference, or have been dropped,
and a reference is never taken back. References are unique because a new one is
the next number of `refs`; invitations because the index on open ones refuses the
second (`Open` in `InviteWrite`). `OWNER` stays with the owner because no route
hands it out and the checks refuse changes to the owner's own row: neither looks
at what another request is doing, so neither can be outdated. `AccessStanding` is
the step property; the same case analysis proves both theorems.

**Workspace.** `WorkspaceInv` has a conjunct for each part: `SignInInv`, `AccessInv`,
`PeopleInv`, `BoardInv` and `NoticeInv`. The parts share `req`, so each owns the
program counters of its requests, and a step of one leaves the requests of the
others and their rows as they were (the `Elsewhere` lemmas). What one part
takes from another only grows: an account, once verified, stays verified, so that
whoever was proved when a request was read still is when it writes. A session is
written with the password in force at that instant, and a change of password marks
as settled, with its revocations, a password that was in force by then: so
`settled` never passes `password`, and an unrevoked session is as new as what is
settled. An approval of a request holds its row lock from its check to its last
write, so `BoardSound` may say that the row is still PENDING, and `LocksApart` that
no two approvals hold one row. No two notices are about one event, since a
delivery that finds a row of its group writes none (`NewsKept`).
`BoardStanding` is proved step by step from the same invariant.

**Shifts.** That the intervals of an open session leave no gap and do not overlap is
a sum (`ShiftsSafe`): the closed ones take the time from the clock-in to the start
of the open one. `ShiftInv` says so with the open interval named (`OpenShift`),
since each write closes that interval at an instant and opens the next at the same
one, which adds its length to the sum and moves the start as far. The interval a
request writes to was found earlier (`Found`): it belongs to the session, and began
no later than the instant the request goes by, so that closing it there gives a
length that is not negative. That it is the open one is not remembered but follows
from the conditional write (`StillOpen`), and one open session to a person from the
index (`MayOpen`). The proof needs that what a clock-in credits is in order
(`Fitting`) and what the sweep collected are instants (`Swept`). `ClosedStands` is
proved from `ShiftInv` step by step: only `adjust` writes to a session that ended.

**Days.** `PeopleInv` adds to `ShiftInv` what requests have read (`DeskSound`): the
days a review is about to book are within the request's, a cancellation read a
row that was approved or withdrawn already, and a review of a report holds the content of
the version it names, if that version is still the current one. `LeaveMatches`
follows from `Bookings`; a report another decided on is what the reviewer read
(`Reviewed`) since the claim takes the version. A flag is raised by a clock-out and
by the rollup, each on what it read: the index on flags (`OneFlag`) makes the second
one a stutter, and `DeskSound` says that the rollup itself raises no two of a kind.

**Prices.** Both loops of `quoteSale` are folds, and neither is reasoned about by
induction over its input. The basket is flattened into heads by the recursive
function of the library, for which a smallest counterexample is a number
(`FlattenCounts`): so as many heads of each type come out as were asked for
(`ExpandSound`). The loop over the offers is a fold that takes the *last* offer on
top of the rest; which one is last is determined, since offers have different
identifiers (`LastIsLast`, `LastOfPart`), and a smallest set of offers on which the
fold is wrong is refuted by one turn of the loop (`QuoteHolds`). One turn discounts no
head below zero (`DiscountSound`), keeps its type, and marks as a member's at
most what was left of the allowance (`FewDearest`: `slice` takes that many).

`OneOffer` is the hypothesis of `WithinAllowance` alone: the members' offers of
one tier each take the *whole* of what is left (`pricing.ts:208`), so that two of
them would pass it, which nothing in the code prevents (see *What does not hold*).
A tier comes with one offer, and a desk that configures no second one meets it.

**Tickets.** `DeskInv` joins the types of the rows with three facts. Each sale is
`Sound`: what it charges is the sum over its heads, its entry carries that, a
reversed one has neither posted entry nor redemption. The books are in order
(`SalesOK`): seats within capacity, numbers apart and behind the counter of their day. And
each request is `Answerable`: a sale that holds the lock of its day `Fits` with
the sales there are, which is `SeatsHold` and `AllowanceHolds` said of one request and
not of the state. That is why neither is inductive alone: `Fits` is established when the
row is priced under the lock and must survive whatever others do until the
commit. It does, because others only append sales to *other* days (`Unlocked`,
and one sale in hand for a day), and rewrite sales to their `Kin`: the same seats
on the same day, or none of them (`KinKeep`). A reversal, a mark, an entry edited, deleted
or toggled in the book, and a deleted offer are kin, so one lemma,
`SalesRewritten`, carries them all. That the book writes on an old reading needs
no invariant: an entry with a later version, or a flipped mark, is out of what
`DeskSafe` adds up.
Sums over sales then move by the sale that is appended (`CountsAfter`) and never
grow otherwise (`SumAtMost`). `DeskSafe` follows by adding up one table in two orders
(`SumSwap`, `SumByClass`). `ClosedStaysClosed` needs `Fits` again: what is appended
belongs to a day that is open still.

What stays with TLC: liveness (`EverySettles`, `StuckKeysAreFreed`,
`ForgottenEnds`, `EveryoneTold`), which needs `ENABLED`; voids (`VoidSettles`); and `StockRoom`
(`StockAgrees`, `CostsAgree` and `KeepsPromise`, the refinement of `StockPromise`):
a document there is a composition of draws on a sorted sequence of lots, each on
what the one before it left, and its lemmas would be about that recursion.

## What the models leave out

- Decimals of currencies and rounding (but for the columns of inventory and
  tickets, whose smallest unit is the unit); time zones; interest.
- Fiscal periods, but in `ChartOfAccounts` and `ClaimBooks` (elsewhere every day is
  open); attachments, audit rows, comments, checklists.
- *Chart of accounts*: names and codes of accounts once given; the seeding of the
  chart and the accounts provisioned for books and wallets; that a manual journal
  on a wallet's account moves its cached balance without a row.
- Who may call the money side: its requests are allowed. The people side asks
  `Permissions`.
- Reports and lists, which read only, unless they are what a property is about
  (the day summary of tickets, the cost report of inventory); mail, PDF, export.
- *Inventory*: the handlers' own races are those of `EntryLedger`, `WalletLedger`
  and `Receivables`; a document is one step here.
- *Tickets*: the months, fee and allowance of a tier are fixed; counted amounts of
  drawers and their variance are not kept; the fee of a membership is no row.
- *Attendance*: what a time entry is for; wrap-up notifications; half days, kinds
  of leave, billable minutes and the text of reports; the session `removeMember`
  closes.
- *People*: the expiry of refresh tokens, superadmins, roles within a book, scopes
  and addresses of keys, the deletion of workspaces, which only marks them.
- The components with status `not_modelled` in `PROJECT.json`: files and circuit
  breakers, small machines of their own; and what only reads, or only appends.

## Plan

In this order, by the weight of what can go wrong:

1. `Posting`, `EntryLedger`, `LockOrder`: the entry core. *Done*, with proofs.
2. `WalletLedger`, `Receivables`: the other writers of the ledger. *Done*, with proofs.
3. `Idempotency`, `ExpenseClaims`: what wraps and calls them. *Done*, with proofs.
4. `StockPromise`, `StockRoom`: inventory and its refinement. *Done*; proofs open.
5. `TicketPricing`, `TicketDesk`: the desk. *Done*, with proofs.
6. `Permissions`, `WorkTime`, `PeopleOps`: attendance and decisions. *Done*, with proofs.
7. `Calls`, `SignIn`, `Access`, `Notices`, `TaskBoard`, `Workspace`: people, keys, work
   and the queue. *Done*, with proofs.
8. `ChartOfAccounts`, `ClaimBooks`: posting and reversal against closing and
   reopening, the chart, and their composition with claims. *Done*, with proofs.
   Left: the same composition for the other paths of `EntryLedger`, and
   `recalculateBalance` of a book as a second writer of the caches.
9. Proofs still open: `StockAgrees`, `CostsAgree` and `KeepsPromise` of `StockRoom`.
10. A second refinement: an abstract ledger in which every document has at most
    one journal in force, implemented by `EntryLedger` and by `WalletLedger`.

Modules with theorems are few and keep `RECURSIVE` out of what they extend; sums
are folds of the community modules.

## Running

`tlasany M.tla` parses a module. `tlc -config X.cfg M` checks a run, `tlapm
M.tla` a module of proofs; `PROJECT.json` says which configuration goes with
which module.
