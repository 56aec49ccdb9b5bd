----------------------------- MODULE LockOrder -----------------------------
(***************************************************************************)
(* Row locks of the financial transactions: acquireLocks of                *)
(* core/db/locks.ts, the row locks the handlers take besides it, and the   *)
(* deadlock victim and retry of core/db/transaction.ts.                    *)
(*                                                                         *)
(* A transaction is a plan: a sequence of statements, each of which locks  *)
(* a set of rows for update, in the order of their positions.  A lock is   *)
(* held until the transaction ends.  What the transaction does with the    *)
(* rows is left out.                                                       *)
(***************************************************************************)
EXTENDS Integers, Sequences, FiniteSets

CONSTANTS
  Transactions,  \* transactions that may be open at one time
  Rows,          \* rows: records of the table they are in and their id
  Position,      \* the global order of rows: by rank of the table, then by id
  MaxPosition,
  Plans,         \* the plans clients can set off
  Retries        \* attempts after the first; none for a plain $transaction

Tables == {"WORKSPACE", "TICKET_DAY", "TICKET_SHIFT", "CASHBOOK", "LEDGER_ACCOUNT",
           "WALLET_ACCOUNT", "OBLIGATION", "INVOICE", "INVENTORY_STOCK",
           "INVENTORY_LOT", "ENTRY"}

LOCK_RANK ==
  [WORKSPACE |-> 0, TICKET_DAY |-> 1, TICKET_SHIFT |-> 2, CASHBOOK |-> 3,
   LEDGER_ACCOUNT |-> 4, WALLET_ACCOUNT |-> 5, OBLIGATION |-> 6, INVOICE |-> 7,
   INVENTORY_STOCK |-> 8, INVENTORY_LOT |-> 9, ENTRY |-> 10]

(* A plan: its statements, and whether its wrapper retries.                *)
Plan == [statements : Seq(SUBSET Rows), retried : BOOLEAN]

ASSUME PositionAssumption ==
  /\ MaxPosition \in Nat
  /\ Position \in [Rows -> 0 .. MaxPosition]
  /\ \A r, s \in Rows : Position[r] = Position[s] => r = s
  /\ \A r, s \in Rows : LOCK_RANK[r.table] < LOCK_RANK[s.table] => Position[r] < Position[s]

ASSUME PlansAssumption == Plans \subseteq Plan /\ Retries \in Nat

VARIABLES
  status,    \* of each transaction
  plan,      \* what it runs
  at,        \* the statement it is at
  held,      \* the rows it has locked
  attempts   \* how often it was the victim of a deadlock

lockVars == <<status, plan, at, held, attempts>>

NoPlan == [statements |-> << >>, retried |-> FALSE]

LockTypeOK ==
  /\ status \in [Transactions -> {"idle", "running", "committed", "failed"}]
  /\ plan \in [Transactions -> Plans \union {NoPlan}]
  /\ at \in [Transactions -> Nat]
  /\ held \in [Transactions -> SUBSET Rows]
  /\ attempts \in [Transactions -> 0 .. Retries + 1]

Before(r, s) == Position[r] < Position[s]

Length(t) == Len(plan[t].statements)

(* The rows the current statement still has to lock; a row the transaction *)
(* holds already costs nothing.                                            *)
Missing(t) == IF status[t] = "running" /\ at[t] <= Length(t)
              THEN plan[t].statements[at[t]] \ held[t] ELSE {}

(* Altered form of NextRow: a handler that also reaches invoices and stock  *)
(* locks its rows as it lists them, the obligation first.                  *)
NextRow_AsListed(t) ==
  CHOOSE r \in Missing(t) : \A s \in Missing(t) :
    r = s \/ (IF Length(t) > 2 THEN Before(s, r) ELSE Before(r, s))

(* ORDER BY id FOR UPDATE, table by table: the lowest row comes first.     *)
NextRow(t) == CHOOSE r \in Missing(t) : \A s \in Missing(t) : r = s \/ Before(r, s)

WaitsFor(t, u) == t # u /\ held[u] # {} /\ Missing(t) # {} /\ NextRow(t) \in held[u]

(* Transactions that all wait for one another.                             *)
Deadlocked(S) == S # {} /\ \A t \in S : \E u \in S : WaitsFor(t, u)

LockInit ==
  /\ status = [t \in Transactions |-> "idle"]
  /\ plan = [t \in Transactions |-> NoPlan]
  /\ at = [t \in Transactions |-> 1]
  /\ held = [t \in Transactions |-> {}]
  /\ attempts = [t \in Transactions |-> 0]

Begin(t, p) ==
  /\ status[t] = "idle"
  /\ status' = [status EXCEPT ![t] = "running"]
  /\ plan' = [plan EXCEPT ![t] = p]
  /\ UNCHANGED <<at, held, attempts>>

Lock(t) ==
  /\ Missing(t) # {}
  /\ \A u \in Transactions \ {t} : NextRow(t) \notin held[u]
  /\ held' = [held EXCEPT ![t] = @ \union {NextRow(t)}]
  /\ UNCHANGED <<status, plan, at, attempts>>

NextStatement(t) ==
  /\ status[t] = "running"
  /\ at[t] <= Length(t)
  /\ Missing(t) = {}
  /\ at' = [at EXCEPT ![t] = @ + 1]
  /\ UNCHANGED <<status, plan, held, attempts>>

CommitLocks(t) ==
  /\ status[t] = "running"
  /\ at[t] > Length(t)
  /\ status' = [status EXCEPT ![t] = "committed"]
  /\ held' = [held EXCEPT ![t] = {}]
  /\ UNCHANGED <<plan, at, attempts>>

(* Altered form of Victim: the retry is made inside the transaction, which *)
(* keeps its rows and begins to count again.                               *)
Victim_Inside(t) ==
  /\ \E S \in SUBSET Transactions : t \in S /\ Deadlocked(S)
  /\ held' = IF plan[t].retried THEN held ELSE [held EXCEPT ![t] = {}]
  /\ at' = [at EXCEPT ![t] = 1]
  /\ status' = [status EXCEPT ![t] = IF plan[t].retried THEN "running" ELSE "failed"]
  /\ UNCHANGED <<plan, attempts>>

(* Postgres finds the cycle and aborts one of its transactions; the        *)
(* wrapper starts it again from the beginning, a bounded number of times.  *)
Victim(t) ==
  /\ \E S \in SUBSET Transactions : t \in S /\ Deadlocked(S)
  /\ held' = [held EXCEPT ![t] = {}]
  /\ at' = [at EXCEPT ![t] = 1]
  /\ attempts' = [attempts EXCEPT ![t] = @ + 1]
  /\ status' = [status EXCEPT ![t] = IF plan[t].retried /\ attempts[t] < Retries
                                     THEN "running" ELSE "failed"]
  /\ UNCHANGED plan

LockNext ==
  \E t \in Transactions :
    \/ \E p \in Plans : Begin(t, p)
    \/ Lock(t)
    \/ NextStatement(t)
    \/ CommitLocks(t)
    \/ Victim(t)

(* The scheduler of the database runs whatever can run.                    *)
Fairness ==
  \A t \in Transactions :
    /\ WF_lockVars(Lock(t)) /\ WF_lockVars(NextStatement(t))
    /\ WF_lockVars(CommitLocks(t)) /\ WF_lockVars(Victim(t))

LockSpec == LockInit /\ [][LockNext]_lockVars

FairLockSpec == LockSpec /\ Fairness

-----------------------------------------------------------------------------
(* The plans of the code, as operators of the rows they touch.             *)

WithRetries(statements) == [statements |-> statements, retried |-> TRUE]
Plain(statements)   == [statements |-> statements, retried |-> FALSE]

(* processStockIn, processStockOut and reverseInventoryMovements lock the   *)
(* stock of one item at a time, in the order of the lines or movements.    *)
OneByOne(items) == [i \in DOMAIN items |-> {items[i]}]

(* createEntryWithin: one acquireLocks, then the invoice behind the        *)
(* obligation and the stock of its inventory lines.                        *)
CreateEntry(financial, invoices, items) ==
  WithRetries(<<financial, invoices>> \o OneByOne(items))

(* updateEntry claims the entry row right after acquireLocks, and takes    *)
(* the old movements back before it makes the new ones; deletion reaches   *)
(* the entry row last.                                                     *)
UpdateEntry(financial, e, invoices, items) ==
  WithRetries(<<financial, {e}, invoices>> \o OneByOne(items))

DeleteEntry(financial, e, invoices, items) ==
  WithRetries(<<financial, invoices>> \o OneByOne(items) \o <<{e}>>)

(* reassignEntry locks both books.                                         *)
ReassignEntry(financial, e) == WithRetries(<<financial, {e}>>)

(* transferBetweenAccounts, and a direct wallet transaction with one.      *)
MoveWallets(wallets) == WithRetries(<<wallets>>)

(* createSale: the day, then the entry it posts.                           *)
SellTickets(day, financial) == WithRetries(<<{day}, financial>>)

(* closeDay: the day, then every entry of its sales is reconciled.         *)
CloseDay(day, entries) == WithRetries(<<{day}, entries>>)

(* voidInvoice: a plain transaction that updates the invoice, then the     *)
(* obligation behind it, then the stock it returns.                        *)
VoidInvoice(invoice, o, items) == Plain(<<{invoice}, {o}>> \o OneByOne(items))

-----------------------------------------------------------------------------
(* Properties.                                                             *)

(* A plan that climbs: what a later statement locks comes after what the   *)
(* earlier ones locked, as LOCK_RANK asks of nested locks.                 *)
Climbs(p) ==
  \A i, j \in DOMAIN p.statements : i < j =>
    \A r \in p.statements[i], s \in p.statements[j] : Before(r, s)

(* The claim of locks.ts, made precise: a transaction whose plan climbs is *)
(* never to blame.  In every set of transactions that wait for one another *)
(* there is one whose plan goes down.                                      *)
DeadlocksDescend ==
  \A S \in SUBSET Transactions : Deadlocked(S) => \E t \in S : ~Climbs(plan[t])

(* What makes it so: whatever a climbing transaction still has to lock     *)
(* comes after every row it holds, so it only ever waits upward.           *)
HeldBelowRest ==
  \A t \in Transactions : Climbs(plan[t]) =>
    \A i \in at[t] .. Length(t) :
      \A r \in held[t], s \in plan[t].statements[i] \ held[t] : Before(r, s)

(* Every transaction that begins is settled: no wait lasts for ever.       *)
EverySettles == \A t \in Transactions : status[t] = "running" ~> status[t] # "running"
=============================================================================
