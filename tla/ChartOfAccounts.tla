-------------------------- MODULE ChartOfAccounts --------------------------
(***************************************************************************)
(* The accountant's side of the ledger (src/modules/chart-of-accounts and  *)
(* src/core/ledger/period.ts): the accounts a workspace adds to its chart, *)
(* the categories mapped to them, manual journals and their reversal, and  *)
(* the fiscal periods that are closed and reopened.                        *)
(*                                                                         *)
(* Every operation reads before it writes, and nothing it reads is locked: *)
(* desk[r] is what the request r has read and is about to write.  A        *)
(* posting reads twice, the accounts first and the period in its           *)
(* transaction.  What other modules post is theirs; here it is a journal   *)
(* on the accounts of the system.                                          *)
(***************************************************************************)
EXTENDS Naturals

CONSTANTS
  None,          \* no value
  System,        \* stands for the seeded accounts, which are protected
  Accounts,      \* the codes of the accounts that may be added
  Classes,       \* the classes of accounts
  Categories,    \* categories of entries
  References,    \* the posting keys of manual journals
  EntryKeys,     \* the posting keys of what is posted elsewhere
  Clerks,        \* requests that may be in progress at one time
  LastDay,       \* bound on the calendar
  Loads,         \* what clients may ask for in all: kinds of request, and how many;
                 \* with it, how many days there are for it
  ClosingsMeet   \* whether two closings may be in progress at one time

ASSUME ChartAssumption ==
  /\ LastDay \in Nat \ {0}
  /\ ClosingsMeet \in BOOLEAN
  /\ None \notin Accounts /\ System \notin Accounts
  /\ {"INCOME", "EXPENSE"} \cap Classes # {}

Load == [of : SUBSET STRING, left : Nat, days : 1 .. LastDay]

ASSUME LoadsAssumption == Loads \subseteq Load

VARIABLES
  today,     \* the date
  chart,     \* ledger_accounts with origin USER, by code
  mapped,    \* Category.glAccountId
  journal,   \* journal_entries by posting key, with the date of the reversal
  period,    \* fiscal_periods by their start date
  desk,      \* the requests between two of their steps
  asked      \* what clients may still ask for

chartVars == <<today, chart, mapped, journal, period, desk, asked>>

Days == 1 .. LastDay

Account == [class : Classes, parent : Accounts \union {None}, postable : BOOLEAN,
            archived : BOOLEAN]

(* The lines of a journal as the two accounts they move money between; its *)
(* REVERSING journal as the day that one carries, 0 while there is none.   *)
Journal == [day : Days, debit : Accounts \union {System}, credit : Accounts \union {System},
            reversed : Days \union {0}]

Period == [end : Days, closed : BOOLEAN]

Free == [pc |-> "free"]

(* A change of an account gives a new class, or a new parent, or not.      *)
Keep == "keep"

-----------------------------------------------------------------------------
(* Helpers.                                                                *)

Put(f, x, value) == [y \in DOMAIN f \union {x} |-> IF y = x THEN value ELSE f[y]]

At(r, pc) == desk[r].pc = pc

Seat(r, state) == desk' = [desk EXCEPT ![r] = state]

(* A request of this kind arrives, has its first look, and goes on.        *)
Arrive(r, kind, state) ==
  /\ kind \in asked.of /\ asked.left > 0
  /\ asked' = [asked EXCEPT !.left = @ - 1]
  /\ desk[r] = Free
  /\ Seat(r, state)

Covers(s, d) == s \in DOMAIN period /\ s <= d /\ d <= period[s].end

Closed(d) == \E s \in DOMAIN period : period[s].closed /\ Covers(s, d)

(* assertPeriodOpen.                                                       *)
IsOpen(d) == ~Closed(d)

(* Altered form of ReversalDay: the reversal carries the original's date.  *)
ReversalDay_Original(d) == d

(* resolveReversalDate: today for a closed period, closed or not itself.   *)
ReversalDay(d) == IF Closed(d) THEN today ELSE d

HasLines(a) == \E k \in DOMAIN journal : a \in {journal[k].debit, journal[k].credit}

(* Whether a manual journal may name the account.                          *)
Postable(a) == a = System \/ (a \in DOMAIN chart /\ chart[a].postable /\ ~chart[a].archived)

Lines(day, debit, credit) ==
  [day |-> day, debit |-> debit, credit |-> credit, reversed |-> 0]

-----------------------------------------------------------------------------
ChartInit ==
  /\ today = 1
  /\ chart = << >>
  /\ mapped = [c \in Categories |-> None]
  /\ journal = << >>
  /\ period = << >>
  /\ desk = [r \in Clerks |-> Free]
  /\ asked \in Loads

Tick == /\ today < asked.days                                      \* bound
        /\ today' = today + 1
        /\ UNCHANGED <<chart, mapped, journal, period, desk, asked>>

-----------------------------------------------------------------------------
(* The chart.                                                              *)

(* create: the code is new, and a parent is of the class of the child.     *)
ReadCreate(r, a, row) ==
  /\ a \notin DOMAIN chart
  /\ row.parent # None => row.parent \in DOMAIN chart /\ chart[row.parent].class = row.class
  /\ Arrive(r, "create", [pc |-> "create", account |-> a, row |-> row])
  /\ UNCHANGED <<today, chart, mapped, journal, period>>

CommitCreate(r) ==
  /\ At(r, "create")
  /\ desk[r].account \notin DOMAIN chart                  \* unique (workspace, code)
  /\ chart' = Put(chart, desk[r].account, desk[r].row)
  /\ Seat(r, Free)
  /\ UNCHANGED <<today, mapped, journal, period, asked>>

(* update: an account that carries postings keeps its class.  A new parent *)
(* is not compared with the child, nor a new class with either.            *)
MayReclass(a, class) == class \in {Keep, chart[a].class} \/ ~HasLines(a)

ReadUpdate(r, a, class, parent) ==
  /\ a \in DOMAIN chart
  /\ MayReclass(a, class)
  /\ parent \in Accounts => parent \in DOMAIN chart
  /\ Arrive(r, "update", [pc |-> "update", account |-> a, class |-> class, parent |-> parent])
  /\ UNCHANGED <<today, chart, mapped, journal, period>>

Given(new, old) == IF new = Keep THEN old ELSE new

Changed(row, class, parent) ==
  [row EXCEPT !.class = Given(class, row.class), !.parent = Given(parent, row.parent)]

CommitUpdate(r) ==
  /\ At(r, "update")
  /\ chart' = [chart EXCEPT ![desk[r].account] = Changed(@, desk[r].class, desk[r].parent)]
  /\ Seat(r, Free)
  /\ UNCHANGED <<today, mapped, journal, period, asked>>

(* archive: no category may be mapped to the account; lines may be on it.  *)
ReadArchive(r, a) ==
  /\ a \in DOMAIN chart
  /\ \A c \in Categories : mapped[c] # a
  /\ Arrive(r, "archive", [pc |-> "archive", account |-> a])
  /\ UNCHANGED <<today, chart, mapped, journal, period>>

CommitArchive(r) ==
  /\ At(r, "archive")
  /\ chart' = [chart EXCEPT ![desk[r].account].archived = TRUE]
  /\ Seat(r, Free)
  /\ UNCHANGED <<today, mapped, journal, period, asked>>

(* mapCategory: onto an income or expense account, or onto none.           *)
ReadMap(r, c, a) ==
  /\ a # None => /\ a \in DOMAIN chart /\ chart[a].postable
                 /\ chart[a].class \in {"INCOME", "EXPENSE"}
  /\ Arrive(r, "map", [pc |-> "map", category |-> c, account |-> a])
  /\ UNCHANGED <<today, chart, mapped, journal, period>>

CommitMap(r) ==
  /\ At(r, "map")
  /\ mapped' = [mapped EXCEPT ![desk[r].category] = desk[r].account]
  /\ Seat(r, Free)
  /\ UNCHANGED <<today, chart, journal, period, asked>>

-----------------------------------------------------------------------------
(* Journals.                                                               *)

(* postManualJournal: the accounts are looked at, then a transaction       *)
(* begins, which looks at the period, posts, and ends.                     *)
ReadJournal(r, k, row) ==
  /\ Postable(row.debit) /\ Postable(row.credit)
  /\ Arrive(r, "journal", [pc |-> "journal", key |-> k, row |-> row])
  /\ UNCHANGED <<today, chart, mapped, journal, period>>

BeginJournal(r) ==
  /\ At(r, "journal")
  /\ IsOpen(desk[r].row.day)
  /\ Seat(r, [desk[r] EXCEPT !.pc = "post"])
  /\ UNCHANGED <<today, chart, mapped, journal, period, asked>>

(* The end of a posting transaction; a key is used once.                   *)
PostJournal(r) ==
  /\ At(r, "post")
  /\ desk[r].key \notin DOMAIN journal
  /\ journal' = Put(journal, desk[r].key, desk[r].row)
  /\ Seat(r, Free)
  /\ UNCHANGED <<today, chart, mapped, period, asked>>

(* reverseJournal, of any journal that is POSTED: the transaction picks    *)
(* the date of the reversal, and reverse finds the journal as it is then.  *)
ReadReverse(r, k) ==
  /\ k \in DOMAIN journal /\ journal[k].reversed = 0
  /\ Arrive(r, "reverse", [pc |-> "reverse", key |-> k])
  /\ UNCHANGED <<today, chart, mapped, journal, period>>

BeginReverse(r) ==
  /\ At(r, "reverse")
  /\ Seat(r, [pc |-> "mirror", key |-> desk[r].key, day |-> ReversalDay(journal[desk[r].key].day)])
  /\ UNCHANGED <<today, chart, mapped, journal, period, asked>>

PostReversal(r) ==
  /\ At(r, "mirror")
  /\ journal[desk[r].key].reversed = 0
  /\ journal' = [journal EXCEPT ![desk[r].key].reversed = desk[r].day]
  /\ Seat(r, Free)
  /\ UNCHANGED <<today, chart, mapped, period, asked>>

-----------------------------------------------------------------------------
(* Fiscal periods.                                                         *)

(* No period that is closed overlaps the range.                            *)
NoneClosed(start, end) ==
  \A s \in DOMAIN period : period[s].closed => end < s \/ period[s].end < start

(* closePeriod: the overlap is looked for, then the row of this start date *)
(* is written, whatever it says by then.                                   *)
ReadClose(r, start, end) ==
  /\ start <= end
  /\ NoneClosed(start, end)
  /\ ClosingsMeet \/ \A s \in Clerks : ~At(s, "close")              \* bound
  /\ Arrive(r, "close", [pc |-> "close", start |-> start, end |-> end])
  /\ UNCHANGED <<today, chart, mapped, journal, period>>

CommitClose(r) ==
  /\ At(r, "close")
  /\ period' = Put(period, desk[r].start, [end |-> desk[r].end, closed |-> TRUE])
  /\ Seat(r, Free)
  /\ UNCHANGED <<today, chart, mapped, journal, asked>>

(* reopenPeriod: rows are never deleted, so that the read decides nothing. *)
ReopenPeriod(r, s) ==
  /\ s \in DOMAIN period
  /\ Arrive(r, "reopen", Free)
  /\ period' = [period EXCEPT ![s].closed = FALSE]
  /\ UNCHANGED <<today, chart, mapped, journal>>

(* A request that is refused on the way, rolls back or dies.               *)
Leave(r) ==
  /\ desk[r] # Free
  /\ Seat(r, Free)
  /\ UNCHANGED <<today, chart, mapped, journal, period, asked>>

-----------------------------------------------------------------------------
ChartStep(r) ==
  \/ \E a \in Accounts, c \in Classes, p \in Accounts \union {None}, b \in BOOLEAN :
       ReadCreate(r, a, [class |-> c, parent |-> p, postable |-> b, archived |-> FALSE])
  \/ \E a \in Accounts, c \in Classes \union {Keep}, p \in Accounts \union {None, Keep} :
       ReadUpdate(r, a, c, p)
  \/ \E a \in Accounts : ReadArchive(r, a)
  \/ \E c \in Categories, a \in Accounts \union {None} : ReadMap(r, c, a)
  \/ CommitCreate(r) \/ CommitUpdate(r) \/ CommitArchive(r) \/ CommitMap(r)

JournalStep(r) ==
  \/ \E k \in References, d \in 1 .. asked.days, x, y \in Accounts \union {System} :
       ReadJournal(r, k, Lines(d, x, y))
  \/ \E k \in DOMAIN journal : ReadReverse(r, k)
  \/ BeginJournal(r) \/ PostJournal(r) \/ BeginReverse(r) \/ PostReversal(r)

PeriodStep(r) ==
  \/ \E s, e \in 1 .. asked.days : ReadClose(r, s, e)
  \/ CommitClose(r)
  \/ \E s \in Days : ReopenPeriod(r, s)

ChartNext ==
  \/ Tick
  \/ \E r \in Clerks : ChartStep(r) \/ JournalStep(r) \/ PeriodStep(r) \/ Leave(r)

ChartSpec == ChartInit /\ [][ChartNext]_chartVars

-----------------------------------------------------------------------------
(* Properties.                                                             *)

NewJournal == {j \in Journal : j.reversed = 0}

(* What a clerk is about to write.                                         *)
Errand ==
  {Free} \union [pc : {"create"}, account : Accounts, row : Account]
         \union [pc : {"update"}, account : Accounts, class : Classes \union {Keep},
                 parent : Accounts \union {None, Keep}]
         \union [pc : {"archive"}, account : Accounts]
         \union [pc : {"map"}, category : Categories, account : Accounts \union {None}]
         \union [pc : {"journal", "post"}, key : References \union EntryKeys, row : NewJournal]
         \union [pc : {"reverse"}, key : References \union EntryKeys]
         \union [pc : {"mirror"}, key : References \union EntryKeys, day : Days]
         \union [pc : {"close"}, start : Days, end : Days]

ChartTypeOK ==
  /\ today \in Days
  /\ DOMAIN chart \subseteq Accounts
  /\ \A a \in DOMAIN chart : chart[a] \in Account
  /\ mapped \in [Categories -> Accounts \union {None}]
  /\ DOMAIN journal \subseteq References \union EntryKeys
  /\ \A k \in DOMAIN journal : journal[k] \in Journal
  /\ DOMAIN period \subseteq Days
  /\ \A s \in DOMAIN period : period[s] \in Period
  /\ desk \in [Clerks -> Errand]
  /\ asked \in Load

(* What the reports of a day show, and the transactions that are to write  *)
(* into it and have looked at its period.                                  *)
Report(d) == {<<k, "posted">> : k \in {j \in DOMAIN journal : journal[j].day = d}}
       \union {<<k, "reversed">> : k \in {j \in DOMAIN journal : journal[j].reversed = d}}

Begun(d) == {r \in Clerks : \/ At(r, "post") /\ desk[r].row.day = d
                            \/ At(r, "mirror") /\ desk[r].day = d}

Reopened(d) ==
  \E s \in DOMAIN period :
    /\ period[s].closed /\ Covers(s, d)
    /\ period'[s] = [period[s] EXCEPT !.closed = FALSE]

(* A day in a closed period stays in one until that period is reopened,    *)
(* and once the transactions that were under way have ended, nothing       *)
(* writes into it any more, reversals of what stands there included.       *)
DayStands(d) ==
  Closed(d) =>
    /\ Closed(d)' \/ Reopened(d)
    /\ Begun(d) = {} => Begun(d)' = {} /\ Report(d)' = Report(d)

Reclassing(a) ==
  {r \in Clerks : At(r, "update") /\ desk[r].account = a
                                 /\ desk[r].class \notin {Keep, chart[a].class}}

(* Nor does an account with postings change the section it reports under,  *)
(* once the changes that counted none have ended.                          *)
ClassStands(a) ==
  HasLines(a) /\ Reclassing(a) = {} =>
    Reclassing(a)' = {} /\ chart'[a].class = chart[a].class

(* The reports of days that are over and closed are final, though the      *)
(* period is read without a lock, by every path of these modules.          *)
ReportsStand ==
  [][/\ \A d \in Days : d < today => DayStands(d)
     /\ \A a \in DOMAIN chart : ClassStands(a)]_chartVars
=============================================================================
