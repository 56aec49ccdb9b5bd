----------------------------- MODULE ClaimBooks -----------------------------
(***************************************************************************)
(* The approval of expense claims and the closing of the books, which meet *)
(* where an approval posts.  A claim on a wallet becomes an entry dated    *)
(* the day the money was spent, posted in a transaction that looks at the  *)
(* period of that day; a claim on the member's own money becomes an        *)
(* obligation dated today, and no period is looked at.  Either journal may *)
(* be reversed at the accountant's desk, of which the claim hears nothing. *)
(***************************************************************************)
EXTENDS ExpenseClaims, ChartOfAccounts

CONSTANT Expenses   \* what members claim: the source of the money, and the day

VARIABLE spent   \* of each claim

bookVars == <<claim, posted, req, today, chart, mapped, journal, period, desk, asked, spent>>

Expense == [source : {"ORG_WALLET", "OWN_MONEY"}, day : Days]

ASSUME ClaimBooksAssumption ==
  /\ Requests = Clerks
  /\ Expenses \subseteq Expense

(* Posting keys are made of uuids: the key of a new entry or obligation is *)
(* not that of another one, posted or about to be.                         *)
Fresh(k) == k \notin DOMAIN journal /\ \A r \in Clerks : At(r, "post") => desk[r].key # k

BooksInit ==
  /\ Init
  /\ ChartInit
  /\ spent \in [Claims -> Expenses]

Of(r) == spent[req[r].claim]

(* postWalletExpense: the transaction of createEntry begins.               *)
BeginEntry(r, key) ==
  /\ req[r].pc = "post" /\ Of(r).source = "ORG_WALLET"
  /\ desk[r] = Free
  /\ Fresh(key)
  /\ IsOpen(Of(r).day)
  /\ Seat(r, [pc |-> "post", key |-> key, row |-> Lines(Of(r).day, System, System)])
  /\ UNCHANGED <<claim, posted, req, today, chart, mapped, journal, period, asked, spent>>

(* The entry and its journal commit together.                              *)
PostEntry(r) ==
  /\ Post(r) /\ Of(r).source = "ORG_WALLET"
  /\ PostJournal(r)
  /\ UNCHANGED spent

(* postReimbursementPayable: the journal of createObligation carries the   *)
(* day it is created.                                                      *)
PostPayable(r, key) ==
  /\ Post(r) /\ Of(r).source = "OWN_MONEY"
  /\ Fresh(key)
  /\ journal' = Put(journal, key, Lines(today, System, System))
  /\ UNCHANGED <<today, chart, mapped, period, desk, asked, spent>>

(* An approval that fails, as it does when the day is closed, or dies      *)
(* takes the transaction of its entry with it.                             *)
GiveUp(r) ==
  /\ HandBack(r) \/ Crash(r)
  /\ Seat(r, Free)
  /\ UNCHANGED <<today, chart, mapped, journal, period, asked, spent>>

(* Everything else that is done to claims.                                 *)
ClaimStep ==
  /\ \/ \E c \in Claims : CreateClaim(c) \/ Withdraw(c)
     \/ \E r \in Requests :
          \/ /\ desk[r] = Free
             /\ \E c \in Claims : ReadAttach(r, c)
                                  \/ \E d \in {"approve", "decline"} : ReadReview(r, c, d)
          \/ CommitAttach(r) \/ Decline(r) \/ ClaimRow(r) \/ Record(r) \/ Refuse(r)
  /\ UNCHANGED <<today, chart, mapped, journal, period, desk, asked, spent>>

(* A request at the accountant's desk is not one about a claim.            *)
DeskStep(r) ==
  /\ req[r] = Idle
  /\ ChartStep(r) \/ JournalStep(r) \/ PeriodStep(r) \/ Leave(r)
  /\ UNCHANGED <<claim, posted, req, spent>>

BooksNext ==
  \/ "claim" \in asked.of /\ ClaimStep
  \/ Tick /\ UNCHANGED <<claim, posted, req, spent>>
  \/ \E r \in Requests :
       \/ \E k \in EntryKeys : BeginEntry(r, k) \/ PostPayable(r, k)
       \/ PostEntry(r) \/ GiveUp(r)
       \/ DeskStep(r)

BooksSpec == BooksInit /\ [][BooksNext]_bookVars
=============================================================================
