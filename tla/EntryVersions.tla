--------------------------- MODULE EntryVersions ---------------------------
(***************************************************************************)
(* Why versions keep the ledger in step with the entries: the inductive    *)
(* invariant behind EntriesStayInStep and ProbeIsSafe.  It assumes nothing *)
(* of the clients: every operation may overlap with every other.  The      *)
(* proof that it is inductive is in EntryProofs.                           *)
(***************************************************************************)
EXTENDS EntryLedger

(* The request holds an entry that is in the table.                        *)
Holds(q) == q.pc \notin {"idle", "create"}

KnownEntries == \A r \in Requests : Holds(req[r]) => req[r].entry \in DOMAIN entry

(* A create holds an identifier no entry and no other create has.          *)
FreshCreates ==
  \A r \in Requests : req[r].pc = "create" =>
    /\ req[r].entry \notin DOMAIN entry
    /\ \A s \in Requests \ {r} : req[s].pc = "create" => req[s].entry # req[r].entry

JournalsHaveEntries == \A k \in DOMAIN journals : k[1] \in DOMAIN entry

(* Every version of an entry has its journal in the ledger, in force or    *)
(* reversed: no version is skipped and none is posted ahead.               *)
HistoryIsComplete ==
  \A e \in DOMAIN entry : {v \in Versions : <<e, v>> \in DOMAIN journals} = 1 .. entry[e].version

(* What a request read is a past of the row, and the present one when the  *)
(* versions agree.                                                         *)
SeenIsPast ==
  \A r \in Requests :
    LET q == req[r]
    IN  q.pc \in Waiting \union {"review"} =>
          /\ q.seen.version <= entry[q.entry].version
          /\ q.seen.version = entry[q.entry].version =>
               /\ q.seen.book = entry[q.entry].book
               /\ q.seen.money = entry[q.entry].money
               /\ q.seen.obligation = entry[q.entry].obligation

(* A wallet row is voided only when its entry is deleted.                  *)
VoidedIsDeleted == \A e \in DOMAIN walletTx : walletTx[e].voided => entry[e].deleted

(* ProbeIsSafe, and the same for reassignEntry, which does not look at the *)
(* wallet row again: what was probed is so while what was read is.         *)
ProbesHold ==
  \A r \in Requests :
    LET q == req[r]
    IN  q.pc = "commit" =>
          (q.op \in {"edit", "reassign"} => (Current(q) => q.probe = Link(q.entry)))

IInv ==
  /\ TypeOK
  /\ KnownEntries
  /\ FreshCreates
  /\ JournalsHaveEntries
  /\ HistoryIsComplete
  /\ SeenIsPast
  /\ VoidedIsDeleted
  /\ ProbesHold
=============================================================================
