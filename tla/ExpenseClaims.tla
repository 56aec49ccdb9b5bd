--------------------------- MODULE ExpenseClaims ---------------------------
(***************************************************************************)
(* Expense claims and their approval (src/modules/expense-claims).         *)
(*                                                                         *)
(* An approval is three transactions: the row is claimed by a              *)
(* compare-and-swap on its version, the entry or the obligation is posted, *)
(* and the posting is recorded on the row, which until then stays PENDING. *)
(* Other requests, a failure or the end of the process may come between    *)
(* any two of them.                                                        *)
(*                                                                         *)
(* posted[c] lists what was posted for the claim c, each posting as the    *)
(* version of the row under which its review claimed it.                   *)
(***************************************************************************)
EXTENDS Naturals, Sequences, FiniteSets

CONSTANTS
  Claims,       \* identifiers of claims
  Requests,     \* requests that may be in progress at one time
  Operations,   \* what the members of the workspace do
  Faults,       \* what may go wrong in an approval
  MaxVersion    \* bound on the version of a claim

AllOperations == {"withdraw", "approve", "decline"}
AllFaults     == {"post", "record", "crash"}

ASSUME ClaimsAssumption ==
  /\ Operations \subseteq AllOperations
  /\ Faults \subseteq AllFaults
  /\ MaxVersion \in Nat

VARIABLES
  claim,    \* task_expense_claims
  posted,   \* the entries and obligations that stand for a claim in the books
  req       \* the requests in progress

vars == <<claim, posted, req>>

Statuses == {"PENDING", "APPROVED", "REJECTED", "WITHDRAWN"}

Claim == [status : Statuses, version : Nat, receipt : BOOLEAN, posting : Nat]

Idle    == [pc |-> "idle"]
Request ==
  {Idle} \union [pc : {"attach"}, claim : Claims]
         \union [pc : {"approve", "decline", "post"}, claim : Claims, version : Nat]
         \union [pc : {"record"}, claim : Claims, version : Nat, posting : Nat]

TypeOK ==
  /\ DOMAIN claim \subseteq Claims
  /\ \A c \in DOMAIN claim : claim[c] \in Claim
  /\ posted \in [Claims -> Seq(Nat)]
  /\ req \in [Requests -> Request]

-----------------------------------------------------------------------------
Become(r, state) == req' = [req EXCEPT ![r] = state]

(* Altered form of CAS: without the version.                               *)
CAS_AnyVersion(c, version) == claim[c].status = "PENDING"

(* where: { status: PENDING, version }.                                    *)
CAS(c, version) == claim[c].status = "PENDING" /\ claim[c].version = version

Init ==
  /\ claim = << >>
  /\ posted = [c \in Claims |-> << >>]
  /\ req = [r \in Requests |-> Idle]

CreateClaim(c) ==
  /\ c \notin DOMAIN claim
  /\ claim' = [x \in DOMAIN claim \union {c} |->
                 IF x # c THEN claim[x]
                 ELSE [status |-> "PENDING", version |-> 1, receipt |-> FALSE, posting |-> 0]]
  /\ UNCHANGED <<posted, req>>

(* attachReceipt: the status is read, the file uploaded, and then the row  *)
(* of the attachment written.                                              *)
ReadAttach(r, c) ==
  /\ req[r] = Idle
  /\ c \in DOMAIN claim /\ claim[c].status = "PENDING"
  /\ Become(r, [pc |-> "attach", claim |-> c])
  /\ UNCHANGED <<claim, posted>>

CommitAttach(r) ==
  /\ req[r].pc = "attach"
  /\ claim' = [claim EXCEPT ![req[r].claim].receipt = TRUE]
  /\ Become(r, Idle)
  /\ UNCHANGED posted

(* withdrawClaim: the version stays.                                       *)
Withdraw(c) ==
  /\ "withdraw" \in Operations
  /\ c \in DOMAIN claim /\ claim[c].status = "PENDING"
  /\ claim' = [claim EXCEPT ![c].status = "WITHDRAWN"]
  /\ UNCHANGED <<posted, req>>

-----------------------------------------------------------------------------
(* reviewClaim.                                                            *)
ReadReview(r, c, decision) ==
  /\ decision \in Operations
  /\ req[r] = Idle
  /\ c \in DOMAIN claim /\ claim[c].status = "PENDING"
  /\ Become(r, [pc |-> decision, claim |-> c, version |-> claim[c].version])
  /\ UNCHANGED <<claim, posted>>

Decline(r) ==
  LET c == req[r].claim
  IN /\ req[r].pc = "decline"
     /\ CAS(c, req[r].version)
     /\ claim[c].version < MaxVersion                                \* bound
     /\ claim' = [claim EXCEPT ![c].status = "REJECTED", ![c].version = @ + 1]
     /\ Become(r, Idle)
     /\ UNCHANGED posted

(* approve, up to the claim of the row; no receipt is taken off a claim.  *)
ClaimRow(r) ==
  LET c == req[r].claim
  IN /\ req[r].pc = "approve"
     /\ claim[c].receipt
     /\ CAS(c, req[r].version)
     /\ claim[c].version < MaxVersion                                \* bound
     /\ claim' = [claim EXCEPT ![c].version = @ + 1]
     /\ Become(r, [req[r] EXCEPT !.pc = "post"])
     /\ UNCHANGED posted

(* postWalletExpense or postReimbursementPayable.                          *)
Post(r) ==
  LET c == req[r].claim
  IN /\ req[r].pc = "post"
     /\ posted' = [posted EXCEPT ![c] = Append(@, req[r].version)]
     /\ Become(r, [pc |-> "record", claim |-> c, version |-> req[r].version,
                   posting |-> Len(posted[c]) + 1])
     /\ UNCHANGED claim

(* Altered form of Approved: the decision is recorded, the posting is not. *)
Approved_Bare(row, posting) == [row EXCEPT !.status = "APPROVED"]

Approved(row, posting) == [row EXCEPT !.status = "APPROVED", !.posting = posting]

Record(r) ==
  /\ req[r].pc = "record"
  /\ claim' = [claim EXCEPT ![req[r].claim] = Approved(@, req[r].posting)]
  /\ Become(r, Idle)
  /\ UNCHANGED posted

(* The catch of approve: posting or recording failed, and the row is       *)
(* handed back if it is still pending.                                     *)
HandBack(r) ==
  LET c == req[r].claim
  IN /\ req[r].pc \in Faults \intersect {"post", "record"}
     /\ claim[c].version < MaxVersion                                \* bound
     /\ claim' = IF claim[c].status = "PENDING"
                 THEN [claim EXCEPT ![c].version = @ + 1]
                 ELSE claim
     /\ Become(r, Idle)
     /\ UNCHANGED posted

(* The process dies in the middle of an approval.                          *)
Crash(r) ==
  /\ "crash" \in Faults
  /\ req[r].pc \in {"post", "record"}
  /\ Become(r, Idle)
  /\ UNCHANGED <<claim, posted>>

(* A request that is refused, or fails before it has written anything.     *)
Refuse(r) ==
  /\ req[r].pc \in {"attach", "approve", "decline"}
  /\ Become(r, Idle)
  /\ UNCHANGED <<claim, posted>>

-----------------------------------------------------------------------------
Next ==
  \/ \E c \in Claims : CreateClaim(c) \/ Withdraw(c)
  \/ \E r \in Requests :
       \/ \E c \in Claims : ReadAttach(r, c)
       \/ CommitAttach(r)
       \/ \E c \in Claims, d \in {"approve", "decline"} : ReadReview(r, c, d)
       \/ Decline(r)
       \/ ClaimRow(r) \/ Post(r) \/ Record(r) \/ HandBack(r)
       \/ Crash(r)
       \/ Refuse(r)

Spec == Init /\ [][Next]_vars

-----------------------------------------------------------------------------
(* Properties.                                                             *)

(* Approvers that decided on the same version of a claim do not both post. *)
VersionPostsOnce ==
  \A c \in Claims : \A i, j \in 1 .. Len(posted[c]) : posted[c][i] = posted[c][j] => i = j

(* "Posting exactly once": never more than one posting for a claim.        *)
PostedOnce == \A c \in Claims : Len(posted[c]) <= 1

(* An approved claim names a posting that was made for it, whatever raced  *)
(* with its approval: no claim is approved on the strength of nothing.     *)
ApprovedIsPosted ==
  \A c \in DOMAIN claim : claim[c].status = "APPROVED" =>
    claim[c].posting \in 1 .. Len(posted[c])

(* The inductive invariant of VersionPostsOnce: the versions under which a *)
(* claim was posted, or is about to be, lie behind the version of its row, *)
(* and no two of them are the same.                                        *)
PostedBehind ==
  \A c \in Claims : \A i \in 1 .. Len(posted[c]) :
    c \in DOMAIN claim /\ posted[c][i] < claim[c].version

ReviewsBehind ==
  \A r \in Requests : req[r].pc = "post" =>
    req[r].claim \in DOMAIN claim /\ req[r].version < claim[req[r].claim].version

ReviewsDistinct ==
  \A r \in Requests : req[r].pc = "post" =>
    /\ \A i \in 1 .. Len(posted[req[r].claim]) : posted[req[r].claim][i] # req[r].version
    /\ \A s \in Requests :
         req[s].pc = "post" /\ req[s].claim = req[r].claim /\ req[s].version = req[r].version
           => s = r

ReviewsExist == \A r \in Requests : req[r] # Idle => req[r].claim \in DOMAIN claim

VersionInv ==
  /\ TypeOK
  /\ ReviewsExist
  /\ PostedBehind
  /\ ReviewsBehind
  /\ ReviewsDistinct
  /\ VersionPostsOnce

(* What ApprovedIsPosted rests on: an approval records a posting it made.  *)
RecordsArePosted ==
  \A r \in Requests : req[r].pc = "record" =>
    req[r].posting \in 1 .. Len(posted[req[r].claim])

Backed == RecordsArePosted /\ ApprovedIsPosted

IInv == VersionInv /\ Backed
=============================================================================
