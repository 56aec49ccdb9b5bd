-------------------------- MODULE ClaimBooksProofs --------------------------
(* What the compare-and-swap of an approval is worth, for any number of    *)
(* claims and of requests and whatever goes wrong; what closing the books  *)
(* is worth, for any number of accounts, journals and days, while no two   *)
(* closings meet; and that the accountant takes nothing away from what     *)
(* ExpenseClaims promises.                                                 *)
EXTENDS ClaimBooks, SequenceTheorems, TLAPS

(* What the operations make of a row.                                      *)
WithReceipt(row)    == [row EXCEPT !.receipt = TRUE]
WithVersion(row, n) == [row EXCEPT !.version = n]
Declined(row, n)    == [row EXCEPT !.status = "REJECTED", !.version = n]

(* It is a row, and its version is what it is said to be.                  *)
LEMMA ReceiptRow ==
  ASSUME NEW row \in Claim
  PROVE  WithReceipt(row) \in Claim /\ WithReceipt(row).version = row.version
BY DEF WithReceipt, Claim

LEMMA ApprovedRow ==
  ASSUME NEW row \in Claim, NEW n \in Nat
  PROVE  Approved(row, n) \in Claim /\ Approved(row, n).version = row.version
BY DEF Approved, Claim, Statuses

LEMMA VersionRow ==
  ASSUME NEW row \in Claim, NEW n \in Nat
  PROVE  WithVersion(row, n) \in Claim /\ WithVersion(row, n).version = n
BY DEF WithVersion, Claim

LEMMA DeclinedRow ==
  ASSUME NEW row \in Claim, NEW n \in Nat
  PROVE  Declined(row, n) \in Claim /\ Declined(row, n).version = n
BY DEF Declined, Claim, Statuses

LEMMA Successor == \A n \in Nat : \E m \in Nat : m = n + 1 /\ n <= m
<1> TAKE n \in Nat
<1> WITNESS n + 1 \in Nat
<1> QED
  OBVIOUS

LEMMA InitInv == Init => VersionInv
<1> SUFFICES ASSUME Init PROVE VersionInv
  OBVIOUS
<1>1. /\ DOMAIN claim = {}
      /\ posted \in [Claims -> Seq(Nat)] /\ \A c \in Claims : posted[c] = << >>
      /\ req \in [Requests -> Request] /\ \A r \in Requests : req[r] = Idle /\ req[r].pc = "idle"
  BY DEF Init, Idle, Request
<1>2. \A c \in Claims : 1 .. Len(posted[c]) = {}
  BY <1>1
<1> QED
  BY <1>1, <1>2 DEF VersionInv, TypeOK, ReviewsExist, PostedBehind, ReviewsBehind, ReviewsDistinct,
                    VersionPostsOnce

(* A step that posts nothing and claims no row keeps the invariant, as     *)
(* long as no version goes back and no claim goes away.                    *)
LEMMA QuietStep ==
  ASSUME VersionInv, TypeOK', ReviewsExist', UNCHANGED posted,
         DOMAIN claim \subseteq DOMAIN claim',
         \A c \in DOMAIN claim : claim[c].version <= claim'[c].version,
         \A r \in Requests : req'[r].pc = "post" => req'[r] = req[r]
  PROVE  VersionInv'
<1>1. /\ \A c \in DOMAIN claim : claim[c].version \in Nat
      /\ \A c \in DOMAIN claim' : claim'[c].version \in Nat
      /\ \A c \in Claims : posted[c] \in Seq(Nat)
      /\ \A r \in Requests : req[r] \in Request
  BY DEF VersionInv, TypeOK, Claim
<1>2. PostedBehind'
  <2> SUFFICES ASSUME NEW c \in Claims, NEW i \in 1 .. Len(posted[c])
               PROVE  c \in DOMAIN claim' /\ posted[c][i] < claim'[c].version
    BY DEF PostedBehind
  <2>1. c \in DOMAIN claim /\ posted[c][i] < claim[c].version
    BY DEF VersionInv, PostedBehind
  <2>2. posted[c][i] \in Nat
    BY <1>1, ElementOfSeq
  <2> QED
    BY <1>1, <2>1, <2>2
<1>3. ReviewsBehind'
  <2> SUFFICES ASSUME NEW r \in Requests, req'[r].pc = "post"
               PROVE  req'[r].claim \in DOMAIN claim' /\ req'[r].version < claim'[req'[r].claim].version
    BY DEF ReviewsBehind
  <2> PICK c : c = req[r].claim
    OBVIOUS
  <2> PICK v : v = req[r].version
    OBVIOUS
  <2>1. req'[r] = req[r] /\ c \in DOMAIN claim /\ v < claim[c].version
    BY DEF VersionInv, ReviewsBehind
  <2>2. v \in Nat
    BY <1>1, <2>1 DEF Request, Idle
  <2>3. c \in DOMAIN claim' /\ v < claim'[c].version
    BY <1>1, <2>1, <2>2
  <2> QED
    BY <2>1, <2>3
<1>4. ReviewsDistinct' /\ VersionPostsOnce'
  BY DEF VersionInv, ReviewsDistinct, VersionPostsOnce
<1> QED
  BY <1>2, <1>3, <1>4 DEF VersionInv

-----------------------------------------------------------------------------
LEMMA NextInv == VersionInv /\ [Next]_vars => VersionInv'
<1> SUFFICES ASSUME VersionInv, [Next]_vars PROVE VersionInv'
  OBVIOUS
<1>t. /\ DOMAIN claim \subseteq Claims /\ \A c \in DOMAIN claim : claim[c] \in Claim
      /\ \A c \in DOMAIN claim : claim[c].version \in Nat
      /\ posted \in [Claims -> Seq(Nat)] /\ req \in [Requests -> Request]
      /\ \A r \in Requests : req[r] # Idle => req[r].claim \in DOMAIN claim
  BY DEF VersionInv, TypeOK, Claim, ReviewsExist
<1>i. Idle \in Request /\ Idle.pc = "idle"
  BY DEF Idle, Request
<1>1. CASE UNCHANGED vars
  BY <1>1 DEF vars, VersionInv, TypeOK, ReviewsExist, PostedBehind, ReviewsBehind, ReviewsDistinct,
              VersionPostsOnce
<1>2. ASSUME NEW c \in Claims, CreateClaim(c) PROVE VersionInv'
  <2> DEFINE row == [status |-> "PENDING", version |-> 1, receipt |-> FALSE, posting |-> 0]
  <2>1. /\ claim' = [x \in DOMAIN claim \union {c} |-> IF x # c THEN claim[x] ELSE row]
        /\ c \notin DOMAIN claim /\ UNCHANGED <<posted, req>>
    BY <1>2 DEF CreateClaim
  <2>2. row \in Claim
    BY DEF Claim, Statuses
  <2>3. TypeOK' /\ ReviewsExist'
    BY <1>t, <2>1, <2>2 DEF TypeOK, ReviewsExist
  <2>4. \A x \in DOMAIN claim : x \in DOMAIN claim' /\ claim'[x] = claim[x]
    BY <2>1
  <2> QED
    BY <1>t, <2>1, <2>3, <2>4, QuietStep
(* The row of one claim is rewritten, and the request r goes on to state s *)
(* with the claim it had, or is over.                                      *)
<1>3. ASSUME NEW r \in Requests, NEW s \in Request, Become(r, s), s.pc # "post",
             UNCHANGED posted,
             s # Idle => s.claim \in DOMAIN claim,
             NEW c \in DOMAIN claim, NEW row \in Claim, claim[c].version <= row.version,
             claim' = [claim EXCEPT ![c] = row] \/ UNCHANGED claim
      PROVE  VersionInv'
  <2>1. req' = [req EXCEPT ![r] = s]
    BY <1>3 DEF Become
  <2>2. /\ DOMAIN claim' = DOMAIN claim
        /\ \A x \in DOMAIN claim : claim'[x] = claim[x] \/ (x = c /\ claim'[x] = row)
    BY <1>3
  <2>3. TypeOK'
    BY <1>t, <1>3, <2>1, <2>2 DEF TypeOK
  <2>4. ReviewsExist'
    BY <1>t, <1>3, <2>1, <2>2 DEF ReviewsExist
  <2>5. \A x \in DOMAIN claim : claim[x].version <= claim'[x].version
    BY <1>t, <1>3, <2>2
  <2>6. \A q \in Requests : req'[q].pc = "post" => req'[q] = req[q]
    BY <1>t, <1>3, <2>1
  <2> QED
    BY <1>3, <2>2, <2>3, <2>4, <2>5, <2>6, QuietStep
<1>4. ASSUME NEW c \in Claims, Withdraw(c) PROVE VersionInv'
  <2>1. /\ c \in DOMAIN claim /\ UNCHANGED <<posted, req>>
        /\ claim' = [claim EXCEPT ![c].status = "WITHDRAWN"]
    BY <1>4 DEF Withdraw
  <2>2. DOMAIN claim' = DOMAIN claim
        /\ \A x \in DOMAIN claim : claim'[x] \in Claim /\ claim'[x].version = claim[x].version
    BY <1>t, <2>1 DEF Claim, Statuses
  <2>3. TypeOK' /\ ReviewsExist'
    BY <1>t, <2>1, <2>2 DEF TypeOK, ReviewsExist
  <2> QED
    BY <1>t, <2>1, <2>2, <2>3, QuietStep
<1>5. ASSUME NEW r \in Requests, NEW c \in Claims,
             ReadAttach(r, c) \/ ReadReview(r, c, "approve") \/ ReadReview(r, c, "decline")
      PROVE  VersionInv'
  <2> PICK s : Become(r, s) /\ s.claim = c /\ s.pc # "post" /\ s \in Request
               /\ c \in DOMAIN claim /\ UNCHANGED <<claim, posted>>
    BY <1>5, <1>t DEF ReadAttach, ReadReview, Request
  <2> QED
    BY <1>t, <1>3
<1>6. ASSUME NEW r \in Requests,
             CommitAttach(r) \/ Decline(r) \/ Record(r) \/ HandBack(r) \/ Crash(r) \/ Refuse(r)
      PROVE  VersionInv'
  <2>1. req[r] # Idle
    BY <1>6, <1>i DEF CommitAttach, Decline, Record, HandBack, Crash, Refuse
  <2> PICK c \in DOMAIN claim : c = req[r].claim
    BY <1>t, <2>1
  <2>2. /\ Become(r, Idle) /\ UNCHANGED posted
        /\ \/ UNCHANGED claim
           \/ claim' = [claim EXCEPT ![c].receipt = TRUE]
           \/ claim' = [claim EXCEPT ![c].status = "REJECTED", ![c].version = @ + 1]
           \/ \E n \in Nat : claim' = [claim EXCEPT ![c] = Approved(@, n)]
           \/ claim' = [claim EXCEPT ![c].version = @ + 1]
    <3>1. CASE Record(r)
      <4>1. req[r] \in Request /\ req[r].pc = "record"
        BY <1>t, <3>1 DEF Record
      <4>2. req[r].posting \in Nat
        BY <4>1 DEF Request, Idle
      <4> QED
        BY <3>1, <4>2 DEF Record
    <3> QED
      BY <1>6, <3>1 DEF CommitAttach, Decline, HandBack, Crash, Refuse
  <2>3. \E row \in Claim : claim[c].version <= row.version
                           /\ (claim' = [claim EXCEPT ![c] = row] \/ UNCHANGED claim)
    <3>1. claim[c] \in Claim /\ claim[c].version \in Nat
      BY <1>t
    <3> PICK n \in Nat : n = claim[c].version + 1 /\ claim[c].version <= n
      BY <3>1, Successor
    <3>2. CASE UNCHANGED claim
      BY <3>1, <3>2
    <3>3. CASE claim' = [claim EXCEPT ![c].receipt = TRUE]
      <4>1. claim' = [claim EXCEPT ![c] = WithReceipt(claim[c])]
        BY <3>3 DEF WithReceipt
      <4>2. WithReceipt(claim[c]) \in Claim /\ claim[c].version <= WithReceipt(claim[c]).version
        BY <3>1, ReceiptRow
      <4> QED
        BY <4>1, <4>2
    <3>4. CASE claim' = [claim EXCEPT ![c].status = "REJECTED", ![c].version = @ + 1]
      <4>1. claim' = [claim EXCEPT ![c] = Declined(claim[c], n)]
        BY <3>1, <3>4 DEF Declined, Claim
      <4> QED
        BY <3>1, <4>1, DeclinedRow
    <3>5. CASE \E m \in Nat : claim' = [claim EXCEPT ![c] = Approved(@, m)]
      <4> PICK m \in Nat : claim' = [claim EXCEPT ![c] = Approved(claim[c], m)]
        BY <3>5
      <4>1. Approved(claim[c], m) \in Claim /\ Approved(claim[c], m).version = claim[c].version
        BY <3>1, ApprovedRow
      <4>2. claim[c].version <= Approved(claim[c], m).version
        BY <3>1, <4>1
      <4> QED
        BY <4>1, <4>2
    <3>6. CASE claim' = [claim EXCEPT ![c].version = @ + 1]
      <4>1. claim' = [claim EXCEPT ![c] = WithVersion(claim[c], n)]
        BY <3>6 DEF WithVersion
      <4> QED
        BY <3>1, <4>1, VersionRow
    <3> QED
      BY <2>2, <3>2, <3>3, <3>4, <3>5, <3>6
  <2> QED
    BY <1>i, <2>2, <2>3, <1>3
<1>7. ASSUME NEW r \in Requests, ClaimRow(r) PROVE VersionInv'
  <2>1. req[r] \in Request /\ req[r].pc = "approve" /\ req[r] # Idle
    BY <1>7, <1>t, <1>i DEF ClaimRow
  <2> PICK c \in DOMAIN claim : c = req[r].claim
    BY <1>t, <2>1
  <2> PICK v \in Nat : v = req[r].version
    BY <2>1 DEF Request, Idle
  <2> DEFINE s == [req[r] EXCEPT !.pc = "post"]
  <2>2. /\ claim[c].version = v
        /\ claim' = [claim EXCEPT ![c].version = v + 1]
        /\ req' = [req EXCEPT ![r] = s] /\ UNCHANGED posted
    BY <1>7 DEF ClaimRow, CAS, Become
  <2>3. s \in Request /\ s.pc = "post" /\ s.claim = c /\ s.version = v
    BY <1>t, <2>1 DEF Request, Idle
  <2>4. /\ DOMAIN claim' = DOMAIN claim
        /\ \A x \in DOMAIN claim : claim'[x] \in Claim /\ claim[x].version <= claim'[x].version
        /\ claim'[c].version = v + 1
    <3>1. /\ DOMAIN claim' = DOMAIN claim /\ \A x \in DOMAIN claim : x # c => claim'[x] = claim[x]
          /\ claim'[c] = WithVersion(claim[c], v + 1)
      BY <2>2 DEF WithVersion
    <3>2. claim'[c] \in Claim /\ claim'[c].version = v + 1
      <4>1. v + 1 \in Nat /\ claim[c] \in Claim
        BY <1>t
      <4> QED
        BY <3>1, <4>1, VersionRow
    <3> QED
      BY <1>t, <2>2, <3>1, <3>2
  <2>5. req'[r] = s /\ \A q \in Requests : q # r => req'[q] = req[q]
    BY <1>t, <2>2
  <2>6. TypeOK' /\ ReviewsExist'
    BY <1>t, <2>2, <2>3, <2>4, <2>5 DEF TypeOK, ReviewsExist
  <2> HIDE DEF s
  <2>7. \A x \in Claims : \A i \in 1 .. Len(posted[x]) :
           /\ posted[x][i] \in Nat /\ x \in DOMAIN claim
           /\ posted[x][i] < claim[x].version
    BY <1>t, ElementOfSeq DEF VersionInv, PostedBehind
  <2>8. PostedBehind'
    <3> SUFFICES ASSUME NEW x \in Claims, NEW i \in 1 .. Len(posted[x])
                 PROVE  x \in DOMAIN claim' /\ posted[x][i] < claim'[x].version
      BY <2>2 DEF PostedBehind
    <3>1. claim'[x].version \in Nat /\ claim[x].version \in Nat
      BY <1>t, <2>4, <2>7 DEF Claim
    <3> QED
      BY <2>4, <2>7, <3>1
  <2>9. \A q \in Requests : req[q].pc = "post" =>
          /\ req[q].version \in Nat /\ req[q].claim \in DOMAIN claim
          /\ req[q].version < claim[req[q].claim].version
    BY <1>t DEF VersionInv, ReviewsBehind, Request, Idle
  <2>10. ReviewsBehind'
    <3> SUFFICES ASSUME NEW q \in Requests, req'[q].pc = "post"
                 PROVE  req'[q].claim \in DOMAIN claim'
                        /\ req'[q].version < claim'[req'[q].claim].version
      BY DEF ReviewsBehind
    <3>1. CASE q = r
      BY <3>1, <2>3, <2>4, <2>5
    <3>2. CASE q # r
      <4> PICK x \in DOMAIN claim : x = req[q].claim
        BY <3>2, <2>5, <2>9
      <4>1. req'[q] = req[q] /\ req[q].version \in Nat /\ req[q].version < claim[x].version
        BY <3>2, <2>5, <2>9
      <4>2. claim'[x].version \in Nat /\ claim[x].version \in Nat
            /\ claim[x].version <= claim'[x].version
        BY <1>t, <2>4 DEF Claim
      <4> QED
        BY <2>4, <4>1, <4>2
    <3> QED
      BY <3>1, <3>2
  <2>11. \A q \in Requests : q # r /\ req[q].pc = "post" /\ req[q].claim = c => req[q].version # v
    BY <2>2, <2>9
  <2>12. \A i \in 1 .. Len(posted[c]) : posted[c][i] # v
    BY <1>t, <2>2, <2>7
  <2>13. ReviewsDistinct'
    BY <2>2, <2>3, <2>5, <2>11, <2>12 DEF VersionInv, ReviewsDistinct
  <2>14. VersionPostsOnce'
    BY <2>2 DEF VersionInv, VersionPostsOnce
  <2> QED
    BY <2>6, <2>8, <2>10, <2>13, <2>14 DEF VersionInv
<1>8. ASSUME NEW r \in Requests, Post(r) PROVE VersionInv'
  <2>1. req[r] \in Request /\ req[r].pc = "post" /\ req[r] # Idle
    BY <1>8, <1>t, <1>i DEF Post
  <2> PICK c \in DOMAIN claim : c = req[r].claim
    BY <1>t, <2>1
  <2> PICK v \in Nat : v = req[r].version
    BY <2>1 DEF Request, Idle
  <2> PICK p : p = posted[c]
    OBVIOUS
  <2> DEFINE s == [pc |-> "record", claim |-> c, version |-> v, posting |-> Len(p) + 1]
  <2>2. p \in Seq(Nat) /\ Len(p) \in Nat /\ c \in Claims
    BY <1>t, LenProperties
  <2>3. /\ posted' = [posted EXCEPT ![c] = Append(p, v)]
        /\ req' = [req EXCEPT ![r] = s] /\ UNCHANGED claim
    BY <1>8 DEF Post, Become
  <2>4. s \in Request /\ s.pc = "record" /\ s.claim = c /\ s # Idle
    BY <2>2 DEF Request, Idle
  <2>5. req'[r] = s /\ \A q \in Requests : q # r => req'[q] = req[q]
    BY <1>t, <2>3
  <2>6. /\ Append(p, v) \in Seq(Nat) /\ Len(Append(p, v)) = Len(p) + 1
        /\ \A i \in 1 .. Len(p) : Append(p, v)[i] = p[i]
        /\ Append(p, v)[Len(p) + 1] = v
    BY <2>2, AppendProperties
  <2>7. posted'[c] = Append(p, v) /\ \A x \in Claims : x # c => posted'[x] = posted[x]
    BY <1>t, <2>2, <2>3
  <2>8. TypeOK' /\ ReviewsExist'
    BY <1>t, <2>3, <2>4, <2>5, <2>6 DEF VersionInv, TypeOK, ReviewsExist
  <2> HIDE DEF s
  <2>9. v < claim[c].version /\ \A i \in 1 .. Len(p) : p[i] # v
    BY <2>1 DEF VersionInv, ReviewsBehind, ReviewsDistinct
  <2>10. PostedBehind'
    <3> SUFFICES ASSUME NEW x \in Claims, NEW i \in 1 .. Len(posted'[x])
                 PROVE  x \in DOMAIN claim /\ posted'[x][i] < claim[x].version
      BY <2>3 DEF PostedBehind
    <3>1. CASE x # c
      BY <3>1, <2>7 DEF VersionInv, PostedBehind
    <3>2. CASE x = c
      <4>1. i \in 1 .. Len(p) \/ i = Len(p) + 1
        BY <3>2, <2>2, <2>6, <2>7
      <4>2. CASE i \in 1 .. Len(p)
        BY <3>2, <4>2, <2>6, <2>7 DEF VersionInv, PostedBehind
      <4> QED
        BY <3>2, <4>1, <4>2, <2>6, <2>7, <2>9
    <3> QED
      BY <3>1, <3>2
  <2>11. ReviewsBehind'
    BY <2>3, <2>4, <2>5 DEF VersionInv, ReviewsBehind
  <2>12. ReviewsDistinct'
    <3> SUFFICES ASSUME NEW q \in Requests, req'[q].pc = "post"
                 PROVE  /\ \A i \in 1 .. Len(posted'[req'[q].claim]) :
                             posted'[req'[q].claim][i] # req'[q].version
                        /\ \A z \in Requests :
                             req'[z].pc = "post" /\ req'[z].claim = req'[q].claim
                               /\ req'[z].version = req'[q].version => z = q
      BY DEF ReviewsDistinct
    <3>1. q # r /\ req'[q] = req[q]
      BY <2>4, <2>5
    <3>2. \A z \in Requests : req'[z].pc = "post" => req'[z] = req[z]
      BY <2>4, <2>5
    <3> PICK x : x = req[q].claim
      OBVIOUS
    <3>3. x \in Claims /\ (x = c => req[q].version # v)
      BY <1>t, <1>i, <2>1, <3>1 DEF VersionInv, ReviewsDistinct
    <3>4. \A i \in 1 .. Len(posted[x]) : posted[x][i] # req[q].version
      BY <3>1 DEF VersionInv, ReviewsDistinct
    <3>5. \A i \in 1 .. Len(posted'[x]) : posted'[x][i] # req[q].version
      <4>1. CASE x # c
        BY <4>1, <2>7, <3>3, <3>4
      <4>2. CASE x = c
        BY <4>2, <2>2, <2>6, <2>7, <3>3, <3>4
      <4> QED
        BY <4>1, <4>2
    <3>6. \A z \in Requests : req[z].pc = "post" /\ req[z].claim = x
                               /\ req[z].version = req[q].version => z = q
      BY <3>1 DEF VersionInv, ReviewsDistinct
    <3> QED
      BY <3>1, <3>2, <3>5, <3>6
  <2>13. VersionPostsOnce'
    <3> SUFFICES ASSUME NEW x \in Claims,
                        NEW i \in 1 .. Len(posted'[x]), NEW j \in 1 .. Len(posted'[x]),
                        posted'[x][i] = posted'[x][j]
                 PROVE  i = j
      BY DEF VersionPostsOnce
    <3>1. CASE x # c
      BY <3>1, <2>7 DEF VersionInv, VersionPostsOnce
    <3>2. CASE x = c
      <4>0. Len(posted'[x]) = Len(p) + 1
        BY <3>2, <2>6, <2>7
      <4>1. /\ i \in 1 .. Len(p) \/ i = Len(p) + 1
            /\ j \in 1 .. Len(p) \/ j = Len(p) + 1
        <5>1. \A n \in Nat : \A k \in 1 .. n + 1 : k \in 1 .. n \/ k = n + 1
          OBVIOUS
        <5> QED
          BY <4>0, <5>1, <2>2
      <4>2. \A m, n \in 1 .. Len(p) : p[m] = p[n] => m = n
        BY <2>2 DEF VersionInv, VersionPostsOnce
      <4> QED
        BY <3>2, <4>1, <4>2, <2>6, <2>7, <2>9
    <3> QED
      BY <3>1, <3>2
  <2> QED
    BY <2>8, <2>10, <2>11, <2>12, <2>13 DEF VersionInv
<1> QED
  BY <1>1, <1>2, <1>4, <1>5, <1>6, <1>7, <1>8 DEF Next

-----------------------------------------------------------------------------
(* A step that posts, records and approves nothing.                        *)
LEMMA QuietBacked ==
  ASSUME VersionInv, Backed, UNCHANGED posted,
         \A r \in Requests : req'[r].pc = "record" => req'[r] = req[r],
         \A c \in DOMAIN claim' : claim'[c].status = "APPROVED" =>
           /\ c \in DOMAIN claim /\ claim[c].status = "APPROVED"
           /\ claim'[c].posting = claim[c].posting
  PROVE  Backed'
BY DEF Backed, RecordsArePosted, ApprovedIsPosted

LEMMA NextBacked == VersionInv /\ Backed /\ [Next]_vars => Backed'
<1> SUFFICES ASSUME VersionInv, Backed, [Next]_vars PROVE Backed'
  OBVIOUS
<1>t. /\ DOMAIN claim \subseteq Claims /\ \A c \in DOMAIN claim : claim[c] \in Claim
      /\ posted \in [Claims -> Seq(Nat)] /\ req \in [Requests -> Request]
      /\ \A r \in Requests : req[r] # Idle => req[r].claim \in DOMAIN claim
  BY DEF VersionInv, TypeOK, ReviewsExist
<1>i. Idle.pc = "idle"
  BY DEF Idle
<1>1. CASE UNCHANGED vars
  BY <1>1, QuietBacked DEF vars
<1>2. ASSUME NEW c \in Claims, CreateClaim(c) \/ Withdraw(c) PROVE Backed'
  <2>1. UNCHANGED <<posted, req>>
    BY <1>2 DEF CreateClaim, Withdraw
  <2>2. ASSUME NEW x \in DOMAIN claim', claim'[x].status = "APPROVED"
        PROVE  x \in DOMAIN claim /\ claim'[x] = claim[x]
    <3>1. CASE CreateClaim(c)
      BY <2>2, <3>1 DEF CreateClaim
    <3>2. CASE Withdraw(c)
      BY <1>t, <2>2, <3>2 DEF Withdraw, Claim
    <3> QED
      BY <1>2, <3>1, <3>2
  <2> QED
    BY <2>1, <2>2, QuietBacked
<1>3. ASSUME NEW r \in Requests, NEW s, req' = [req EXCEPT ![r] = s], s.pc # "record",
             UNCHANGED posted, DOMAIN claim' = DOMAIN claim,
             \A x \in DOMAIN claim : claim'[x].status = "APPROVED" =>
               claim[x].status = "APPROVED" /\ claim'[x].posting = claim[x].posting
      PROVE  Backed'
  <2>1. \A q \in Requests : req'[q].pc = "record" => req'[q] = req[q]
    BY <1>t, <1>3
  <2> QED
    BY <1>3, <2>1, QuietBacked
<1>4. ASSUME NEW r \in Requests, NEW c \in Claims,
             ReadAttach(r, c) \/ ReadReview(r, c, "approve") \/ ReadReview(r, c, "decline")
      PROVE  Backed'
  <2> PICK v : v = claim[c].version
    OBVIOUS
  <2> DEFINE s == [pc |-> "attach", claim |-> c]
             t(d) == [pc |-> d, claim |-> c, version |-> v]
  <2>1. UNCHANGED <<claim, posted>>
    BY <1>4 DEF ReadAttach, ReadReview
  <2>2. \/ req' = [req EXCEPT ![r] = s]
        \/ req' = [req EXCEPT ![r] = t("approve")]
        \/ req' = [req EXCEPT ![r] = t("decline")]
    BY <1>4 DEF ReadAttach, ReadReview, Become
  <2>3. s.pc # "record" /\ t("approve").pc # "record" /\ t("decline").pc # "record"
    OBVIOUS
  <2> HIDE DEF s, t
  <2> QED
    BY <2>1, <2>2, <2>3, <1>3
<1>5. ASSUME NEW r \in Requests,
             CommitAttach(r) \/ Decline(r) \/ ClaimRow(r) \/ HandBack(r) \/ Crash(r) \/ Refuse(r)
      PROVE  Backed'
  <2>1. req[r] # Idle
    BY <1>5, <1>i DEF CommitAttach, Decline, ClaimRow, HandBack, Crash, Refuse
  <2> PICK c \in DOMAIN claim : c = req[r].claim
    BY <1>t, <2>1
  <2>2. /\ UNCHANGED posted
        /\ \/ UNCHANGED claim
           \/ claim' = [claim EXCEPT ![c].receipt = TRUE]
           \/ claim' = [claim EXCEPT ![c].status = "REJECTED", ![c].version = @ + 1]
           \/ claim' = [claim EXCEPT ![c].version = @ + 1]
    BY <1>5 DEF CommitAttach, Decline, ClaimRow, HandBack, Crash, Refuse
  <2>3. DOMAIN claim' = DOMAIN claim
        /\ \A x \in DOMAIN claim : claim'[x].status = "APPROVED" =>
             claim[x].status = "APPROVED" /\ claim'[x].posting = claim[x].posting
    <3>1. CASE UNCHANGED claim
      BY <3>1
    <3>2. CASE claim' = [claim EXCEPT ![c].receipt = TRUE]
      BY <1>t, <3>2 DEF Claim
    <3>3. CASE claim' = [claim EXCEPT ![c].status = "REJECTED", ![c].version = @ + 1]
      BY <1>t, <3>3 DEF Claim
    <3>4. CASE claim' = [claim EXCEPT ![c].version = @ + 1]
      BY <1>t, <3>4 DEF Claim
    <3> QED
      BY <2>2, <3>1, <3>2, <3>3, <3>4
  <2>4. \E s : req' = [req EXCEPT ![r] = s] /\ s.pc # "record"
    <3>1. CASE ClaimRow(r)
      <4>1. req[r] \in Request /\ req[r].pc = "approve"
        BY <1>t, <3>1 DEF ClaimRow
      <4> DEFINE s == [req[r] EXCEPT !.pc = "post"]
      <4>2. s.pc = "post"
        BY <4>1 DEF Request, Idle
      <4>3. req' = [req EXCEPT ![r] = s]
        BY <3>1 DEF ClaimRow, Become
      <4> HIDE DEF s
      <4> QED
        BY <4>2, <4>3
    <3> QED
      BY <1>5, <1>i, <3>1 DEF CommitAttach, Decline, HandBack, Crash, Refuse, Become
  <2> QED
    BY <2>2, <2>3, <2>4, <1>3
<1>6. ASSUME NEW r \in Requests, Record(r) PROVE Backed'
  <2>1. req[r] \in Request /\ req[r].pc = "record" /\ req[r] # Idle
    BY <1>6, <1>t, <1>i DEF Record
  <2> PICK c \in DOMAIN claim : c = req[r].claim
    BY <1>t, <2>1
  <2> PICK n : n = req[r].posting
    OBVIOUS
  <2>2. n \in 1 .. Len(posted[c])
    BY <2>1 DEF Backed, RecordsArePosted
  <2>3. /\ claim' = [claim EXCEPT ![c] = Approved(claim[c], n)] /\ UNCHANGED posted
        /\ req' = [req EXCEPT ![r] = Idle]
    BY <1>6 DEF Record, Become
  <2>4. Approved(claim[c], n).posting = n
    BY <1>t DEF Approved, Claim
  <2>5. ApprovedIsPosted'
    BY <2>2, <2>3, <2>4 DEF Backed, ApprovedIsPosted
  <2>6. RecordsArePosted'
    BY <1>t, <1>i, <2>3 DEF Backed, RecordsArePosted
  <2> QED
    BY <2>5, <2>6 DEF Backed
<1>7. ASSUME NEW r \in Requests, Post(r) PROVE Backed'
  <2>1. req[r] \in Request /\ req[r].pc = "post" /\ req[r] # Idle
    BY <1>7, <1>t, <1>i DEF Post
  <2> PICK c \in DOMAIN claim : c = req[r].claim
    BY <1>t, <2>1
  <2> PICK v \in Nat : v = req[r].version
    BY <2>1 DEF Request, Idle
  <2> PICK p : p = posted[c]
    OBVIOUS
  <2> DEFINE s == [pc |-> "record", claim |-> c, version |-> v, posting |-> Len(p) + 1]
  <2>2. /\ posted' = [posted EXCEPT ![c] = Append(p, v)]
        /\ req' = [req EXCEPT ![r] = s] /\ UNCHANGED claim
    BY <1>7 DEF Post, Become
  <2>3. p \in Seq(Nat) /\ Len(p) \in Nat /\ c \in Claims
    BY <1>t, LenProperties
  <2>4. Len(Append(p, v)) = Len(p) + 1
    BY <2>3, AppendProperties
  <2>5. /\ posted'[c] = Append(p, v) /\ Len(posted'[c]) = Len(p) + 1
        /\ \A x \in Claims : x # c => posted'[x] = posted[x]
    BY <1>t, <2>2, <2>3, <2>4
  <2>6. \A x \in Claims : 1 .. Len(posted[x]) \subseteq 1 .. Len(posted'[x])
    BY <2>3, <2>5
  <2>7. ApprovedIsPosted'
    BY <1>t, <2>2, <2>6 DEF Backed, ApprovedIsPosted
  <2>8. ASSUME NEW q \in Requests, req'[q].pc = "record"
        PROVE  req'[q].posting \in 1 .. Len(posted'[req'[q].claim])
    <3>1. CASE q = r
      BY <1>t, <2>2, <2>3, <2>5, <3>1
    <3>2. CASE q # r
      <4>1. req'[q] = req[q] /\ req[q] # Idle
        BY <1>t, <1>i, <2>2, <2>8, <3>2
      <4> PICK x \in Claims : x = req[q].claim
        BY <1>t, <4>1
      <4>2. req[q].posting \in 1 .. Len(posted[x])
        BY <2>8, <4>1 DEF Backed, RecordsArePosted
      <4> QED
        BY <2>6, <4>1, <4>2
    <3> QED
      BY <3>1, <3>2
  <2> QED
    BY <2>7, <2>8 DEF Backed, RecordsArePosted
<1> QED
  BY <1>1, <1>2, <1>4, <1>5, <1>6, <1>7 DEF Next

LEMMA InitBacked == Init => Backed
<1> SUFFICES ASSUME Init PROVE Backed
  OBVIOUS
<1>1. DOMAIN claim = {} /\ \A r \in Requests : req[r].pc = "idle"
  BY DEF Init, Idle
<1> QED
  BY <1>1 DEF Backed, RecordsArePosted, ApprovedIsPosted

(* However requests race, fail and die, and whatever the catch block hands *)
(* back: approvers that read the same version of a claim post it once.     *)
THEOREM ApprovalsPostOnce == Spec => []VersionPostsOnce
<1>1. Spec => []VersionInv
  BY InitInv, NextInv, PTL DEF Spec
<1>2. VersionInv => VersionPostsOnce
  BY DEF VersionInv
<1> QED
  BY <1>1, <1>2, PTL

(* And no claim is approved without a posting of its own behind it: the    *)
(* one its row names was made for it.                                      *)
THEOREM ApprovalsAreBacked == Spec => []ApprovedIsPosted
<1>1. Spec => []VersionInv
  BY InitInv, NextInv, PTL DEF Spec
<1>2. VersionInv /\ Backed /\ [Next]_vars => Backed'
  BY NextBacked
<1>3. Spec => []Backed
  BY <1>1, <1>2, InitBacked, PTL DEF Spec
<1>4. Backed => ApprovedIsPosted
  BY DEF Backed
<1> QED
  BY <1>3, <1>4, PTL

-----------------------------------------------------------------------------
(* Claims behave in these books as they do alone.                          *)
LEMMA BooksStepClaims == [BooksNext]_bookVars => [Next]_vars
<1> SUFFICES ASSUME [BooksNext]_bookVars PROVE [Next]_vars
  OBVIOUS
<1>1. CASE ClaimStep
  <2>1. CASE \E c \in Claims : CreateClaim(c) \/ Withdraw(c)
    BY <2>1 DEF Next
  <2>2. CASE \E r \in Requests : \E c \in Claims :
               ReadAttach(r, c) \/ \E d \in {"approve", "decline"} : ReadReview(r, c, d)
    BY <2>2 DEF Next
  <2>3. CASE \E r \in Requests :
               CommitAttach(r) \/ Decline(r) \/ ClaimRow(r) \/ Record(r) \/ Refuse(r)
    BY <2>3 DEF Next
  <2> QED
    BY <1>1, <2>1, <2>2, <2>3 DEF ClaimStep
<1>2. CASE Tick /\ UNCHANGED <<claim, posted, req, spent>>
  BY <1>2 DEF vars
<1>3. CASE \E r \in Requests, k \in EntryKeys : BeginEntry(r, k) \/ PostPayable(r, k)
  BY <1>3 DEF BeginEntry, PostPayable, Next, vars
<1>4. CASE \E r \in Requests : PostEntry(r) \/ GiveUp(r) \/ DeskStep(r)
  BY <1>4 DEF PostEntry, GiveUp, DeskStep, Next, vars
<1>5. CASE UNCHANGED bookVars
  BY <1>5 DEF bookVars, vars
<1> QED
  BY <1>1, <1>2, <1>3, <1>4, <1>5 DEF BooksNext

(* The composition implements ExpenseClaims: what it adds to an approval,  *)
(* the transaction that looks at the period, changes no claim by itself.   *)
THEOREM BooksKeepClaims == BooksSpec => Spec
<1>1. BooksInit => Init
  BY DEF BooksInit
<1> QED
  BY <1>1, BooksStepClaims, PTL DEF BooksSpec, Spec

(* So one version of a claim is posted once, and what is approved was      *)
(* posted, whatever the accountant does to the periods meanwhile.          *)
THEOREM ApprovalsStandInBooks == BooksSpec => [](VersionPostsOnce /\ ApprovedIsPosted)
BY BooksKeepClaims, ApprovalsPostOnce, ApprovalsAreBacked, PTL

-----------------------------------------------------------------------------
(* Types.                                                                  *)
BooksTyped == TypeOK /\ ChartTypeOK /\ spent \in [Claims -> Expenses]

(* Every errand of a kind is one of the records of that kind.              *)
LEMMA ErrandKinds ==
  ASSUME NEW q \in Errand
  PROVE  /\ q.pc = "create" => q \in [pc : {"create"}, account : Accounts, row : Account]
         /\ q.pc = "update" => q \in [pc : {"update"}, account : Accounts,
                                      class : Classes \union {Keep},
                                      parent : Accounts \union {None, Keep}]
         /\ q.pc = "archive" => q \in [pc : {"archive"}, account : Accounts]
         /\ q.pc = "map" => q \in [pc : {"map"}, category : Categories,
                                   account : Accounts \union {None}]
         /\ q.pc \in {"journal", "post"} =>
              q \in [pc : {"journal", "post"}, key : References \union EntryKeys, row : NewJournal]
         /\ q.pc = "reverse" => q \in [pc : {"reverse"}, key : References \union EntryKeys]
         /\ q.pc = "mirror" => q \in [pc : {"mirror"}, key : References \union EntryKeys, day : Days]
         /\ q.pc = "close" => q \in [pc : {"close"}, start : Days, end : Days]
BY DEF Errand, Free

LEMMA LinesTyped ==
  ASSUME NEW d \in Days, NEW x \in Accounts \union {System}, NEW y \in Accounts \union {System}
  PROVE  Lines(d, x, y) \in NewJournal /\ Lines(d, x, y).day = d
BY DEF Lines, NewJournal, Journal

LEMMA InitTyped == BooksInit => ChartTypeOK /\ spent \in [Claims -> Expenses]
BY ChartAssumption, LoadsAssumption
   DEF BooksInit, ChartInit, ChartTypeOK, Days, Errand, Free

LEMMA ChangedTyped ==
  ASSUME NEW row \in Account, NEW c \in Classes \union {Keep},
         NEW p \in Accounts \union {None, Keep}
  PROVE  /\ Changed(row, c, p) \in Account
         /\ Changed(row, c, p).class = Given(c, row.class)
<1> DEFINE x == Given(c, row.class)
           y == Given(p, row.parent)
<1>1. x \in Classes /\ y \in Accounts \union {None}
  BY DEF Account, Given
<1>2. Changed(row, c, p) = [row EXCEPT !.class = x, !.parent = y]
  BY DEF Changed
<1> HIDE DEF x
<1>3. Changed(row, c, p) \in Account /\ Changed(row, c, p).class = x
  BY <1>1, <1>2 DEF Account
<1> QED
  BY <1>3 DEF x

(* What a clerk has in hand, when it is taken up: what was read for it.    *)
Sound(q) ==
  /\ q.pc = "update" => MayReclass(q.account, q.class)
  /\ q.pc = "post" => IsOpen(q.row.day)
  /\ q.pc \in {"reverse", "mirror"} => q.key \in DOMAIN journal
  /\ q.pc = "mirror" => q.day = today \/ IsOpen(q.day)
  /\ q.pc = "close" => /\ q.start <= q.end /\ NoneClosed(q.start, q.end)
                       /\ ClosingsMeet \/ \A s \in Clerks : ~At(s, "close")

TakesUp(r) == \E q \in Errand : Seat(r, q) /\ Sound(q)

(* A reversal is of a journal there is: journals are never deleted.        *)
ReversalsExist ==
  \A r \in Clerks : desk[r].pc \in {"reverse", "mirror"} => desk[r].key \in DOMAIN journal

LEMMA FreeSound == Free \in Errand /\ Sound(Free)
BY DEF Errand, Free, Sound

LEMMA ChartTakesUp ==
  ASSUME ChartTypeOK, NEW r \in Clerks, ChartStep(r)
  PROVE  TakesUp(r)
<1>1. ASSUME NEW a \in Accounts, NEW c \in Classes, NEW p \in Accounts \union {None},
             NEW b \in BOOLEAN,
             ReadCreate(r, a, [class |-> c, parent |-> p, postable |-> b, archived |-> FALSE])
      PROVE  TakesUp(r)
  <2> DEFINE row == [class |-> c, parent |-> p, postable |-> b, archived |-> FALSE]
             q == [pc |-> "create", account |-> a, row |-> row]
  <2>1. q \in Errand /\ Sound(q)
    BY DEF Errand, Account, Sound
  <2>2. Seat(r, q)
    BY <1>1 DEF ReadCreate, Arrive
  <2> QED
    BY <2>1, <2>2 DEF TakesUp
<1>2. ASSUME NEW a \in Accounts, NEW c \in Classes \union {Keep},
             NEW p \in Accounts \union {None, Keep}, ReadUpdate(r, a, c, p)
      PROVE  TakesUp(r)
  <2> DEFINE q == [pc |-> "update", account |-> a, class |-> c, parent |-> p]
  <2>1. q \in Errand
    BY DEF Errand
  <2>2. Seat(r, q) /\ MayReclass(a, c)
    BY <1>2 DEF ReadUpdate, Arrive
  <2>3. Sound(q)
    BY <2>2 DEF Sound
  <2> QED
    BY <2>1, <2>2, <2>3 DEF TakesUp
<1>3. ASSUME NEW a \in Accounts, ReadArchive(r, a)
      PROVE  TakesUp(r)
  <2> DEFINE q == [pc |-> "archive", account |-> a]
  <2>1. q \in Errand /\ Sound(q)
    BY DEF Errand, Sound
  <2>2. Seat(r, q)
    BY <1>3 DEF ReadArchive, Arrive
  <2> QED
    BY <2>1, <2>2 DEF TakesUp
<1>4. ASSUME NEW c \in Categories, NEW a \in Accounts \union {None}, ReadMap(r, c, a)
      PROVE  TakesUp(r)
  <2> DEFINE q == [pc |-> "map", category |-> c, account |-> a]
  <2>1. q \in Errand /\ Sound(q)
    BY DEF Errand, Sound
  <2>2. Seat(r, q)
    BY <1>4 DEF ReadMap, Arrive
  <2> QED
    BY <2>1, <2>2 DEF TakesUp
<1>5. CASE CommitCreate(r) \/ CommitUpdate(r) \/ CommitArchive(r) \/ CommitMap(r)
  BY <1>5, FreeSound DEF CommitCreate, CommitUpdate, CommitArchive, CommitMap, TakesUp
<1> QED
  BY <1>1, <1>2, <1>3, <1>4, <1>5 DEF ChartStep

LEMMA JournalTakesUp ==
  ASSUME ChartTypeOK, ReversalsExist, NEW r \in Clerks, JournalStep(r)
  PROVE  TakesUp(r)
<1> USE DEF ChartTypeOK
<1>1. ASSUME NEW k \in References, NEW d \in 1 .. asked.days,
             NEW x \in Accounts \union {System}, NEW y \in Accounts \union {System},
             ReadJournal(r, k, Lines(d, x, y))
      PROVE  TakesUp(r)
  <2> DEFINE q == [pc |-> "journal", key |-> k, row |-> Lines(d, x, y)]
  <2>1. d \in Days
    BY ChartAssumption DEF Load, Days
  <2>2. q \in Errand
    BY <2>1, LinesTyped DEF Errand
  <2>3. Sound(q)
    BY DEF Sound
  <2>4. Seat(r, q)
    BY <1>1 DEF ReadJournal, Arrive
  <2> QED
    BY <2>2, <2>3, <2>4 DEF TakesUp
<1>2. ASSUME NEW k \in DOMAIN journal, ReadReverse(r, k)
      PROVE  TakesUp(r)
  <2> DEFINE q == [pc |-> "reverse", key |-> k]
  <2>1. q \in Errand /\ Sound(q)
    BY DEF Errand, Sound
  <2>2. Seat(r, q)
    BY <1>2 DEF ReadReverse, Arrive
  <2> QED
    BY <2>1, <2>2 DEF TakesUp
<1>3. CASE BeginJournal(r)
  <2> DEFINE q == [desk[r] EXCEPT !.pc = "post"]
  <2>1. desk[r] \in [pc : {"journal", "post"}, key : References \union EntryKeys,
                     row : NewJournal]
    BY <1>3, ErrandKinds DEF BeginJournal, At
  <2>2. q \in [pc : {"journal", "post"}, key : References \union EntryKeys, row : NewJournal]
    BY <2>1
  <2>3. q \in Errand
    BY <2>2 DEF Errand
  <2>4. q.pc = "post" /\ q.row = desk[r].row
    BY <2>1
  <2>5. Seat(r, q) /\ IsOpen(q.row.day)
    BY <1>3, <2>4 DEF BeginJournal
  <2> HIDE DEF q
  <2>6. Sound(q)
    BY <2>4, <2>5 DEF Sound
  <2> QED
    BY <2>3, <2>5, <2>6 DEF TakesUp
<1>4. CASE PostJournal(r) \/ PostReversal(r)
  BY <1>4, FreeSound DEF PostJournal, PostReversal, TakesUp
<1>5. CASE BeginReverse(r)
  <2> DEFINE k == desk[r].key
             d == ReversalDay(journal[k].day)
             q == [pc |-> "mirror", key |-> k, day |-> d]
  <2>1. k \in References \union EntryKeys
    BY <1>5, ErrandKinds DEF BeginReverse, At
  <2>2. k \in DOMAIN journal
    BY <1>5 DEF BeginReverse, At, ReversalsExist
  <2>3. d \in Days /\ (d = today \/ IsOpen(d))
    BY <2>2 DEF ReversalDay, IsOpen, Journal
  <2>4. q \in Errand
    BY <2>1, <2>3 DEF Errand
  <2>5. Sound(q)
    BY <2>2, <2>3 DEF Sound
  <2>6. Seat(r, q)
    BY <1>5 DEF BeginReverse
  <2> QED
    BY <2>4, <2>5, <2>6 DEF TakesUp
<1> QED
  BY <1>1, <1>2, <1>3, <1>4, <1>5 DEF JournalStep

LEMMA PeriodTakesUp ==
  ASSUME ChartTypeOK, NEW r \in Clerks, PeriodStep(r)
  PROVE  TakesUp(r)
<1> USE DEF ChartTypeOK
<1>1. ASSUME NEW s \in 1 .. asked.days, NEW e \in 1 .. asked.days, ReadClose(r, s, e)
      PROVE  TakesUp(r)
  <2> DEFINE q == [pc |-> "close", start |-> s, end |-> e]
  <2>1. s \in Days /\ e \in Days
    BY ChartAssumption DEF Load, Days
  <2>2. q \in Errand
    BY <2>1 DEF Errand
  <2>3. Seat(r, q)
    BY <1>1 DEF ReadClose, Arrive
  <2>4. Sound(q)
    BY <1>1 DEF ReadClose, Sound
  <2> QED
    BY <2>2, <2>3, <2>4 DEF TakesUp
<1>2. CASE CommitClose(r)
  BY <1>2, FreeSound DEF CommitClose, TakesUp
<1>3. CASE \E s \in Days : ReopenPeriod(r, s)
  BY <1>3, FreeSound DEF ReopenPeriod, Arrive, TakesUp
<1> QED
  BY <1>1, <1>2, <1>3 DEF PeriodStep

(* An approval names a claim, and its expense has a day.                   *)
LEMMA ExpenseOf ==
  ASSUME BooksTyped, NEW r \in Requests, req[r].pc = "post"
  PROVE  Of(r).day \in Days
<1>1. req[r] \in Request
  BY DEF BooksTyped, TypeOK
<1>2. req[r].claim \in Claims
  BY <1>1 DEF Request, Idle
<1>3. spent[req[r].claim] \in Expense
  BY <1>2, ClaimBooksAssumption DEF BooksTyped
<1> QED
  BY <1>3 DEF Of, Expense

LEMMA EntryTakesUp ==
  ASSUME BooksTyped, NEW r \in Requests, NEW k \in EntryKeys, BeginEntry(r, k)
  PROVE  TakesUp(r)
<1> PICK d : d = Of(r).day
  OBVIOUS
<1> DEFINE row == Lines(d, System, System)
           q == [pc |-> "post", key |-> k, row |-> row]
<1>1. d \in Days /\ IsOpen(d)
  BY ExpenseOf DEF BeginEntry
<1>2. row \in NewJournal /\ row.day = d
  BY <1>1, LinesTyped
<1>3. Seat(r, q)
  BY DEF BeginEntry
<1> HIDE DEF row
<1>4. q \in Errand
  BY <1>2 DEF Errand
<1>5. Sound(q)
  BY <1>1, <1>2 DEF Sound
<1> QED
  BY <1>3, <1>4, <1>5 DEF TakesUp

(* So every step, of whoever it is.                                        *)
LEMMA EveryStepTakesUp ==
  ASSUME BooksTyped, ReversalsExist, [BooksNext]_bookVars
  PROVE  UNCHANGED desk \/ \E r \in Clerks : TakesUp(r)
<1> USE ClaimBooksAssumption
<1>1. CASE ClaimStep \/ (Tick /\ UNCHANGED <<claim, posted, req, spent>>) \/ UNCHANGED bookVars
  BY <1>1 DEF ClaimStep, Tick, bookVars
<1>2. ASSUME NEW r \in Requests, NEW k \in EntryKeys, BeginEntry(r, k) \/ PostPayable(r, k)
      PROVE  UNCHANGED desk \/ TakesUp(r)
  BY <1>2, EntryTakesUp DEF PostPayable
<1>3. ASSUME NEW r \in Requests, PostEntry(r) \/ GiveUp(r) \/ Leave(r)
      PROVE  TakesUp(r)
  BY <1>3, FreeSound DEF PostEntry, PostJournal, GiveUp, Leave, TakesUp
<1>4. ASSUME NEW r \in Requests, DeskStep(r)
      PROVE  TakesUp(r)
  BY <1>3, <1>4, ChartTakesUp, JournalTakesUp, PeriodTakesUp DEF DeskStep, BooksTyped
<1> QED
  BY <1>1, <1>2, <1>3, <1>4 DEF BooksNext

(* What becomes of the books in a step.                                    *)
Posts(k, row) ==
  /\ k \notin DOMAIN journal
  /\ journal' = Put(journal, k, row)
  /\ row.day = today \/ \E r \in Clerks : At(r, "post") /\ desk[r].row = row

JournalMoves ==
  \/ UNCHANGED journal
  \/ \E k \in References \union EntryKeys, row \in NewJournal : Posts(k, row)
  \/ \E r \in Clerks : PostReversal(r)

PeriodMoves ==
  \/ UNCHANGED period
  \/ \E r \in Clerks : CommitClose(r)
  \/ \E r \in Clerks, s \in Days : ReopenPeriod(r, s)

ChartMoves ==
  \/ UNCHANGED chart
  \/ \E r \in Clerks : CommitCreate(r) \/ CommitUpdate(r) \/ CommitArchive(r)

LEMMA JournalPosted ==
  ASSUME ChartTypeOK, NEW r \in Clerks, PostJournal(r)
  PROVE  JournalMoves
<1> PICK k, row : k = desk[r].key /\ row = desk[r].row
  OBVIOUS
<1>1. k \in References \union EntryKeys /\ row \in NewJournal
  BY ErrandKinds DEF ChartTypeOK, PostJournal, At
<1>2. Posts(k, row)
  BY DEF PostJournal, Posts
<1> QED
  BY <1>1, <1>2 DEF JournalMoves

LEMMA PayablePosted ==
  ASSUME ChartTypeOK, NEW r \in Requests, NEW k \in EntryKeys, PostPayable(r, k)
  PROVE  JournalMoves
<1> PICK row : row = Lines(today, System, System)
  OBVIOUS
<1>1. row \in NewJournal /\ row.day = today
  BY LinesTyped DEF ChartTypeOK
<1>2. Posts(k, row)
  BY <1>1 DEF PostPayable, Fresh, Posts
<1> QED
  BY <1>1, <1>2 DEF JournalMoves

LEMMA JournalMovesSo ==
  ASSUME ChartTypeOK, [BooksNext]_bookVars
  PROVE  JournalMoves
<1> USE ClaimBooksAssumption
<1>1. CASE ClaimStep \/ (Tick /\ UNCHANGED <<claim, posted, req, spent>>) \/ UNCHANGED bookVars
  BY <1>1 DEF ClaimStep, Tick, bookVars, JournalMoves
<1>2. ASSUME NEW r \in Requests, NEW k \in EntryKeys, BeginEntry(r, k) \/ PostPayable(r, k)
      PROVE  JournalMoves
  BY <1>2, PayablePosted DEF BeginEntry, JournalMoves
<1>3. ASSUME NEW r \in Requests, PostEntry(r) \/ GiveUp(r) \/ DeskStep(r)
      PROVE  JournalMoves
  <2>1. CASE PostEntry(r)
    BY <2>1, JournalPosted DEF PostEntry
  <2>2. CASE JournalStep(r)
    BY <2>2, JournalPosted
       DEF JournalStep, ReadJournal, ReadReverse, BeginJournal, BeginReverse, JournalMoves
  <2>3. CASE ChartStep(r)
    BY <2>3 DEF ChartStep, ReadCreate, ReadUpdate, ReadArchive, ReadMap, CommitCreate,
                CommitUpdate, CommitArchive, CommitMap, JournalMoves
  <2>4. CASE PeriodStep(r) \/ Leave(r) \/ GiveUp(r)
    BY <2>4 DEF PeriodStep, ReadClose, CommitClose, ReopenPeriod, Leave, GiveUp, JournalMoves
  <2> QED
    BY <1>3, <2>1, <2>2, <2>3, <2>4 DEF DeskStep
<1> QED
  BY <1>1, <1>2, <1>3 DEF BooksNext

LEMMA PeriodMovesSo == [BooksNext]_bookVars => PeriodMoves
<1> SUFFICES ASSUME [BooksNext]_bookVars PROVE PeriodMoves
  OBVIOUS
<1> USE ClaimBooksAssumption
<1>1. CASE ClaimStep \/ (Tick /\ UNCHANGED <<claim, posted, req, spent>>) \/ UNCHANGED bookVars
  BY <1>1 DEF ClaimStep, Tick, bookVars, PeriodMoves
<1>2. ASSUME NEW r \in Requests, NEW k \in EntryKeys, BeginEntry(r, k) \/ PostPayable(r, k)
      PROVE  PeriodMoves
  BY <1>2 DEF BeginEntry, PostPayable, PeriodMoves
<1>3. ASSUME NEW r \in Requests, PostEntry(r) \/ GiveUp(r) \/ DeskStep(r)
      PROVE  PeriodMoves
  <2>1. CASE PostEntry(r)
    BY <2>1 DEF PostEntry, PostJournal, PeriodMoves
  <2>2. CASE JournalStep(r)
    BY <2>2 DEF JournalStep, ReadJournal, ReadReverse, BeginJournal, BeginReverse,
                PostJournal, PostReversal, PeriodMoves
  <2>3. CASE ChartStep(r)
    BY <2>3 DEF ChartStep, ReadCreate, ReadUpdate, ReadArchive, ReadMap, CommitCreate,
                CommitUpdate, CommitArchive, CommitMap, PeriodMoves
  <2>4. CASE PeriodStep(r) \/ Leave(r) \/ GiveUp(r)
    BY <2>4 DEF PeriodStep, ReadClose, Leave, GiveUp, PeriodMoves
  <2> QED
    BY <1>3, <2>1, <2>2, <2>3, <2>4 DEF DeskStep
<1> QED
  BY <1>1, <1>2, <1>3 DEF BooksNext

LEMMA ChartMovesSo == [BooksNext]_bookVars => ChartMoves
<1> SUFFICES ASSUME [BooksNext]_bookVars PROVE ChartMoves
  OBVIOUS
<1> USE ClaimBooksAssumption
<1>1. CASE ClaimStep \/ (Tick /\ UNCHANGED <<claim, posted, req, spent>>) \/ UNCHANGED bookVars
  BY <1>1 DEF ClaimStep, Tick, bookVars, ChartMoves
<1>2. ASSUME NEW r \in Requests, NEW k \in EntryKeys, BeginEntry(r, k) \/ PostPayable(r, k)
      PROVE  ChartMoves
  BY <1>2 DEF BeginEntry, PostPayable, ChartMoves
<1>3. ASSUME NEW r \in Requests, PostEntry(r) \/ GiveUp(r) \/ DeskStep(r)
      PROVE  ChartMoves
  <2>1. CASE PostEntry(r)
    BY <2>1 DEF PostEntry, PostJournal, ChartMoves
  <2>2. CASE JournalStep(r)
    BY <2>2 DEF JournalStep, ReadJournal, ReadReverse, BeginJournal, BeginReverse,
                PostJournal, PostReversal, ChartMoves
  <2>3. CASE ChartStep(r)
    BY <2>3 DEF ChartStep, ReadCreate, ReadUpdate, ReadArchive, ReadMap, CommitMap, ChartMoves
  <2>4. CASE PeriodStep(r) \/ Leave(r) \/ GiveUp(r)
    BY <2>4 DEF PeriodStep, ReadClose, CommitClose, ReopenPeriod, Leave, GiveUp, ChartMoves
  <2> QED
    BY <1>3, <2>1, <2>2, <2>3, <2>4 DEF DeskStep
<1> QED
  BY <1>1, <1>2, <1>3 DEF BooksNext

-----------------------------------------------------------------------------
(* Each of these keeps its type.                                           *)
LEMMA DeskTyped ==
  ASSUME ChartTypeOK, UNCHANGED desk \/ \E r \in Clerks : TakesUp(r)
  PROVE  desk' \in [Clerks -> Errand]
BY DEF ChartTypeOK, TakesUp, Seat

LEMMA JournalTyped ==
  ASSUME ChartTypeOK, JournalMoves
  PROVE  /\ DOMAIN journal \subseteq DOMAIN journal'
         /\ DOMAIN journal' \subseteq References \union EntryKeys
         /\ \A k \in DOMAIN journal' : journal'[k] \in Journal
<1> USE DEF ChartTypeOK
<1>1. ASSUME NEW k \in References \union EntryKeys, NEW row \in NewJournal, Posts(k, row)
      PROVE  /\ DOMAIN journal \subseteq DOMAIN journal'
             /\ DOMAIN journal' \subseteq References \union EntryKeys
             /\ \A j \in DOMAIN journal' : journal'[j] \in Journal
  <2>1. row \in Journal
    BY DEF NewJournal
  <2> QED
    BY <1>1, <2>1 DEF Posts, Put
<1>2. ASSUME NEW r \in Clerks, PostReversal(r)
      PROVE  /\ DOMAIN journal' = DOMAIN journal
             /\ \A j \in DOMAIN journal' : journal'[j] \in Journal
  <2>1. desk[r].day \in Days
    BY <1>2, ErrandKinds DEF PostReversal, At
  <2> QED
    BY <1>2, <2>1 DEF PostReversal, Journal
<1> QED
  BY <1>1, <1>2 DEF JournalMoves

LEMMA PeriodTyped ==
  ASSUME ChartTypeOK, PeriodMoves
  PROVE  DOMAIN period' \subseteq Days /\ \A s \in DOMAIN period' : period'[s] \in Period
<1> USE DEF ChartTypeOK
<1>1. ASSUME NEW r \in Clerks, CommitClose(r)
      PROVE  DOMAIN period' \subseteq Days /\ \A s \in DOMAIN period' : period'[s] \in Period
  <2> PICK s, e : s = desk[r].start /\ e = desk[r].end
    OBVIOUS
  <2>1. s \in Days /\ e \in Days
    BY <1>1, ErrandKinds DEF CommitClose, At
  <2>2. period' = Put(period, s, [end |-> e, closed |-> TRUE])
    BY <1>1 DEF CommitClose
  <2>3. [end |-> e, closed |-> TRUE] \in Period
    BY <2>1 DEF Period
  <2> QED
    BY <2>1, <2>2, <2>3 DEF Put
<1>2. ASSUME NEW r \in Clerks, NEW s \in Days, ReopenPeriod(r, s)
      PROVE  DOMAIN period' \subseteq Days /\ \A x \in DOMAIN period' : period'[x] \in Period
  BY <1>2 DEF ReopenPeriod, Period
<1> QED
  BY <1>1, <1>2 DEF PeriodMoves

LEMMA ChartTyped ==
  ASSUME ChartTypeOK, ChartMoves
  PROVE  DOMAIN chart' \subseteq Accounts /\ \A a \in DOMAIN chart' : chart'[a] \in Account
<1> USE DEF ChartTypeOK
<1>1. ASSUME NEW r \in Clerks, CommitCreate(r)
      PROVE  DOMAIN chart' \subseteq Accounts /\ \A a \in DOMAIN chart' : chart'[a] \in Account
  <2> PICK a, row : a = desk[r].account /\ row = desk[r].row
    OBVIOUS
  <2>1. a \in Accounts /\ row \in Account
    BY <1>1, ErrandKinds DEF CommitCreate, At
  <2>2. chart' = Put(chart, a, row)
    BY <1>1 DEF CommitCreate
  <2> QED
    BY <2>1, <2>2 DEF Put
<1>2. ASSUME NEW r \in Clerks, CommitUpdate(r)
      PROVE  DOMAIN chart' \subseteq Accounts /\ \A a \in DOMAIN chart' : chart'[a] \in Account
  <2>1. desk[r].class \in Classes \union {Keep} /\ desk[r].parent \in Accounts \union {None, Keep}
    BY <1>2, ErrandKinds DEF CommitUpdate, At
  <2>2. \A a \in DOMAIN chart : Changed(chart[a], desk[r].class, desk[r].parent) \in Account
    BY <2>1, ChangedTyped
  <2> QED
    BY <1>2, <2>2 DEF CommitUpdate
<1>3. ASSUME NEW r \in Clerks, CommitArchive(r)
      PROVE  DOMAIN chart' \subseteq Accounts /\ \A a \in DOMAIN chart' : chart'[a] \in Account
  BY <1>3 DEF CommitArchive, Account
<1> QED
  BY <1>1, <1>2, <1>3 DEF ChartMoves

(* The rest: the date, the mapping of categories, what is still asked for. *)
RestTyped ==
  today \in Days /\ mapped \in [Categories -> Accounts \union {None}] /\ asked \in Load

LEMMA ChartStepRest ==
  ASSUME ChartTypeOK, NEW r \in Clerks, ChartStep(r)
  PROVE  RestTyped'
<1> USE DEF ChartTypeOK, RestTyped
<1>1. CASE CommitMap(r)
  <2>1. desk[r].category \in Categories /\ desk[r].account \in Accounts \union {None}
    BY <1>1, ErrandKinds DEF CommitMap, At
  <2> QED
    BY <1>1, <2>1 DEF CommitMap
<1>2. CASE CommitCreate(r) \/ CommitUpdate(r) \/ CommitArchive(r)
  BY <1>2 DEF CommitCreate, CommitUpdate, CommitArchive
<1>3. CASE asked' = [asked EXCEPT !.left = @ - 1] /\ asked.left > 0 /\ UNCHANGED <<today, mapped>>
  BY <1>3 DEF Load
<1> QED
  BY <1>1, <1>2, <1>3 DEF ChartStep, ReadCreate, ReadUpdate, ReadArchive, ReadMap, Arrive

LEMMA DeskStepRest ==
  ASSUME ChartTypeOK, NEW r \in Clerks, JournalStep(r) \/ PeriodStep(r)
  PROVE  RestTyped'
<1> USE DEF ChartTypeOK, RestTyped
<1>1. UNCHANGED <<today, mapped>>
  BY DEF JournalStep, PeriodStep, ReadJournal, ReadReverse, BeginJournal, BeginReverse,
         PostJournal, PostReversal, ReadClose, CommitClose, ReopenPeriod
<1>2. UNCHANGED asked \/ (asked' = [asked EXCEPT !.left = @ - 1] /\ asked.left > 0)
  BY DEF JournalStep, PeriodStep, ReadJournal, ReadReverse, BeginJournal, BeginReverse,
         PostJournal, PostReversal, ReadClose, CommitClose, ReopenPeriod, Arrive
<1> QED
  BY <1>1, <1>2 DEF Load

LEMMA RestMovesTyped ==
  ASSUME ChartTypeOK, spent \in [Claims -> Expenses], [BooksNext]_bookVars
  PROVE  RestTyped' /\ spent' \in [Claims -> Expenses]
<1> USE ClaimBooksAssumption
<1>1. CASE ClaimStep \/ UNCHANGED bookVars
  BY <1>1 DEF ClaimStep, bookVars, ChartTypeOK, RestTyped
<1>2. CASE Tick /\ UNCHANGED <<claim, posted, req, spent>>
  BY <1>2, ChartAssumption DEF Tick, ChartTypeOK, RestTyped, Load, Days
<1>3. ASSUME NEW r \in Requests, NEW k \in EntryKeys, BeginEntry(r, k) \/ PostPayable(r, k)
      PROVE  RestTyped' /\ spent' \in [Claims -> Expenses]
  BY <1>3 DEF BeginEntry, PostPayable, ChartTypeOK, RestTyped
<1>4. ASSUME NEW r \in Requests, PostEntry(r) \/ GiveUp(r)
      PROVE  RestTyped' /\ spent' \in [Claims -> Expenses]
  BY <1>4 DEF PostEntry, PostJournal, GiveUp, ChartTypeOK, RestTyped
<1>5. ASSUME NEW r \in Requests, DeskStep(r)
      PROVE  RestTyped' /\ spent' \in [Claims -> Expenses]
  <2>1. UNCHANGED spent
    BY <1>5 DEF DeskStep
  <2>2. CASE Leave(r)
    BY <2>1, <2>2 DEF Leave, ChartTypeOK, RestTyped
  <2> QED
    BY <1>5, <2>1, <2>2, ChartStepRest, DeskStepRest DEF DeskStep
<1> QED
  BY <1>1, <1>2, <1>3, <1>4, <1>5 DEF BooksNext

(* The types hold, with what they need: a claim under review exists, and   *)
(* so does a journal under reversal.                                       *)
TypedInv ==
  VersionInv /\ ChartTypeOK /\ spent \in [Claims -> Expenses] /\ ReversalsExist

LEMMA TypedInit == BooksInit => TypedInv
<1> SUFFICES ASSUME BooksInit PROVE TypedInv
  OBVIOUS
<1>1. ReversalsExist
  BY DEF BooksInit, ChartInit, ReversalsExist, Free
<1> QED
  BY <1>1, InitInv, InitTyped DEF BooksInit, TypedInv

LEMMA TypedStep == TypedInv /\ [BooksNext]_bookVars => TypedInv'
<1> SUFFICES ASSUME TypedInv, [BooksNext]_bookVars PROVE TypedInv'
  OBVIOUS
<1>1. VersionInv'
  BY BooksStepClaims, NextInv DEF TypedInv
<1>2. UNCHANGED desk \/ \E r \in Clerks : TakesUp(r)
  BY EveryStepTakesUp DEF TypedInv, VersionInv, BooksTyped
<1>3. JournalMoves /\ PeriodMoves /\ ChartMoves
  BY JournalMovesSo, PeriodMovesSo, ChartMovesSo DEF TypedInv
<1>4. DOMAIN journal \subseteq DOMAIN journal'
  BY <1>3, JournalTyped DEF TypedInv
<1>5. ReversalsExist'
  <2>1. desk \in [Clerks -> Errand]
    BY DEF TypedInv, ChartTypeOK
  <2>2. ASSUME NEW r \in Clerks, NEW q \in Errand, Seat(r, q), Sound(q)
        PROVE  ReversalsExist'
    BY <1>4, <2>1, <2>2 DEF TypedInv, ReversalsExist, Seat, Sound
  <2>3. CASE UNCHANGED desk
    BY <1>4, <2>3 DEF TypedInv, ReversalsExist
  <2> QED
    BY <1>2, <2>2, <2>3 DEF TakesUp
<1>6. RestTyped' /\ spent' \in [Claims -> Expenses]
  BY RestMovesTyped DEF TypedInv
<1>7. ChartTypeOK'
  <2>1. desk' \in [Clerks -> Errand]
    BY <1>2, DeskTyped DEF TypedInv
  <2>2. /\ DOMAIN journal' \subseteq References \union EntryKeys
        /\ \A k \in DOMAIN journal' : journal'[k] \in Journal
    BY <1>3, JournalTyped DEF TypedInv
  <2>3. DOMAIN period' \subseteq Days /\ \A x \in DOMAIN period' : period'[x] \in Period
    BY <1>3, PeriodTyped DEF TypedInv
  <2>4. DOMAIN chart' \subseteq Accounts /\ \A a \in DOMAIN chart' : chart'[a] \in Account
    BY <1>3, ChartTyped DEF TypedInv
  <2> QED
    BY <1>6, <2>1, <2>2, <2>3, <2>4 DEF ChartTypeOK, RestTyped
<1> QED
  BY <1>1, <1>5, <1>6, <1>7 DEF TypedInv

(* Every account, journal, period and errand is one of the model's kinds,  *)
(* whatever the clerks and the members do.                                 *)
THEOREM BooksAreTyped == BooksSpec => []ChartTypeOK
<1>1. TypedInv => ChartTypeOK
  BY DEF TypedInv
<1> QED
  BY <1>1, TypedInit, TypedStep, PTL DEF BooksSpec

-----------------------------------------------------------------------------
(* A closing that is about to be written is the only one, and the range it *)
(* closes overlaps no period that is closed.                               *)
ClosersAlone ==
  \A r, s \in Clerks : At(r, "close") /\ At(s, "close") => r = s

ClosersClear ==
  \A r \in Clerks : At(r, "close") =>
    desk[r].start <= desk[r].end /\ NoneClosed(desk[r].start, desk[r].end)

ClosersInv == ClosersAlone /\ ClosersClear

LEMMA ClosersInit == BooksInit => ClosersInv
BY DEF BooksInit, ChartInit, ClosersInv, ClosersAlone, ClosersClear, At, Free

LEMMA ClosersStep ==
  ASSUME ~ClosingsMeet, TypedInv, ClosersInv, [BooksNext]_bookVars
  PROVE  ClosersInv'
<1>1. UNCHANGED desk \/ \E r \in Clerks : TakesUp(r)
  BY EveryStepTakesUp DEF TypedInv, VersionInv, BooksTyped
<1>2. PeriodMoves
  BY PeriodMovesSo
<1>3. desk \in [Clerks -> Errand]
  BY DEF TypedInv, ChartTypeOK
<1>4. ClosersAlone'
  <2>1. ASSUME NEW r \in Clerks, NEW q \in Errand, Seat(r, q), Sound(q)
        PROVE  ClosersAlone'
    BY <1>3, <2>1 DEF ClosersInv, ClosersAlone, Seat, Sound, At
  <2>2. CASE UNCHANGED desk
    BY <2>2 DEF ClosersInv, ClosersAlone, At
  <2> QED
    BY <1>1, <2>1, <2>2 DEF TakesUp
<1>5. ClosersClear'
  <2>1. ASSUME NEW r \in Clerks, CommitClose(r)
        PROVE  ClosersClear'
    <3>1. \A s \in Clerks : ~At(s, "close")'
      BY <1>3, <2>1 DEF CommitClose, Seat, ClosersInv, ClosersAlone, At, Free
    <3> QED
      BY <3>1 DEF ClosersClear
  <2>2. CASE UNCHANGED period \/ \E r \in Clerks, s \in Days : ReopenPeriod(r, s)
    <3>1. \A a, b : NoneClosed(a, b) => NoneClosed(a, b)'
      <4>1. /\ DOMAIN period' = DOMAIN period
            /\ \A s \in DOMAIN period :
                 period'[s].end = period[s].end /\ (period'[s].closed => period[s].closed)
        BY <2>2 DEF ReopenPeriod, TypedInv, ChartTypeOK, Period
      <4> QED
        BY <4>1 DEF NoneClosed
    <3>2. ASSUME NEW r \in Clerks, NEW q \in Errand, Seat(r, q), Sound(q),
                 NEW s \in Clerks, At(s, "close")'
          PROVE  desk'[s].start <= desk'[s].end /\ NoneClosed(desk'[s].start, desk'[s].end)
      BY <1>3, <3>2 DEF ClosersInv, ClosersClear, Seat, Sound, At
    <3>3. ASSUME UNCHANGED desk, NEW s \in Clerks, At(s, "close")'
          PROVE  desk'[s].start <= desk'[s].end /\ NoneClosed(desk'[s].start, desk'[s].end)
      BY <3>3 DEF ClosersInv, ClosersClear, At
    <3>4. ASSUME NEW s \in Clerks, At(s, "close")'
          PROVE  desk'[s].start <= desk'[s].end /\ NoneClosed(desk'[s].start, desk'[s].end)
      BY <1>1, <3>2, <3>3, <3>4 DEF TakesUp
    <3> QED
      BY <3>1, <3>4 DEF ClosersClear, NoneClosed
  <2> QED
    BY <1>2, <2>1, <2>2 DEF PeriodMoves
<1> QED
  BY <1>4, <1>5 DEF ClosersInv

-----------------------------------------------------------------------------
(* A closing overwrites the row of its start date, which is not that of a  *)
(* closed period: a closed day stays closed.                               *)
LEMMA StaysClosed ==
  ASSUME TypedInv, ClosersInv, [BooksNext]_bookVars, NEW d \in Days, Closed(d)
  PROVE  Closed(d)' \/ Reopened(d)
<1>1. PICK s \in DOMAIN period : period[s].closed /\ s <= d /\ d <= period[s].end
  BY DEF Closed, Covers
<1>2. s \in Days /\ period[s] \in Period /\ s \in Nat /\ d \in Nat /\ period[s].end \in Nat
  BY <1>1 DEF TypedInv, ChartTypeOK, Period, Days
<1>3. ASSUME s \in DOMAIN period', period'[s] = period[s]
      PROVE  Closed(d)'
  BY <1>1, <1>3 DEF Closed, Covers
<1>4. ASSUME NEW r \in Clerks, CommitClose(r)
      PROVE  Closed(d)'
  <2> PICK a, b : a = desk[r].start /\ b = desk[r].end
    OBVIOUS
  <2>1. a \in Days /\ b \in Days
    BY <1>4, ErrandKinds DEF CommitClose, At, TypedInv, ChartTypeOK
  <2>2. a <= b /\ (b < s \/ period[s].end < a)
    BY <1>1, <1>4 DEF CommitClose, ClosersInv, ClosersClear, NoneClosed
  <2>3. a # s
    BY <1>1, <1>2, <2>1, <2>2 DEF Days
  <2>4. period' = Put(period, a, [end |-> b, closed |-> TRUE])
    BY <1>4 DEF CommitClose
  <2>5. s \in DOMAIN period' /\ period'[s] = period[s]
    BY <1>1, <2>3, <2>4 DEF Put
  <2> QED
    BY <1>3, <2>5
<1>5. ASSUME NEW r \in Clerks, NEW x \in Days, ReopenPeriod(r, x)
      PROVE  Closed(d)' \/ Reopened(d)
  <2>1. period' = [period EXCEPT ![x].closed = FALSE]
    BY <1>5 DEF ReopenPeriod
  <2>2. CASE x = s
    <3>1. period'[s] = [period[s] EXCEPT !.closed = FALSE]
      BY <1>1, <2>1, <2>2
    <3> QED
      BY <1>1, <3>1 DEF Reopened, Covers
  <2>3. CASE x # s
    BY <1>1, <1>3, <2>1, <2>3
  <2> QED
    BY <2>2, <2>3
<1> QED
  BY <1>1, <1>3, <1>4, <1>5, PeriodMovesSo DEF PeriodMoves

(* Nobody begins to write into a day that is over and closed.              *)
LEMMA NobodyBegins ==
  ASSUME TypedInv, [BooksNext]_bookVars,
         NEW d \in Days, d < today, Closed(d), Begun(d) = {}
  PROVE  Begun(d)' = {}
<1>1. desk \in [Clerks -> Errand] /\ today # d
  BY DEF TypedInv, ChartTypeOK, Days
<1>2. ASSUME NEW r \in Clerks, NEW q \in Errand, Seat(r, q), Sound(q)
      PROVE  Begun(d)' = {}
  <2>1. q.pc = "post" => q.row.day # d
    BY <1>2 DEF Sound, IsOpen
  <2>2. q.pc = "mirror" => q.day # d
    BY <1>1, <1>2 DEF Sound, IsOpen
  <2>3. \A c \in Clerks : desk'[c] = q \/ desk'[c] = desk[c]
    BY <1>1, <1>2 DEF Seat
  <2> QED
    BY <2>1, <2>2, <2>3 DEF Begun, At
<1>3. CASE UNCHANGED desk
  BY <1>3 DEF Begun, At
<1> QED
  BY <1>2, <1>3, EveryStepTakesUp DEF TakesUp, TypedInv, VersionInv, BooksTyped

(* What is written is dated today, or was begun while the day was open.    *)
LEMMA ReportSame ==
  ASSUME TypedInv, [BooksNext]_bookVars,
         NEW d \in Days, d < today, Begun(d) = {}
  PROVE  Report(d)' = Report(d)
<1>1. d \in Nat \ {0} /\ today # d
  BY DEF TypedInv, ChartTypeOK, Days
<1>2. ASSUME NEW k \in References \union EntryKeys, NEW row \in NewJournal, Posts(k, row)
      PROVE  Report(d)' = Report(d)
  <2>1. row.day # d
    BY <1>1, <1>2 DEF Posts, Begun
  <2>2. row.reversed # d
    BY <1>1 DEF NewJournal
  <2>3. /\ DOMAIN journal' = DOMAIN journal \union {k} /\ k \notin DOMAIN journal
        /\ \A j \in DOMAIN journal : journal'[j] = journal[j]
        /\ journal'[k] = row
    BY <1>2 DEF Posts, Put
  <2> QED
    BY <2>1, <2>2, <2>3 DEF Report
<1>3. ASSUME NEW r \in Clerks, PostReversal(r)
      PROVE  Report(d)' = Report(d)
  <2> PICK k, day : k = desk[r].key /\ day = desk[r].day
    OBVIOUS
  <2>1. day # d
    BY <1>3 DEF PostReversal, Begun
  <2>2. k \in DOMAIN journal /\ journal[k].reversed # d
    BY <1>1, <1>3 DEF PostReversal, TypedInv, ReversalsExist, At
  <2>3. journal[k] \in Journal /\ journal' = [journal EXCEPT ![k].reversed = day]
    BY <1>3, <2>2 DEF PostReversal, TypedInv, ChartTypeOK
  <2>4. /\ DOMAIN journal' = DOMAIN journal
        /\ \A j \in DOMAIN journal : j # k => journal'[j] = journal[j]
        /\ journal'[k].day = journal[k].day /\ journal'[k].reversed = day
    BY <2>2, <2>3 DEF Journal
  <2> QED
    BY <2>1, <2>2, <2>4 DEF Report
<1>4. CASE UNCHANGED journal
  BY <1>4 DEF Report
<1> QED
  BY <1>2, <1>3, <1>4, JournalMovesSo DEF JournalMoves, TypedInv

(* A change of class is taken up only while the account has no postings.   *)
LEMMA ClassStep ==
  ASSUME TypedInv, [BooksNext]_bookVars, NEW a \in DOMAIN chart
  PROVE  ClassStands(a)
<1> SUFFICES ASSUME HasLines(a), Reclassing(a) = {}
             PROVE  Reclassing(a)' = {} /\ chart'[a].class = chart[a].class
  BY DEF ClassStands
<1>1. desk \in [Clerks -> Errand] /\ chart[a] \in Account
  BY DEF TypedInv, ChartTypeOK
<1>2. chart'[a].class = chart[a].class
  <2>1. ASSUME NEW r \in Clerks, CommitCreate(r)
        PROVE  chart'[a].class = chart[a].class
    BY <2>1 DEF CommitCreate, Put
  <2>2. ASSUME NEW r \in Clerks, CommitUpdate(r)
        PROVE  chart'[a].class = chart[a].class
    <3> PICK x, c, p : x = desk[r].account /\ c = desk[r].class /\ p = desk[r].parent
      OBVIOUS
    <3>1. c \in Classes \union {Keep} /\ p \in Accounts \union {None, Keep}
      BY <1>1, <2>2, ErrandKinds DEF CommitUpdate, At
    <3>2. chart' = [chart EXCEPT ![x] = Changed(@, c, p)]
      BY <2>2 DEF CommitUpdate
    <3>3. CASE x = a
      <4>1. c \in {Keep, chart[a].class}
        BY <2>2, <3>3 DEF Reclassing, CommitUpdate
      <4>2. chart'[a].class = Given(c, chart[a].class)
        BY <1>1, <3>1, <3>2, <3>3, ChangedTyped
      <4> QED
        BY <4>1, <4>2 DEF Given
    <3>4. CASE x # a
      BY <3>2, <3>4
    <3> QED
      BY <3>3, <3>4
  <2>3. ASSUME NEW r \in Clerks, CommitArchive(r)
        PROVE  chart'[a].class = chart[a].class
    BY <1>1, <2>3 DEF CommitArchive, Account
  <2> QED
    BY <2>1, <2>2, <2>3, ChartMovesSo DEF ChartMoves
<1>3. ASSUME NEW r \in Clerks, NEW q \in Errand, Seat(r, q), Sound(q)
      PROVE  Reclassing(a)' = {}
  <2>1. q.pc = "update" /\ q.account = a => q.class \in {Keep, chart[a].class}
    BY <1>3 DEF Sound, MayReclass
  <2>2. \A c \in Clerks : desk'[c] = q \/ desk'[c] = desk[c]
    BY <1>1, <1>3 DEF Seat
  <2> QED
    BY <1>2, <2>1, <2>2 DEF Reclassing, At
<1>4. CASE UNCHANGED desk
  BY <1>2, <1>4 DEF Reclassing, At
<1> QED
  BY <1>2, <1>3, <1>4, EveryStepTakesUp DEF TakesUp, TypedInv, VersionInv, BooksTyped

(* The reports of closed days are final and accounts stay in their section *)
(* of them, though no period and no account is locked while it is read:    *)
(* for any number of claims, journals, accounts and requests, as long as   *)
(* closings come one at a time.                                            *)
THEOREM ReportsAreFinal ==
  ASSUME ~ClosingsMeet
  PROVE  BooksSpec => ReportsStand
<1>1. BooksSpec => [](TypedInv /\ ClosersInv)
  <2>1. BooksInit => TypedInv /\ ClosersInv
    BY TypedInit, ClosersInit
  <2>2. TypedInv /\ ClosersInv /\ [BooksNext]_bookVars => (TypedInv /\ ClosersInv)'
    BY TypedStep, ClosersStep
  <2> QED
    BY <2>1, <2>2, PTL DEF BooksSpec
<1>2. TypedInv /\ ClosersInv /\ [BooksNext]_bookVars =>
        [/\ \A d \in Days : d < today => DayStands(d)
         /\ \A a \in DOMAIN chart : ClassStands(a)]_chartVars
  BY StaysClosed, NobodyBegins, ReportSame, ClassStep DEF DayStands
<1> QED
  BY <1>1, <1>2, PTL DEF BooksSpec, ReportsStand
=============================================================================
