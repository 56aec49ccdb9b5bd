------------------------ MODULE WalletLedgerProofs ------------------------
(***************************************************************************)
(* The balance of a wallet, the ledger and the rows agree, for any number  *)
(* of wallets, direct transactions, transfers and requests, as long as the *)
(* row that stands for an opening balance is left alone.                   *)
(***************************************************************************)
EXTENDS WalletLedger, PostingProofs

USE WalletAssumption

-----------------------------------------------------------------------------
(* What the three kinds of draft move.                                     *)

LEMMA WalletRefs ==
  ASSUME NEW p
  PROVE  /\ \A k : System(k) \notin {BookCash(p), Wallet(p)}
         /\ \A w : Wallet(w) \in {BookCash(p), Wallet(p)} <=> w = p
BY RefsDiffer

LEMMA DirectCash ==
  ASSUME NEW d \in Draft, d.rule = "ACCOUNT_TRANSACTION", NEW p
  PROVE  /\ CashDelta(d, p) = IF p = d.wallet THEN WalletDelta(d.money) ELSE 0
         /\ WalletDelta(d.money) \in Int
<1> DEFINE R == {BookCash(p), Wallet(p)}
           a == d.money.amount
           c == d.money.charge
           l == Legs(d)
<1>1. d.money.type \in {"INCOME", "EXPENSE"} /\ a \in Nat /\ c \in Nat /\ l = WalletTxLegs(d)
  BY DEF Draft, EntryTypes, Legs
<1>2. CASE d.money.type = "INCOME"
  <2>1. /\ l[1] = Dr(Wallet(d.wallet), a - c) /\ l[2] = Dr(System("TRANSACTION_FEES"), c)
        /\ l[3] = Cr(System("OTHER_INCOME"), a) /\ l[4] = NoLeg /\ l[5] = NoLeg
    BY <1>1, <1>2 DEF WalletTxLegs
  <2>2. /\ NetOn(l, 1, R) = (IF p = d.wallet THEN a - c ELSE 0)
        /\ NetOn(l, 2, R) = 0 /\ NetOn(l, 3, R) = 0 /\ NetOn(l, 4, R) = 0 /\ NetOn(l, 5, R) = 0
    <3> HIDE DEF R, l
    <3> QED
      BY <1>1, <2>1, WalletRefs DEF R, NetOn, Net, Dr, Cr, NoLeg
  <2> HIDE DEF l
  <2> QED
    BY <1>1, <1>2, <2>2 DEF CashDelta, DeltaOn, WalletDelta, EffectiveCash, l
<1>3. CASE d.money.type = "EXPENSE"
  <2>1. /\ l[1] = Dr(System("GENERAL_EXPENSES"), a) /\ l[2] = Dr(System("TRANSACTION_FEES"), c)
        /\ l[3] = Cr(Wallet(d.wallet), a + c) /\ l[4] = NoLeg /\ l[5] = NoLeg
    BY <1>1, <1>3 DEF WalletTxLegs
  <2>2. /\ NetOn(l, 3, R) = (IF p = d.wallet THEN -(a + c) ELSE 0)
        /\ NetOn(l, 1, R) = 0 /\ NetOn(l, 2, R) = 0 /\ NetOn(l, 4, R) = 0 /\ NetOn(l, 5, R) = 0
    <3> HIDE DEF R, l
    <3> QED
      BY <1>1, <2>1, WalletRefs DEF R, NetOn, Net, Dr, Cr, NoLeg
  <2> HIDE DEF l
  <2> QED
    BY <1>1, <1>3, <2>2 DEF CashDelta, DeltaOn, WalletDelta, EffectiveCash, l
<1> QED
  BY <1>1, <1>2, <1>3

LEMMA OpeningCash ==
  ASSUME NEW d \in Draft, d.rule = "ACCOUNT_OPENING", NEW p
  PROVE  CashDelta(d, p) = (IF p = d.wallet THEN d.signed ELSE 0) /\ d.signed \in Nat
<1> DEFINE R == {BookCash(p), Wallet(p)}
           l == Legs(d)
           s == d.signed
<1>1. s \in Nat /\ l = OpeningLegs(d)
  BY DEF Draft, Legs
<1>2. /\ l[1] = Dr(Wallet(d.wallet), s) /\ l[2] = Cr(System("OPENING_BALANCE_EQUITY"), s)
      /\ l[3] = NoLeg /\ l[4] = NoLeg /\ l[5] = NoLeg
  BY <1>1 DEF OpeningLegs
<1>3. /\ NetOn(l, 1, R) = (IF p = d.wallet THEN s ELSE 0)
      /\ NetOn(l, 2, R) = 0 /\ NetOn(l, 3, R) = 0 /\ NetOn(l, 4, R) = 0 /\ NetOn(l, 5, R) = 0
  <2> HIDE DEF R, l
  <2> QED
    BY <1>1, <1>2, WalletRefs DEF R, NetOn, Net, Dr, Cr, NoLeg
<1> HIDE DEF l
<1> QED
  BY <1>1, <1>3 DEF CashDelta, DeltaOn, l

LEMMA TransferCash ==
  ASSUME NEW d \in Draft, d.rule = "ACCOUNT_TRANSFER", NEW p
  PROVE  /\ CashDelta(d, p) = (IF p = d.to THEN d.amount ELSE 0)
                                - (IF p = d.from THEN d.amount + d.fee ELSE 0)
         /\ d.amount \in Nat /\ d.fee \in Nat
<1> DEFINE R == {BookCash(p), Wallet(p)}
           l == Legs(d)
           a == d.amount
           c == d.fee
<1>1. a \in Nat /\ c \in Nat /\ l = TransferLegs(d)
  BY DEF Draft, Legs
<1>2. /\ l[1] = Dr(Wallet(d.to), a) /\ l[2] = Dr(System("TRANSACTION_FEES"), c)
      /\ l[3] = Cr(Wallet(d.from), a + c) /\ l[4] = NoLeg /\ l[5] = NoLeg
  BY <1>1 DEF TransferLegs
<1>3. /\ NetOn(l, 1, R) = (IF p = d.to THEN a ELSE 0)
      /\ NetOn(l, 3, R) = (IF p = d.from THEN -(a + c) ELSE 0)
      /\ NetOn(l, 2, R) = 0 /\ NetOn(l, 4, R) = 0 /\ NetOn(l, 5, R) = 0
  <2> HIDE DEF R, l
  <2> QED
    BY <1>1, <1>2, WalletRefs DEF R, NetOn, Net, Dr, Cr, NoLeg
<1> HIDE DEF l
<1> QED
  BY <1>1, <1>3 DEF CashDelta, DeltaOn, l

(* A wallet no leg names is not moved, and there are no activity totals.    *)
LEMMA DraftWeighs ==
  ASSUME NEW d \in Draft
  PROVE  /\ Weighs(d)
         /\ \A w : (\A i \in Slots : Legs(d)[i].ref # Wallet(w)) => CashDelta(d, w) = 0
<1>1. d.rule \in {"ACCOUNT_TRANSACTION", "ACCOUNT_OPENING", "ACCOUNT_TRANSFER"}
  BY DEF Draft
<1>2. \A p : TotalIncome(d, p) = 0 /\ TotalExpense(d, p) = 0
  BY <1>1 DEF TotalIncome, TotalExpense, CountsFor
<1>3. CASE d.rule = "ACCOUNT_TRANSACTION"
  <2>1. \A p : CashDelta(d, p) \in Int
    BY <1>3, DirectCash
  <2>2. Legs(d)[1].ref = Wallet(d.wallet) \/ Legs(d)[3].ref = Wallet(d.wallet)
    BY <1>3 DEF Legs, WalletTxLegs, Dr, Cr
  <2> QED
    BY <1>2, <1>3, <2>1, <2>2, DirectCash DEF Weighs, Slots
<1>4. CASE d.rule = "ACCOUNT_OPENING"
  <2>1. \A p : CashDelta(d, p) \in Int
    BY <1>4, OpeningCash
  <2>2. Legs(d)[1].ref = Wallet(d.wallet)
    <3>1. d.signed \in Nat
      BY <1>4, OpeningCash
    <3> QED
      BY <1>4, <3>1 DEF Legs, OpeningLegs, Dr, Cr
  <2> QED
    BY <1>2, <1>4, <2>1, <2>2, OpeningCash DEF Weighs, Slots
<1>5. CASE d.rule = "ACCOUNT_TRANSFER"
  <2>1. \A p : CashDelta(d, p) \in Int
    BY <1>5, TransferCash
  <2>2. Legs(d)[1].ref = Wallet(d.to) /\ Legs(d)[3].ref = Wallet(d.from)
    BY <1>5 DEF Legs, TransferLegs, Dr, Cr
  <2>3. \A p : p # d.to /\ p # d.from => CashDelta(d, p) = 0
    BY <1>5, TransferCash
  <2> QED
    BY <1>2, <2>1, <2>2, <2>3 DEF Weighs, Slots
<1> QED
  BY <1>1, <1>3, <1>4, <1>5

-----------------------------------------------------------------------------
(* The sums over the rows.                                                 *)

(* What one row moves on a wallet.                                          *)
Moves(row, w) == IF row.wallet = w /\ ~row.voided THEN WalletDelta(row.money) ELSE 0
Gets(row, w)  == IF row.to = w THEN row.amount ELSE 0
Gives(row, w) == IF row.from = w THEN row.amount + row.fee ELSE 0

RowSum(D, w) ==
  MapThenSumSet(LAMBDA t : WalletDelta(D[t].money),
                {t \in DOMAIN D : D[t].wallet = w /\ ~D[t].voided})
InSum(X, w)  == MapThenSumSet(LAMBDA x : X[x].amount, {x \in DOMAIN X : X[x].to = w})
OutSum(X, w) == MapThenSumSet(LAMBDA x : X[x].amount + X[x].fee, {x \in DOMAIN X : X[x].from = w})

LEMMA BalanceIsSums ==
  ASSUME NEW w
  PROVE  /\ RowBalance(w) = RowSum(directTx, w) + InSum(transfer, w) - OutSum(transfer, w)
         /\ (RowBalance(w))' = RowSum(directTx', w) + InSum(transfer', w) - OutSum(transfer', w)
<1>1. RowBalance(w) = RowSum(directTx, w) + InSum(transfer, w) - OutSum(transfer, w)
  BY DEF RowBalance, RowSum, InSum, OutSum, Alive, Arrived, Left
<1>2. (RowBalance(w))' = RowSum(directTx', w) + InSum(transfer', w) - OutSum(transfer', w)
  BY DEF RowBalance, RowSum, InSum, OutSum, Alive, Arrived, Left, MapThenSumSet, MapThenFoldSet
<1> QED
  BY <1>1, <1>2

Rows(D)  == IsFiniteSet(DOMAIN D) /\ \A t \in DOMAIN D : D[t] \in DirectTx
Moved(X) == IsFiniteSet(DOMAIN X) /\ \A x \in DOMAIN X : X[x] \in Transfer

LEMMA MovesType ==
  ASSUME NEW row \in DirectTx, NEW w
  PROVE  Moves(row, w) \in Int /\ WalletDelta(row.money) \in Int
BY DEF Moves, DirectTx, WalletDelta, EffectiveCash

(* A part of a finite set that has all there is to sum.                     *)
LEMMA PartSum ==
  ASSUME NEW D, NEW g, Summable(g, D), NEW S \in SUBSET D, NEW f, \A x \in S : f[x] = g[x],
         \A x \in D \ S : g[x] = 0
  PROVE  Over(f, S) = Over(g, D)
<1>1. Over(g, D) = Over(g, S)
  BY SumZeros
<1>2. Over(g, S) = Over(f, S)
  BY SumSame
<1> QED
  BY <1>1, <1>2

LEMMA RowSumIs ==
  ASSUME NEW D, Rows(D), NEW w
  PROVE  /\ RowSum(D, w) = Over([t \in DOMAIN D |-> Moves(D[t], w)], DOMAIN D)
         /\ Summable([t \in DOMAIN D |-> Moves(D[t], w)], DOMAIN D)
<1> DEFINE S == {t \in DOMAIN D : D[t].wallet = w /\ ~D[t].voided}
           v(t) == WalletDelta(D[t].money)
           f == [t \in S |-> v(t)]
           A(h) == [s \in SUBSET S |-> IF s = {} THEN 0 ELSE v(Pick(s)) + h[s \ {Pick(s)}]]
           B(h) == [s \in SUBSET S |-> IF s = {} THEN 0 ELSE f[Pick(s)] + h[s \ {Pick(s)}]]
<1>1. \A s \in SUBSET S : s # {} => f[Pick(s)] = v(Pick(s))
  BY PickIn
<1>2. \A h : A(h) = B(h)
  BY <1>1
<1>3. (CHOOSE h : h = A(h)) = (CHOOSE h : h = B(h))
  BY <1>2
<1>4. RowSum(D, w) = (CHOOSE h : h = A(h))[S]
  BY DEF RowSum, MapThenSumSet, MapThenFoldSet, Pick
<1>5. Over(f, S) = (CHOOSE h : h = B(h))[S]
  BY DEF Over, MapThenSumSet, MapThenFoldSet, Pick
<1>6. PICK g : g = [t \in DOMAIN D |-> Moves(D[t], w)]
  OBVIOUS
<1>7. Summable(g, DOMAIN D)
  BY <1>6, MovesType DEF Summable, Rows
<1>8. /\ \A t \in S : f[t] = g[t]
      /\ \A t \in DOMAIN D \ S : g[t] = 0
      /\ S \in SUBSET DOMAIN D
  BY <1>6 DEF Moves
<1> HIDE DEF S, f
<1>9. Over(f, S) = Over(g, DOMAIN D)
  BY <1>7, <1>8, PartSum
<1> QED
  BY <1>3, <1>4, <1>5, <1>6, <1>7, <1>9

LEMMA InSumIs ==
  ASSUME NEW X, Moved(X), NEW w
  PROVE  /\ InSum(X, w) = Over([x \in DOMAIN X |-> Gets(X[x], w)], DOMAIN X)
         /\ Summable([x \in DOMAIN X |-> Gets(X[x], w)], DOMAIN X)
<1> DEFINE S == {x \in DOMAIN X : X[x].to = w}
           v(x) == X[x].amount
           f == [x \in S |-> v(x)]
           A(h) == [s \in SUBSET S |-> IF s = {} THEN 0 ELSE v(Pick(s)) + h[s \ {Pick(s)}]]
           B(h) == [s \in SUBSET S |-> IF s = {} THEN 0 ELSE f[Pick(s)] + h[s \ {Pick(s)}]]
<1>1. \A s \in SUBSET S : s # {} => f[Pick(s)] = v(Pick(s))
  BY PickIn
<1>2. \A h : A(h) = B(h)
  BY <1>1
<1>3. (CHOOSE h : h = A(h)) = (CHOOSE h : h = B(h))
  BY <1>2
<1>4. InSum(X, w) = (CHOOSE h : h = A(h))[S]
  BY DEF InSum, MapThenSumSet, MapThenFoldSet, Pick
<1>5. Over(f, S) = (CHOOSE h : h = B(h))[S]
  BY DEF Over, MapThenSumSet, MapThenFoldSet, Pick
<1>6. PICK g : g = [x \in DOMAIN X |-> Gets(X[x], w)]
  OBVIOUS
<1>7. Summable(g, DOMAIN X)
  BY <1>6 DEF Summable, Moved, Transfer, Gets
<1>8. /\ \A x \in S : f[x] = g[x]
      /\ \A x \in DOMAIN X \ S : g[x] = 0
      /\ S \in SUBSET DOMAIN X
  BY <1>6 DEF Gets
<1> HIDE DEF S, f
<1>9. Over(f, S) = Over(g, DOMAIN X)
  BY <1>7, <1>8, PartSum
<1> QED
  BY <1>3, <1>4, <1>5, <1>6, <1>7, <1>9

LEMMA OutSumIs ==
  ASSUME NEW X, Moved(X), NEW w
  PROVE  /\ OutSum(X, w) = Over([x \in DOMAIN X |-> Gives(X[x], w)], DOMAIN X)
         /\ Summable([x \in DOMAIN X |-> Gives(X[x], w)], DOMAIN X)
<1> DEFINE S == {x \in DOMAIN X : X[x].from = w}
           v(x) == X[x].amount + X[x].fee
           f == [x \in S |-> v(x)]
           A(h) == [s \in SUBSET S |-> IF s = {} THEN 0 ELSE v(Pick(s)) + h[s \ {Pick(s)}]]
           B(h) == [s \in SUBSET S |-> IF s = {} THEN 0 ELSE f[Pick(s)] + h[s \ {Pick(s)}]]
<1>1. \A s \in SUBSET S : s # {} => f[Pick(s)] = v(Pick(s))
  BY PickIn
<1>2. \A h : A(h) = B(h)
  BY <1>1
<1>3. (CHOOSE h : h = A(h)) = (CHOOSE h : h = B(h))
  BY <1>2
<1>4. OutSum(X, w) = (CHOOSE h : h = A(h))[S]
  BY DEF OutSum, MapThenSumSet, MapThenFoldSet, Pick
<1>5. Over(f, S) = (CHOOSE h : h = B(h))[S]
  BY DEF Over, MapThenSumSet, MapThenFoldSet, Pick
<1>6. PICK g : g = [x \in DOMAIN X |-> Gives(X[x], w)]
  OBVIOUS
<1>7. Summable(g, DOMAIN X)
  BY <1>6 DEF Summable, Moved, Transfer, Gives
<1>8. /\ \A x \in S : f[x] = g[x]
      /\ \A x \in DOMAIN X \ S : g[x] = 0
      /\ S \in SUBSET DOMAIN X
  BY <1>6 DEF Gives
<1> HIDE DEF S, f
<1>9. Over(f, S) = Over(g, DOMAIN X)
  BY <1>7, <1>8, PartSum
<1> QED
  BY <1>3, <1>4, <1>5, <1>6, <1>7, <1>9

(* What a new row, a changed row and rows taken away do to the sums.        *)
LEMMA RowSumMoves ==
  ASSUME NEW D, Rows(D), NEW w
  PROVE  /\ RowSum(D, w) \in Int
         /\ \A t : \A row \in DirectTx : t \notin DOMAIN D =>
              RowSum(With(D, t, row), w) = RowSum(D, w) + Moves(row, w)
         /\ \A F : \A t \in DOMAIN D :
              Rows(F) /\ DOMAIN F = DOMAIN D /\ (\A x \in DOMAIN D \ {t} : F[x] = D[x])
              => RowSum(F, w) = RowSum(D, w) - Moves(D[t], w) + Moves(F[t], w)
         /\ \A S : (\A t \in S : t \in DOMAIN D => Moves(D[t], w) = 0) =>
              RowSum(Within(D, S), w) = RowSum(D, w)
<1>1. PICK f : f = [t \in DOMAIN D |-> Moves(D[t], w)]
  OBVIOUS
<1>2. RowSum(D, w) = Over(f, DOMAIN D) /\ Summable(f, DOMAIN D)
  BY <1>1, RowSumIs
<1>3. ASSUME NEW t, NEW row \in DirectTx, t \notin DOMAIN D
      PROVE  RowSum(With(D, t, row), w) = RowSum(D, w) + Moves(row, w)
  <2>1. PICK F : F = With(D, t, row)
    OBVIOUS
  <2>2. /\ DOMAIN F = DOMAIN D \union {t} /\ F[t] = row
        /\ \A x \in DOMAIN D : F[x] = D[x]
    BY <1>3, <2>1 DEF With
  <2>3. Rows(F)
    BY <2>2, FS_AddElement DEF Rows
  <2>4. PICK g : g = [x \in DOMAIN F |-> Moves(F[x], w)]
    OBVIOUS
  <2>5. RowSum(F, w) = Over(g, DOMAIN D \union {t})
    BY <2>2, <2>3, <2>4, RowSumIs
  <2>6. g[t] = Moves(row, w) /\ g[t] \in Int /\ \A x \in DOMAIN D : g[x] = f[x]
    BY <1>1, <2>2, <2>4, MovesType
  <2>7. Over(g, DOMAIN D \union {t}) = Over(f, DOMAIN D) + g[t]
    BY <1>2, <1>3, <2>6, SumOneMore
  <2> QED
    BY <1>2, <2>1, <2>5, <2>6, <2>7
<1>4. ASSUME NEW F, NEW t \in DOMAIN D, Rows(F), DOMAIN F = DOMAIN D,
             \A x \in DOMAIN D \ {t} : F[x] = D[x]
      PROVE  RowSum(F, w) = RowSum(D, w) - Moves(D[t], w) + Moves(F[t], w)
  <2>1. PICK g : g = [x \in DOMAIN F |-> Moves(F[x], w)]
    OBVIOUS
  <2>2. RowSum(F, w) = Over(g, DOMAIN D)
    BY <1>4, <2>1, RowSumIs
  <2>3. g[t] = Moves(F[t], w) /\ g[t] \in Int /\ \A x \in DOMAIN D \ {t} : g[x] = f[x]
    BY <1>1, <1>4, <2>1, MovesType DEF Rows
  <2>4. Over(g, DOMAIN D) = Over(f, DOMAIN D) - f[t] + g[t]
    BY <1>2, <2>3, SumChange
  <2> QED
    BY <1>1, <1>2, <2>2, <2>3, <2>4
<1>5. ASSUME NEW S, \A t \in S : t \in DOMAIN D => Moves(D[t], w) = 0
      PROVE  RowSum(Within(D, S), w) = RowSum(D, w)
  <2>1. PICK F : F = Within(D, S)
    OBVIOUS
  <2>2. DOMAIN F = DOMAIN D \ S /\ \A x \in DOMAIN F : F[x] = D[x]
    BY <2>1 DEF Within
  <2>3. Rows(F)
    BY <2>2, FS_Subset DEF Rows
  <2>4. PICK g : g = [x \in DOMAIN F |-> Moves(F[x], w)]
    OBVIOUS
  <2>5. RowSum(F, w) = Over(g, DOMAIN F)
    BY <2>3, <2>4, RowSumIs
  <2>6. /\ \A x \in DOMAIN F : g[x] = f[x]
        /\ \A x \in DOMAIN D \ DOMAIN F : f[x] = 0
        /\ DOMAIN F \in SUBSET DOMAIN D
    BY <1>1, <1>5, <2>2, <2>4
  <2>7. Over(g, DOMAIN F) = Over(f, DOMAIN D)
    BY <1>2, <2>6, PartSum
  <2> QED
    BY <1>2, <2>1, <2>5, <2>7
<1>6. RowSum(D, w) \in Int
  BY <1>2, SumType
<1> QED
  BY <1>3, <1>4, <1>5, <1>6

LEMMA InSumMoves ==
  ASSUME NEW X, Moved(X), NEW w
  PROVE  /\ InSum(X, w) \in Int
         /\ \A x : \A row \in Transfer : x \notin DOMAIN X =>
              InSum(With(X, x, row), w) = InSum(X, w) + Gets(row, w)
<1>1. PICK f : f = [x \in DOMAIN X |-> Gets(X[x], w)]
  OBVIOUS
<1>2. InSum(X, w) = Over(f, DOMAIN X) /\ Summable(f, DOMAIN X)
  BY <1>1, InSumIs
<1>3. ASSUME NEW x, NEW row \in Transfer, x \notin DOMAIN X
      PROVE  InSum(With(X, x, row), w) = InSum(X, w) + Gets(row, w)
  <2>1. PICK F : F = With(X, x, row)
    OBVIOUS
  <2>2. /\ DOMAIN F = DOMAIN X \union {x} /\ F[x] = row
        /\ \A y \in DOMAIN X : F[y] = X[y]
    BY <1>3, <2>1 DEF With
  <2>3. Moved(F)
    BY <2>2, FS_AddElement DEF Moved
  <2>4. PICK g : g = [y \in DOMAIN F |-> Gets(F[y], w)]
    OBVIOUS
  <2>5. InSum(F, w) = Over(g, DOMAIN X \union {x})
    BY <2>2, <2>3, <2>4, InSumIs
  <2>6. g[x] = Gets(row, w) /\ g[x] \in Int /\ \A y \in DOMAIN X : g[y] = f[y]
    BY <1>1, <2>2, <2>4 DEF Gets, Transfer
  <2>7. Over(g, DOMAIN X \union {x}) = Over(f, DOMAIN X) + g[x]
    BY <1>2, <1>3, <2>6, SumOneMore
  <2> QED
    BY <1>2, <2>1, <2>5, <2>6, <2>7
<1> QED
  BY <1>2, <1>3, SumType

LEMMA OutSumMoves ==
  ASSUME NEW X, Moved(X), NEW w
  PROVE  /\ OutSum(X, w) \in Int
         /\ \A x : \A row \in Transfer : x \notin DOMAIN X =>
              OutSum(With(X, x, row), w) = OutSum(X, w) + Gives(row, w)
<1>1. PICK f : f = [x \in DOMAIN X |-> Gives(X[x], w)]
  OBVIOUS
<1>2. OutSum(X, w) = Over(f, DOMAIN X) /\ Summable(f, DOMAIN X)
  BY <1>1, OutSumIs
<1>3. ASSUME NEW x, NEW row \in Transfer, x \notin DOMAIN X
      PROVE  OutSum(With(X, x, row), w) = OutSum(X, w) + Gives(row, w)
  <2>1. PICK F : F = With(X, x, row)
    OBVIOUS
  <2>2. /\ DOMAIN F = DOMAIN X \union {x} /\ F[x] = row
        /\ \A y \in DOMAIN X : F[y] = X[y]
    BY <1>3, <2>1 DEF With
  <2>3. Moved(F)
    BY <2>2, FS_AddElement DEF Moved
  <2>4. PICK g : g = [y \in DOMAIN F |-> Gives(F[y], w)]
    OBVIOUS
  <2>5. OutSum(F, w) = Over(g, DOMAIN X \union {x})
    BY <2>2, <2>3, <2>4, OutSumIs
  <2>6. g[x] = Gives(row, w) /\ g[x] \in Int /\ \A y \in DOMAIN X : g[y] = f[y]
    BY <1>1, <2>2, <2>4 DEF Gives, Transfer
  <2>7. Over(g, DOMAIN X \union {x}) = Over(f, DOMAIN X) + g[x]
    BY <1>2, <1>3, <2>6, SumOneMore
  <2> QED
    BY <1>2, <2>1, <2>5, <2>6, <2>7
<1> QED
  BY <1>2, <1>3, SumType

(* A wallet that no row and no transfer is of has nothing to sum.           *)
LEMMA NothingToSum ==
  ASSUME NEW w
  PROVE  /\ \A D : Rows(D) /\ (\A t \in DOMAIN D : D[t].wallet # w) => RowSum(D, w) = 0
         /\ \A X : Moved(X) /\ (\A x \in DOMAIN X : X[x].to # w /\ X[x].from # w)
              => InSum(X, w) = 0 /\ OutSum(X, w) = 0
<1>1. ASSUME NEW f, NEW S, Summable(f, S), \A x \in S : f[x] = 0
      PROVE  Over(f, S) = 0
  <2>1. Over(f, S) = Over(f, {})
    BY <1>1, SumZeros
  <2> QED
    BY <2>1, SumEmpty
<1>2. ASSUME NEW D, Rows(D), \A t \in DOMAIN D : D[t].wallet # w
      PROVE  RowSum(D, w) = 0
  <2>1. PICK f : f = [t \in DOMAIN D |-> Moves(D[t], w)]
    OBVIOUS
  <2>2. RowSum(D, w) = Over(f, DOMAIN D) /\ Summable(f, DOMAIN D)
    BY <1>2, <2>1, RowSumIs
  <2>3. \A t \in DOMAIN D : f[t] = 0
    BY <1>2, <2>1 DEF Moves
  <2> QED
    BY <1>1, <2>2, <2>3
<1>3. ASSUME NEW X, Moved(X), \A x \in DOMAIN X : X[x].to # w /\ X[x].from # w
      PROVE  InSum(X, w) = 0 /\ OutSum(X, w) = 0
  <2>1. PICK f : f = [x \in DOMAIN X |-> Gets(X[x], w)]
    OBVIOUS
  <2>2. InSum(X, w) = Over(f, DOMAIN X) /\ Summable(f, DOMAIN X)
    BY <1>3, <2>1, InSumIs
  <2>3. \A x \in DOMAIN X : f[x] = 0
    BY <1>3, <2>1 DEF Gets
  <2>4. PICK h : h = [x \in DOMAIN X |-> Gives(X[x], w)]
    OBVIOUS
  <2>5. OutSum(X, w) = Over(h, DOMAIN X) /\ Summable(h, DOMAIN X)
    BY <1>3, <2>4, OutSumIs
  <2>6. \A x \in DOMAIN X : h[x] = 0
    BY <1>3, <2>4 DEF Gives
  <2>7. InSum(X, w) = 0
    BY <1>1, <2>2, <2>3
  <2>8. OutSum(X, w) = 0
    BY <1>1, <2>5, <2>6
  <2> QED
    BY <2>7, <2>8
<1> QED
  BY <1>2, <1>3

-----------------------------------------------------------------------------
(* What posting and reversing do to the journals and to the balances.       *)

Kept(J) == /\ DOMAIN J \subseteq Keys
           /\ IsFiniteSet(DOMAIN J)
           /\ \A k \in DOMAIN J : J[k] \in Journal

Balances(A) == [cash : [A -> Int], income : [{} -> Int], expense : [{} -> Int]]

LEMMA KeptWeighed == ASSUME NEW J, Kept(J) PROVE Weighed(J)
BY DraftWeighs DEF Kept, Weighed, Journal

(* A wallet that no journal mentions has nothing in the ledger.             *)
LEMMA UnmentionedIsZero ==
  ASSUME NEW J, Kept(J), NEW w,
         \A k \in DOMAIN J : \A i \in Slots : Legs(J[k].draft)[i].ref # Wallet(w)
  PROVE  LedgerCash(J, w) = 0
<1>1. PICK f : f = [k \in Posted(J) |-> CashDelta(J[k].draft, w)]
  OBVIOUS
<1>2. LedgerCash(J, w) = Over(f, Posted(J))
  BY <1>1, CashIsSum
<1>3. \A k \in Posted(J) : k \in DOMAIN J /\ J[k].draft \in Draft
  BY DEF Posted, Kept, Journal
<1>4. \A k \in Posted(J) : f[k] = 0
  BY <1>1, <1>3, DraftWeighs
<1>5. IsFiniteSet(Posted(J))
  BY FS_Subset DEF Posted, Kept
<1>6. Over(f, Posted(J)) = Over(f, {})
  BY <1>4, <1>5, SumZeros DEF Summable
<1> QED
  BY <1>2, <1>6, SumEmpty

LEMMA DeltasAdd ==
  ASSUME NEW A, NEW C \in Balances(A), NEW d, Weighs(d), NEW s \in {1, -1}
  PROVE  /\ AddDeltas(C, d, s) \in Balances(A)
         /\ \A w \in A : AddDeltas(C, d, s).cash[w] = C.cash[w] + s * CashDelta(d, w)
<1>1. \A p : CashDelta(d, p) \in Int
  BY DEF Weighs
<1>2. /\ DOMAIN C.cash = A /\ C.cash \in [A -> Int]
      /\ DOMAIN C.income = {} /\ DOMAIN C.expense = {}
  BY DEF Balances
<1>3. \A p \in A : C.cash[p] + s * CashDelta(d, p) \in Int
  BY <1>1, <1>2
<1>4. AddDeltas(C, d, s).cash = [p \in A |-> C.cash[p] + s * CashDelta(d, p)]
  BY <1>2 DEF AddDeltas
<1>5. AddDeltas(C, d, s).income \in [{} -> Int] /\ AddDeltas(C, d, s).expense \in [{} -> Int]
  BY <1>2 DEF AddDeltas
<1>6. AddDeltas(C, d, s) = [cash |-> AddDeltas(C, d, s).cash,
                            income |-> AddDeltas(C, d, s).income,
                            expense |-> AddDeltas(C, d, s).expense]
  BY DEF AddDeltas
<1>7. AddDeltas(C, d, s).cash \in [A -> Int]
  BY <1>3, <1>4
<1> QED
  BY <1>4, <1>5, <1>6, <1>7 DEF Balances

LEMMA PostKeeps ==
  ASSUME NEW J, Kept(J), NEW A, NEW C \in Balances(A), CachesEqualLedger(J, C),
         NEW key \in Keys, key \notin DOMAIN J, NEW d \in Draft
  PROVE  /\ Kept(PostIn(J, key, d))
         /\ AddDeltas(C, d, 1) \in Balances(A)
         /\ CachesEqualLedger(PostIn(J, key, d), AddDeltas(C, d, 1))
         /\ \A w \in A : AddDeltas(C, d, 1).cash[w] = C.cash[w] + CashDelta(d, w)
<1>1. Weighed(J) /\ Weighs(d)
  BY KeptWeighed, DraftWeighs
<1>2. Kept(PostIn(J, key, d))
  BY FS_AddElement DEF PostIn, Kept, Journal
<1>3. CachesEqualLedger(PostIn(J, key, d), AddDeltas(C, d, 1))
  BY <1>1, PostFollows
<1>4. \A w : CashDelta(d, w) \in Int
  BY <1>1 DEF Weighs
<1>5. \A w : 1 * CashDelta(d, w) = CashDelta(d, w)
  BY <1>4
<1> QED
  BY <1>1, <1>2, <1>3, <1>5, DeltasAdd

LEMMA ReverseKeeps ==
  ASSUME NEW J, Kept(J), NEW A, NEW C \in Balances(A), CachesEqualLedger(J, C),
         NEW key, IsPosted(J, key)
  PROVE  /\ Kept(ReverseIn(J, key))
         /\ CachesAfterReverse(J, C, key) \in Balances(A)
         /\ CachesEqualLedger(ReverseIn(J, key), CachesAfterReverse(J, C, key))
         /\ \A w \in A : CachesAfterReverse(J, C, key).cash[w]
                           = C.cash[w] - CashDelta(J[key].draft, w)
<1> DEFINE d == J[key].draft
<1>1. Weighed(J) /\ Weighs(d)
  BY KeptWeighed DEF Weighed, IsPosted
<1>2. Kept(ReverseIn(J, key))
  BY DEF ReverseIn, IsPosted, Kept, Journal
<1>3. CachesEqualLedger(ReverseIn(J, key), CachesAfterReverse(J, C, key))
  BY <1>1, ReverseFollows
<1>4. \A w : CashDelta(d, w) \in Int
  BY <1>1 DEF Weighs
<1>5. \A w \in A : C.cash[w] + (-1) * CashDelta(d, w) = C.cash[w] - CashDelta(d, w)
  BY <1>4 DEF Balances
<1>6. CachesAfterReverse(J, C, key) = AddDeltas(C, d, -1)
  BY DEF CachesAfterReverse
<1> QED
  BY <1>1, <1>2, <1>3, <1>5, <1>6, DeltasAdd

(* The journals after a reversal.                                           *)
LEMMA ReversedJournals ==
  ASSUME NEW J, NEW key, IsPosted(J, key), J[key] \in Journal
  PROVE  /\ DOMAIN ReverseIn(J, key) = DOMAIN J
         /\ \A k \in DOMAIN J : k # key => ReverseIn(J, key)[k] = J[k]
         /\ \A k \in DOMAIN J : ReverseIn(J, key)[k].draft = J[k].draft
         /\ ~IsPosted(ReverseIn(J, key), key)
<1>1. key \in DOMAIN J /\ ReverseIn(J, key) = [J EXCEPT ![key].status = "REVERSED"]
  BY DEF ReverseIn, IsPosted
<1>2. /\ DOMAIN ReverseIn(J, key) = DOMAIN J
      /\ \A k \in DOMAIN J : k # key => ReverseIn(J, key)[k] = J[k]
      /\ ReverseIn(J, key)[key] = [J[key] EXCEPT !.status = "REVERSED"]
  BY <1>1
<1>3. [J[key] EXCEPT !.status = "REVERSED"].draft = J[key].draft
  OBVIOUS
<1>4. [J[key] EXCEPT !.status = "REVERSED"].status = "REVERSED"
  BY DEF Journal
<1>5. \A k \in DOMAIN J : ReverseIn(J, key)[k].draft = J[k].draft
  BY <1>2, <1>3
<1>6. ~IsPosted(ReverseIn(J, key), key)
  BY <1>2, <1>4 DEF IsPosted
<1> QED
  BY <1>2, <1>5, <1>6

LEMMA KeysDiffer ==
  ASSUME NEW t, NEW v
  PROVE  /\ \A u, n : TxKey(t, v) = TxKey(u, n) => t = u /\ v = n
         /\ \A w : TxKey(t, v) # OpenKey(w) /\ TxKey(t, v) # TransferKey(w)
         /\ \A w, x : OpenKey(w) # TransferKey(x)
         /\ \A w, x : OpenKey(w) = OpenKey(x) => w = x
         /\ \A w, x : TransferKey(w) = TransferKey(x) => w = x
         /\ t \in Txs /\ v \in Versions => TxKey(t, v) \in Keys
         /\ \A w \in Wallets : OpenKey(w) \in Keys
         /\ \A x \in Transfers : TransferKey(x) \in Keys
BY DEF TxKey, OpenKey, TransferKey, Keys

-----------------------------------------------------------------------------
(* The inductive invariant.                                                *)

(* Rows and transfers are of accounts that exist.                           *)
RowsHaveWallets ==
  /\ \A t \in DOMAIN directTx : directTx[t].wallet \in DOMAIN account
  /\ \A x \in DOMAIN transfer : transfer[x].from \in DOMAIN account
                                /\ transfer[x].to \in DOMAIN account

(* No version of a row is posted ahead, and an opening row has no journal   *)
(* under any.                                                               *)
NoKeyAhead ==
  \A t \in DOMAIN directTx : \A v \in Versions :
    TxKey(t, v) \in DOMAIN journals => v <= directTx[t].version /\ ~IsOpening(t)

(* A row in force that is not an opening row has its journal in force.      *)
RowsArePosted ==
  \A t \in DOMAIN directTx :
    ~directTx[t].voided /\ ~IsOpening(t) => IsPosted(journals, TxKey(t, directTx[t].version))

(* The other journals are known by their keys.                              *)
KeysTell ==
  /\ \A w \in Wallets : OpenKey(w) \in DOMAIN journals =>
       journals[OpenKey(w)].draft.rule = "ACCOUNT_OPENING"
         /\ journals[OpenKey(w)].draft.wallet = w
  /\ \A x \in Transfers : TransferKey(x) \in DOMAIN journals => x \in DOMAIN transfer

Accounts ==
  /\ DOMAIN account \subseteq Wallets /\ \A w \in DOMAIN account : account[w] \in Account
  /\ DOMAIN directTx \subseteq Txs /\ Rows(directTx)
  /\ DOMAIN transfer \subseteq Transfers /\ Moved(transfer)
  /\ Kept(journals)
  /\ caches \in Balances(DOMAIN account)
  /\ req \in [Requests -> Request]

WalletInv ==
  /\ Accounts
  /\ RowsHaveWallets
  /\ NoKeyAhead
  /\ RowsArePosted
  /\ KeysTell
  /\ OneJournalInForce
  /\ CachesFollowLedger
  /\ BalanceMatchesRows

LEMMA InitWallet == Init => WalletInv
<1> SUFFICES ASSUME Init PROVE WalletInv
  OBVIOUS
<1>1. /\ DOMAIN account = {} /\ DOMAIN directTx = {} /\ DOMAIN transfer = {}
      /\ DOMAIN journals = {} /\ DOMAIN caches.cash = {} /\ DOMAIN caches.income = {}
      /\ DOMAIN caches.expense = {} /\ req \in [Requests -> Request]
  BY DEF Init, Request
<1>2. caches \in Balances(DOMAIN account)
  BY DEF Init, Balances
<1>3. Accounts
  BY <1>1, <1>2, FS_EmptySet DEF Accounts, Rows, Moved, Kept
<1>4. RowsHaveWallets /\ NoKeyAhead /\ RowsArePosted /\ KeysTell /\ OneJournalInForce
  BY <1>1 DEF RowsHaveWallets, NoKeyAhead, RowsArePosted, KeysTell, OneJournalInForce
<1>5. CachesFollowLedger /\ BalanceMatchesRows
  BY <1>1 DEF CachesFollowLedger, CachesEqualLedger, BalanceMatchesRows
<1> QED
  BY <1>3, <1>4, <1>5 DEF WalletInv

-----------------------------------------------------------------------------
(* The actions, one after the other.                                       *)

(* Requests that read, and those that give up.                              *)
LEMMA ReadsKeep ==
  ASSUME WalletInv,
         \/ \E r \in Requests, w \in Wallets, b \in BOOLEAN : ReadArchive(r, w, b)
         \/ \E r \in Requests, w \in Wallets : ReadRemove(r, w)
         \/ \E r \in Requests : Abandon(r)
         \/ UNCHANGED vars
  PROVE  WalletInv'
<1>1. UNCHANGED <<account, directTx, transfer, journals, caches>>
  BY DEF ReadArchive, ReadRemove, Abandon, vars
<1>2. req' \in [Requests -> Request]
  BY DEF WalletInv, Accounts, ReadArchive, ReadRemove, Abandon, Finish, Request, vars
<1>3. Accounts'
  BY <1>1, <1>2 DEF WalletInv, Accounts
<1>4. /\ RowsHaveWallets' /\ NoKeyAhead' /\ RowsArePosted' /\ KeysTell' /\ OneJournalInForce'
      /\ CachesFollowLedger'
  BY <1>1 DEF WalletInv, RowsHaveWallets, NoKeyAhead, RowsArePosted, KeysTell,
              OneJournalInForce, CachesFollowLedger, IsOpening
<1>5. BalanceMatchesRows'
  BY <1>1, BalanceIsSums DEF WalletInv, BalanceMatchesRows
<1> QED
  BY <1>3, <1>4, <1>5 DEF WalletInv

(* What changes a flag of an account.                                       *)
LEMMA FlagsKeep ==
  ASSUME WalletInv,
         \/ \E r \in Requests : CommitArchive(r)
         \/ \E w \in Wallets, b \in BOOLEAN : AllowNegative(w, b)
  PROVE  WalletInv'
<1>1. UNCHANGED <<directTx, transfer, journals, caches>> /\ DOMAIN account' = DOMAIN account
  BY DEF CommitArchive, AllowNegative
<1>2. req' \in [Requests -> Request]
  BY DEF WalletInv, Accounts, CommitArchive, AllowNegative, Finish, Request
<1>3. \A w \in DOMAIN account' : account'[w] \in Account
  <2>1. ASSUME NEW r \in Requests, CommitArchive(r)
        PROVE  \A w \in DOMAIN account' : account'[w] \in Account
    <3>1. req[r].pc = "archive" /\ req[r] \in Request
      BY <2>1 DEF CommitArchive, WalletInv, Accounts
    <3>2. req[r].archive \in BOOLEAN
      BY <3>1 DEF Request, Idle
    <3>3. PICK b \in BOOLEAN : b = req[r].archive
      BY <3>2
    <3>4. PICK w \in DOMAIN account : account' = [account EXCEPT ![w].archived = b]
      BY <2>1, <3>3 DEF CommitArchive
    <3> QED
      BY <3>4 DEF WalletInv, Accounts, Account
  <2>2. ASSUME NEW w \in Wallets, NEW b \in BOOLEAN, AllowNegative(w, b)
        PROVE  \A v \in DOMAIN account' : account'[v] \in Account
    BY <2>2 DEF AllowNegative, WalletInv, Accounts, Account
  <2> QED
    BY <2>1, <2>2
<1>4. Accounts'
  BY <1>1, <1>2, <1>3 DEF WalletInv, Accounts
<1>5. /\ RowsHaveWallets' /\ NoKeyAhead' /\ RowsArePosted' /\ KeysTell' /\ OneJournalInForce'
      /\ CachesFollowLedger'
  BY <1>1 DEF WalletInv, RowsHaveWallets, NoKeyAhead, RowsArePosted, KeysTell,
              OneJournalInForce, CachesFollowLedger, IsOpening
<1>6. BalanceMatchesRows'
  BY <1>1, BalanceIsSums DEF WalletInv, BalanceMatchesRows
<1> QED
  BY <1>4, <1>5, <1>6 DEF WalletInv

(* A recalculation never finds a drift.                                     *)
LEMMA RecalculateKeeps ==
  ASSUME WalletInv, NEW w \in Wallets, Recalculate(w)
  PROVE  WalletInv' /\ caches' = caches
<1>1. /\ w \in DOMAIN account /\ caches' = [caches EXCEPT !.cash[w] = RowBalance(w)]
      /\ UNCHANGED <<account, directTx, transfer, journals, req>>
  BY DEF Recalculate
<1>2. caches.cash[w] = RowBalance(w)
  BY <1>1 DEF WalletInv, BalanceMatchesRows
<1>3. caches \in Balances(DOMAIN account)
  BY DEF WalletInv, Accounts
<1>4. caches' = [caches EXCEPT !.cash[w] = caches.cash[w]]
  BY <1>1, <1>2
<1>5. caches' = caches
  BY <1>3, <1>4 DEF Balances
<1>6. UNCHANGED vars
  BY <1>1, <1>5 DEF vars
<1> QED
  BY <1>5, <1>6, ReadsKeep

(* A new direct transaction.                                                *)
LEMMA CreateDirectKeeps ==
  ASSUME WalletInv, NEW w \in Wallets, NEW t \in Txs, NEW m \in Moneys, CreateDirect(w, t, m)
  PROVE  WalletInv'
<1>1. PICK row : row = [wallet |-> w, money |-> m, voided |-> FALSE, version |-> 1]
  OBVIOUS
<1>2. PICK d : d = WalletDraft(w, m)
  OBVIOUS
<1>3. PICK key : key = TxKey(t, 1)
  OBVIOUS
<1>4. /\ w \in DOMAIN account /\ t \notin DOMAIN directTx /\ key \notin DOMAIN journals
      /\ \A v \in Versions : TxKey(t, v) \notin DOMAIN journals
      /\ directTx' = With(directTx, t, row)
      /\ journals' = PostIn(journals, key, d)
      /\ caches' = AddDeltas(caches, d, 1)
      /\ account' = account /\ transfer' = transfer /\ req' = req
  BY <1>1, <1>2, <1>3 DEF CreateDirect, Fresh, Versions
<1>5. row \in DirectTx /\ d \in Draft
  BY <1>1, <1>2 DEF DirectTx, Draft, WalletDraft, Versions
<1>6. 1 \in Versions /\ key \in Keys
  BY <1>3, KeysDiffer DEF Versions
<1>7. /\ Kept(journals) /\ caches \in Balances(DOMAIN account) /\ CachesEqualLedger(journals, caches)
      /\ Rows(directTx) /\ Moved(transfer)
  BY DEF WalletInv, Accounts, CachesFollowLedger
<1>8. /\ Kept(journals') /\ caches' \in Balances(DOMAIN account)
      /\ CachesEqualLedger(journals', caches')
      /\ \A p \in DOMAIN account : caches'.cash[p] = caches.cash[p] + CashDelta(d, p)
  BY <1>4, <1>5, <1>6, <1>7, PostKeeps
<1>9. /\ DOMAIN directTx' = DOMAIN directTx \union {t} /\ directTx'[t] = row
      /\ \A x \in DOMAIN directTx : directTx'[x] = directTx[x]
  BY <1>4 DEF With
<1>10. /\ DOMAIN journals' = DOMAIN journals \union {key}
       /\ journals'[key] = [status |-> "POSTED", draft |-> d]
       /\ \A k \in DOMAIN journals : journals'[k] = journals[k]
  BY <1>4 DEF PostIn
<1>11. Accounts'
  BY <1>4, <1>5, <1>7, <1>8, <1>9, FS_AddElement DEF WalletInv, Accounts, Rows
<1>12. \A u \in DOMAIN directTx : u # t /\ TxKey(u, 1) # key
                                 /\ \A v \in Versions : TxKey(u, v) # key
  BY <1>3, <1>4, KeysDiffer
<1>13. ~(IsOpening(t))' /\ \A u \in DOMAIN directTx : (IsOpening(u))' <=> IsOpening(u)
  BY <1>3, <1>10, <1>12 DEF IsOpening
<1>14. RowsHaveWallets'
  <2>1. \A u \in DOMAIN directTx' : directTx'[u].wallet \in DOMAIN account
    <3>1. \A u \in DOMAIN directTx : directTx[u].wallet \in DOMAIN account
      BY DEF WalletInv, RowsHaveWallets
    <3>2. row.wallet \in DOMAIN account
      BY <1>1, <1>4
    <3> QED
      BY <1>9, <3>1, <3>2
  <2> QED
    BY <1>4, <2>1 DEF WalletInv, RowsHaveWallets
<1>15. NoKeyAhead'
  <2>1. \A u \in DOMAIN directTx : \A v \in Versions :
          TxKey(u, v) \in DOMAIN journals' => v <= directTx'[u].version /\ ~(IsOpening(u))'
    BY <1>9, <1>10, <1>12, <1>13 DEF WalletInv, NoKeyAhead
  <2>2. \A v \in Versions : TxKey(t, v) \in DOMAIN journals' => v <= directTx'[t].version
    BY <1>1, <1>3, <1>4, <1>9, <1>10, KeysDiffer
  <2> QED
    BY <1>9, <1>13, <2>1, <2>2 DEF NoKeyAhead
<1>16. RowsArePosted'
  <2>1. \A u \in DOMAIN directTx : ~directTx'[u].voided /\ ~(IsOpening(u))'
          => IsPosted(journals', TxKey(u, directTx'[u].version))
    BY <1>9, <1>10, <1>13 DEF WalletInv, RowsArePosted, IsPosted
  <2>2. IsPosted(journals', TxKey(t, directTx'[t].version))
    BY <1>1, <1>3, <1>9, <1>10 DEF IsPosted
  <2> QED
    BY <1>9, <2>1, <2>2 DEF RowsArePosted
<1>17. KeysTell'
  BY <1>3, <1>4, <1>10, KeysDiffer DEF WalletInv, KeysTell
<1>18. OneJournalInForce'
  <2>1. \A u \in DOMAIN directTx : \A v \in Versions :
          IsPosted(journals', TxKey(u, v)) => IsPosted(journals, TxKey(u, v))
                                              /\ journals'[TxKey(u, v)] = journals[TxKey(u, v)]
    BY <1>10, <1>12 DEF IsPosted
  <2>2. \A v \in Versions : IsPosted(journals', TxKey(t, v)) => v = 1
    BY <1>3, <1>4, <1>10, KeysDiffer DEF IsPosted
  <2>3. journals'[TxKey(t, 1)].draft = WalletDraft(row.wallet, row.money)
    BY <1>1, <1>2, <1>3, <1>10
  <2>4. \A u \in DOMAIN directTx : \A v \in Versions : IsPosted(journals', TxKey(u, v)) =>
          /\ v = directTx'[u].version /\ ~directTx'[u].voided
          /\ journals'[TxKey(u, v)].draft = WalletDraft(directTx'[u].wallet, directTx'[u].money)
    BY <1>9, <2>1 DEF WalletInv, OneJournalInForce
  <2>5. \A v \in Versions : IsPosted(journals', TxKey(t, v)) =>
          /\ v = directTx'[t].version /\ ~directTx'[t].voided
          /\ journals'[TxKey(t, v)].draft = WalletDraft(directTx'[t].wallet, directTx'[t].money)
    BY <1>1, <1>9, <2>2, <2>3
  <2> QED
    BY <1>9, <2>4, <2>5 DEF OneJournalInForce
<1>19. BalanceMatchesRows'
  <2> SUFFICES ASSUME NEW p \in DOMAIN account
               PROVE  caches'.cash[p] = (RowBalance(p))'
    BY <1>4 DEF BalanceMatchesRows
  <2>1. caches.cash[p] = RowSum(directTx, p) + InSum(transfer, p) - OutSum(transfer, p)
    BY BalanceIsSums DEF WalletInv, BalanceMatchesRows
  <2>2. (RowBalance(p))' = RowSum(directTx', p) + InSum(transfer, p) - OutSum(transfer, p)
    BY <1>4, BalanceIsSums
  <2>3. RowSum(directTx', p) = RowSum(directTx, p) + Moves(row, p)
    BY <1>4, <1>5, <1>7, RowSumMoves
  <2>4. CashDelta(d, p) = Moves(row, p)
    <3>1. d.rule = "ACCOUNT_TRANSACTION" /\ d.wallet = w /\ d.money = m
      BY <1>2 DEF WalletDraft
    <3>2. CashDelta(d, p) = IF p = w THEN WalletDelta(m) ELSE 0
      BY <1>5, <3>1, DirectCash
    <3> QED
      BY <1>1, <3>2 DEF Moves
  <2>5. RowSum(directTx, p) \in Int /\ InSum(transfer, p) \in Int /\ OutSum(transfer, p) \in Int
        /\ Moves(row, p) \in Int
    BY <1>5, <1>7, RowSumMoves, InSumMoves, OutSumMoves, MovesType
  <2>6. caches'.cash[p] = caches.cash[p] + CashDelta(d, p)
    BY <1>8
  <2> QED
    BY <2>1, <2>2, <2>3, <2>4, <2>5, <2>6
<1> QED
  BY <1>8, <1>11, <1>14, <1>15, <1>16, <1>17, <1>18, <1>19 DEF WalletInv, CachesFollowLedger

(* A transfer between two accounts.                                         *)
LEMMA TransferKeeps ==
  ASSUME WalletInv, NEW x \in Transfers, NEW from \in Wallets, NEW to \in Wallets,
         NEW sum \in Sums, TransferBetween(x, from, to, sum)
  PROVE  WalletInv'
<1>1. PICK row : row = [from |-> from, to |-> to, amount |-> sum.amount, fee |-> sum.fee]
  OBVIOUS
<1>2. PICK d : d = TransferDraft(row)
  OBVIOUS
<1>3. PICK key : key = TransferKey(x)
  OBVIOUS
<1>4. /\ from \in DOMAIN account /\ to \in DOMAIN account /\ x \notin DOMAIN transfer
      /\ transfer' = With(transfer, x, row)
      /\ journals' = PostIn(journals, key, d)
      /\ caches' = AddDeltas(caches, d, 1)
      /\ account' = account /\ directTx' = directTx /\ req' = req
  BY <1>1, <1>2, <1>3 DEF TransferBetween
<1>5. row \in Transfer /\ d \in Draft
  <2>1. sum.amount \in Nat /\ sum.fee \in Nat
    OBVIOUS
  <2> QED
    BY <1>1, <1>2, <2>1 DEF Transfer, Draft, TransferDraft
<1>6. key \in Keys
  BY <1>3, KeysDiffer
<1>7. key \notin DOMAIN journals
  BY <1>3, <1>4 DEF WalletInv, KeysTell
<1>8. /\ Kept(journals) /\ caches \in Balances(DOMAIN account) /\ CachesEqualLedger(journals, caches)
      /\ Rows(directTx) /\ Moved(transfer)
  BY DEF WalletInv, Accounts, CachesFollowLedger
<1>9. /\ Kept(journals') /\ caches' \in Balances(DOMAIN account)
      /\ CachesEqualLedger(journals', caches')
      /\ \A p \in DOMAIN account : caches'.cash[p] = caches.cash[p] + CashDelta(d, p)
  BY <1>4, <1>5, <1>6, <1>7, <1>8, PostKeeps
<1>10. /\ DOMAIN transfer' = DOMAIN transfer \union {x} /\ transfer'[x] = row
       /\ \A y \in DOMAIN transfer : transfer'[y] = transfer[y]
  BY <1>4 DEF With
<1>11. /\ DOMAIN journals' = DOMAIN journals \union {key}
       /\ \A k \in DOMAIN journals : journals'[k] = journals[k]
  BY <1>4, <1>7 DEF PostIn
<1>12. Accounts'
  BY <1>4, <1>5, <1>8, <1>9, <1>10, FS_AddElement DEF WalletInv, Accounts, Moved
<1>13. \A t, v : /\ TxKey(t, v) # key
                 /\ TxKey(t, v) \in DOMAIN journals' <=> TxKey(t, v) \in DOMAIN journals
                 /\ IsPosted(journals', TxKey(t, v)) <=> IsPosted(journals, TxKey(t, v))
                 /\ TxKey(t, v) \in DOMAIN journals => journals'[TxKey(t, v)] = journals[TxKey(t, v)]
  BY <1>3, <1>11, KeysDiffer DEF IsPosted
<1>14. \A t : (IsOpening(t))' <=> IsOpening(t)
  BY <1>13 DEF IsOpening
<1>15. RowsHaveWallets'
  <2>1. \A y \in DOMAIN transfer' :
          transfer'[y].from \in DOMAIN account /\ transfer'[y].to \in DOMAIN account
    BY <1>1, <1>4, <1>10 DEF WalletInv, RowsHaveWallets
  <2> QED
    BY <1>4, <2>1 DEF WalletInv, RowsHaveWallets
<1>16. NoKeyAhead'
  BY <1>4, <1>13, <1>14 DEF WalletInv, NoKeyAhead
<1>17. RowsArePosted'
  BY <1>4, <1>13, <1>14 DEF WalletInv, RowsArePosted
<1>18. OneJournalInForce'
  BY <1>4, <1>13 DEF WalletInv, OneJournalInForce, IsPosted
<1>19. KeysTell'
  <2>1. \A w \in Wallets : OpenKey(w) \in DOMAIN journals' =>
          OpenKey(w) \in DOMAIN journals /\ journals'[OpenKey(w)] = journals[OpenKey(w)]
    BY <1>3, <1>11, KeysDiffer
  <2>2. \A y \in Transfers : TransferKey(y) \in DOMAIN journals' => y \in DOMAIN transfer'
    BY <1>3, <1>10, <1>11, KeysDiffer DEF WalletInv, KeysTell
  <2> QED
    BY <2>1, <2>2 DEF WalletInv, KeysTell
<1>20. BalanceMatchesRows'
  <2> SUFFICES ASSUME NEW p \in DOMAIN account
               PROVE  caches'.cash[p] = (RowBalance(p))'
    BY <1>4 DEF BalanceMatchesRows
  <2>1. caches.cash[p] = RowSum(directTx, p) + InSum(transfer, p) - OutSum(transfer, p)
    BY BalanceIsSums DEF WalletInv, BalanceMatchesRows
  <2>2. (RowBalance(p))' = RowSum(directTx, p) + InSum(transfer', p) - OutSum(transfer', p)
    BY <1>4, BalanceIsSums
  <2>3. InSum(transfer', p) = InSum(transfer, p) + Gets(row, p)
    BY <1>4, <1>5, <1>8, InSumMoves
  <2>4. OutSum(transfer', p) = OutSum(transfer, p) + Gives(row, p)
    BY <1>4, <1>5, <1>8, OutSumMoves
  <2>5. Gets(row, p) \in Int /\ Gives(row, p) \in Int
    BY <1>5 DEF Gets, Gives, Transfer
  <2>6. CashDelta(d, p) = Gets(row, p) - Gives(row, p)
    <3>1. /\ d.rule = "ACCOUNT_TRANSFER" /\ d.from = row.from /\ d.to = row.to
          /\ d.amount = row.amount /\ d.fee = row.fee
      BY <1>2 DEF TransferDraft
    <3>2. CashDelta(d, p) = (IF p = d.to THEN d.amount ELSE 0)
                              - (IF p = d.from THEN d.amount + d.fee ELSE 0)
      BY <1>5, <3>1, TransferCash
    <3> QED
      BY <3>1, <3>2 DEF Gets, Gives
  <2>7. RowSum(directTx, p) \in Int /\ InSum(transfer, p) \in Int /\ OutSum(transfer, p) \in Int
    BY <1>8, RowSumMoves, InSumMoves, OutSumMoves
  <2>8. caches'.cash[p] = caches.cash[p] + CashDelta(d, p)
    BY <1>9
  <2> QED
    BY <2>1, <2>2, <2>3, <2>4, <2>5, <2>6, <2>7, <2>8
<1> QED
  BY <1>9, <1>12, <1>15, <1>16, <1>17, <1>18, <1>19, <1>20 DEF WalletInv, CachesFollowLedger

(* What is known of a row that is in force and is no opening row.           *)
LEMMA RowInForce ==
  ASSUME WalletInv, NEW t \in DOMAIN directTx, ~directTx[t].voided, ~IsOpening(t)
  PROVE  LET old == TxKey(t, directTx[t].version)
         IN  /\ IsPosted(journals, old) /\ old \in DOMAIN journals
             /\ journals[old].draft = WalletDraft(directTx[t].wallet, directTx[t].money)
             /\ journals[old].draft \in Draft
             /\ directTx[t] \in DirectTx
             /\ directTx[t].version \in Versions
             /\ \A p : CashDelta(journals[old].draft, p) = Moves(directTx[t], p)
<1>1. PICK row : row = directTx[t]
  OBVIOUS
<1>2. PICK old : old = TxKey(t, row.version)
  OBVIOUS
<1>3. row \in DirectTx
  BY <1>1 DEF WalletInv, Accounts, Rows
<1>4. row.version \in Versions
  BY <1>3 DEF DirectTx
<1>5. IsPosted(journals, old) /\ old \in DOMAIN journals
  BY <1>1, <1>2 DEF WalletInv, RowsArePosted, IsPosted
<1>6. journals[old].draft = WalletDraft(row.wallet, row.money)
  BY <1>1, <1>2, <1>4, <1>5 DEF WalletInv, OneJournalInForce
<1>7. journals[old].draft \in Draft
  BY <1>5 DEF WalletInv, Accounts, Kept, Journal
<1>8. \A p : CashDelta(journals[old].draft, p) = Moves(row, p)
  <2>1. PICK d : d = journals[old].draft
    OBVIOUS
  <2>2. d.rule = "ACCOUNT_TRANSACTION" /\ d.wallet = row.wallet /\ d.money = row.money
    BY <1>6, <2>1 DEF WalletDraft
  <2>3. \A p : CashDelta(d, p) = IF p = row.wallet THEN WalletDelta(row.money) ELSE 0
    BY <1>7, <2>1, <2>2, DirectCash
  <2> QED
    BY <1>1, <2>1, <2>3 DEF Moves
<1> QED
  BY <1>1, <1>2, <1>3, <1>4, <1>5, <1>6, <1>7, <1>8

(* A direct transaction voided; an opening row is not among them.           *)
LEMMA DeleteDirectKeeps ==
  ASSUME "deleteOpening" \notin Operations,
         WalletInv, NEW w \in Wallets, NEW t \in Txs, DeleteDirect(w, t)
  PROVE  WalletInv'
<1>1. PICK row : row = directTx[t]
  OBVIOUS
<1>2. PICK key : key = TxKey(t, row.version)
  OBVIOUS
<1>3. /\ t \in DOMAIN directTx /\ ~row.voided /\ ~IsOpening(t)
      /\ directTx' = [directTx EXCEPT ![t].voided = TRUE]
      /\ journals' = ReverseIn(journals, key)
      /\ caches' = CachesAfterReverse(journals, caches, key)
      /\ account' = account /\ transfer' = transfer /\ req' = req
  BY <1>1, <1>2 DEF DeleteDirect, Owns
<1>4. /\ IsPosted(journals, key) /\ key \in DOMAIN journals /\ row \in DirectTx
      /\ row.version \in Versions
      /\ \A p : CashDelta(journals[key].draft, p) = Moves(row, p)
  BY <1>1, <1>2, <1>3, RowInForce
<1>5. /\ Kept(journals) /\ caches \in Balances(DOMAIN account) /\ CachesEqualLedger(journals, caches)
      /\ Rows(directTx) /\ Moved(transfer)
  BY DEF WalletInv, Accounts, CachesFollowLedger
<1>6. /\ Kept(journals') /\ caches' \in Balances(DOMAIN account)
      /\ CachesEqualLedger(journals', caches')
      /\ \A p \in DOMAIN account : caches'.cash[p] = caches.cash[p] - CashDelta(journals[key].draft, p)
  BY <1>3, <1>4, <1>5, ReverseKeeps
<1>7. /\ DOMAIN directTx' = DOMAIN directTx
      /\ directTx'[t] = [row EXCEPT !.voided = TRUE]
      /\ \A u \in DOMAIN directTx \ {t} : directTx'[u] = directTx[u]
  BY <1>1, <1>3
<1>8. directTx'[t] \in DirectTx /\ directTx'[t].voided /\ directTx'[t].version = row.version
      /\ directTx'[t].wallet = row.wallet
  BY <1>4, <1>7 DEF DirectTx
<1>9. /\ DOMAIN journals' = DOMAIN journals
      /\ \A k \in DOMAIN journals : k # key => journals'[k] = journals[k]
      /\ \A k \in DOMAIN journals : journals'[k].draft = journals[k].draft
      /\ ~IsPosted(journals', key)
  BY <1>3, <1>4, <1>5, ReversedJournals DEF Kept
<1>10. Rows(directTx')
  BY <1>5, <1>7, <1>8 DEF Rows
<1>11. Accounts'
  BY <1>3, <1>6, <1>7, <1>10 DEF WalletInv, Accounts
<1>12. \A u : (IsOpening(u))' <=> IsOpening(u)
  BY <1>9 DEF IsOpening
<1>13. \A u \in DOMAIN directTx : directTx'[u].wallet = directTx[u].wallet
                                /\ directTx'[u].version = directTx[u].version
  BY <1>1, <1>7, <1>8
<1>14. RowsHaveWallets'
  BY <1>3, <1>7, <1>13 DEF WalletInv, RowsHaveWallets
<1>15. NoKeyAhead'
  BY <1>7, <1>9, <1>12, <1>13 DEF WalletInv, NoKeyAhead
<1>16. \A u \in DOMAIN directTx : \A v : u # t => TxKey(u, v) # key
  BY <1>2, KeysDiffer
<1>17. RowsArePosted'
  <2>1. \A u \in DOMAIN directTx : u # t /\ ~directTx'[u].voided /\ ~(IsOpening(u))'
          => IsPosted(journals', TxKey(u, directTx'[u].version))
    BY <1>7, <1>9, <1>12, <1>16 DEF WalletInv, RowsArePosted, IsPosted
  <2> QED
    BY <1>7, <1>8, <2>1 DEF RowsArePosted
<1>18. KeysTell'
  BY <1>3, <1>9 DEF WalletInv, KeysTell
<1>19. OneJournalInForce'
  <2>1. \A k : IsPosted(journals', k) =>
          IsPosted(journals, k) /\ k # key /\ journals'[k].draft = journals[k].draft
    BY <1>9 DEF IsPosted
  <2>2. \A v \in Versions : ~IsPosted(journals', TxKey(t, v))
    BY <1>1, <1>2, <1>3, <2>1 DEF WalletInv, OneJournalInForce
  <2>3. \A u \in DOMAIN directTx : \A v \in Versions : u # t /\ IsPosted(journals', TxKey(u, v)) =>
          /\ v = directTx'[u].version /\ ~directTx'[u].voided
          /\ journals'[TxKey(u, v)].draft = WalletDraft(directTx'[u].wallet, directTx'[u].money)
    BY <1>7, <2>1 DEF WalletInv, OneJournalInForce
  <2> QED
    BY <1>7, <2>2, <2>3 DEF OneJournalInForce
<1>20. BalanceMatchesRows'
  <2> SUFFICES ASSUME NEW p \in DOMAIN account
               PROVE  caches'.cash[p] = (RowBalance(p))'
    BY <1>3 DEF BalanceMatchesRows
  <2>1. caches.cash[p] = RowSum(directTx, p) + InSum(transfer, p) - OutSum(transfer, p)
    BY BalanceIsSums DEF WalletInv, BalanceMatchesRows
  <2>2. (RowBalance(p))' = RowSum(directTx', p) + InSum(transfer, p) - OutSum(transfer, p)
    BY <1>3, BalanceIsSums
  <2>3. RowSum(directTx', p) = RowSum(directTx, p) - Moves(row, p) + Moves(directTx'[t], p)
    <3>1. PICK F : F = directTx'
      OBVIOUS
    <3>2. Rows(F) /\ DOMAIN F = DOMAIN directTx
          /\ \A u \in DOMAIN directTx \ {t} : F[u] = directTx[u]
      BY <1>7, <1>10, <3>1
    <3>3. RowSum(F, p) = RowSum(directTx, p) - Moves(directTx[t], p) + Moves(F[t], p)
      BY <1>3, <1>5, <3>2, RowSumMoves
    <3> QED
      BY <1>1, <3>1, <3>3
  <2>4. Moves(directTx'[t], p) = 0
    BY <1>8 DEF Moves
  <2>5. RowSum(directTx, p) \in Int /\ InSum(transfer, p) \in Int /\ OutSum(transfer, p) \in Int
        /\ Moves(row, p) \in Int
    BY <1>4, <1>5, RowSumMoves, InSumMoves, OutSumMoves, MovesType
  <2>6. caches'.cash[p] = caches.cash[p] - Moves(row, p)
    BY <1>4, <1>6
  <2> QED
    BY <2>1, <2>2, <2>3, <2>4, <2>5, <2>6
<1> QED
  BY <1>6, <1>11, <1>14, <1>15, <1>17, <1>18, <1>19, <1>20 DEF WalletInv, CachesFollowLedger

(* A direct transaction changed; an opening row is not among them.          *)
LEMMA UpdateDirectKeeps ==
  ASSUME "editOpening" \notin Operations,
         WalletInv, NEW w \in Wallets, NEW t \in Txs, NEW m \in Moneys, UpdateDirect(w, t, m)
  PROVE  WalletInv'
<1>1. PICK row : row = directTx[t]
  OBVIOUS
<1>2. PICK old : old = TxKey(t, row.version)
  OBVIOUS
<1>3. PICK new : new = TxKey(t, row.version + 1)
  OBVIOUS
<1>4. PICK d : d = WalletDraft(w, m)
  OBVIOUS
<1>5. /\ t \in DOMAIN directTx /\ row.wallet = w /\ ~row.voided /\ ~IsOpening(t)
      /\ row.version < MaxVersion
      /\ directTx' = [directTx EXCEPT ![t].money = m, ![t].version = row.version + 1]
      /\ journals' = Repost(journals, old, new, d)
      /\ caches' = CachesAfterRepost(journals, caches, old, d)
      /\ account' = account /\ transfer' = transfer /\ req' = req
  BY <1>1, <1>2, <1>3, <1>4 DEF UpdateDirect, Owns, Bumped
<1>6. /\ IsPosted(journals, old) /\ old \in DOMAIN journals /\ row \in DirectTx
      /\ row.version \in Versions
      /\ \A p : CashDelta(journals[old].draft, p) = Moves(row, p)
  BY <1>1, <1>2, <1>5, RowInForce
<1>7. row.version + 1 \in Versions /\ row.version \in Int
  BY <1>5, <1>6 DEF Versions
<1>8. d \in Draft /\ new \in Keys
  <2>1. m \in [type : EntryTypes, amount : Nat, charge : Nat]
    OBVIOUS
  <2> QED
    BY <1>3, <1>4, <1>7, <2>1, KeysDiffer DEF Draft, WalletDraft
<1>9. new \notin DOMAIN journals
  <2>1. new \in DOMAIN journals => row.version + 1 <= row.version
    BY <1>1, <1>3, <1>5, <1>7 DEF WalletInv, NoKeyAhead
  <2> QED
    BY <1>7, <2>1
<1>10. /\ Kept(journals) /\ caches \in Balances(DOMAIN account)
       /\ CachesEqualLedger(journals, caches) /\ Rows(directTx) /\ Moved(transfer)
  BY DEF WalletInv, Accounts, CachesFollowLedger
<1>11. PICK J : J = ReverseIn(journals, old)
  OBVIOUS
<1>12. PICK C : C = CachesAfterReverse(journals, caches, old)
  OBVIOUS
<1>13. journals' = PostIn(J, new, d) /\ caches' = AddDeltas(C, d, 1)
  BY <1>5, <1>11, <1>12 DEF Repost, CachesAfterRepost
<1>14. /\ Kept(J) /\ C \in Balances(DOMAIN account) /\ CachesEqualLedger(J, C)
       /\ \A p \in DOMAIN account : C.cash[p] = caches.cash[p] - CashDelta(journals[old].draft, p)
  BY <1>6, <1>10, <1>11, <1>12, ReverseKeeps
<1>15. /\ DOMAIN J = DOMAIN journals
       /\ \A k \in DOMAIN journals : k # old => J[k] = journals[k]
       /\ \A k \in DOMAIN journals : J[k].draft = journals[k].draft
       /\ ~IsPosted(J, old)
  BY <1>6, <1>10, <1>11, ReversedJournals DEF Kept
<1>16. /\ Kept(journals') /\ caches' \in Balances(DOMAIN account)
       /\ CachesEqualLedger(journals', caches')
       /\ \A p \in DOMAIN account : caches'.cash[p] = C.cash[p] + CashDelta(d, p)
  BY <1>8, <1>9, <1>13, <1>14, <1>15, PostKeeps
<1>17. /\ DOMAIN journals' = DOMAIN journals \union {new}
       /\ journals'[new] = [status |-> "POSTED", draft |-> d]
       /\ \A k \in DOMAIN journals : journals'[k] = J[k]
  BY <1>9, <1>13, <1>15 DEF PostIn
<1>18. \A k \in DOMAIN journals : /\ k # new
                                  /\ k # old => journals'[k] = journals[k]
                                  /\ journals'[k].draft = journals[k].draft
  BY <1>9, <1>15, <1>17
<1>19. ~IsPosted(journals', old)
  BY <1>6, <1>15, <1>17 DEF IsPosted
<1>20. /\ DOMAIN directTx' = DOMAIN directTx
       /\ directTx'[t] = [row EXCEPT !.money = m, !.version = row.version + 1]
       /\ \A u \in DOMAIN directTx \ {t} : directTx'[u] = directTx[u]
  BY <1>1, <1>5
<1>21. /\ directTx'[t].version = row.version + 1 /\ directTx'[t].money = m
       /\ directTx'[t].wallet = w /\ ~directTx'[t].voided /\ directTx'[t] \in DirectTx
  <2>1. m \in [type : EntryTypes, amount : Nat, charge : Nat]
    OBVIOUS
  <2> QED
    <3>1. PICK n \in Versions : n = row.version + 1
      BY <1>7
    <3>2. directTx'[t] = [row EXCEPT !.money = m, !.version = n]
      BY <1>20, <3>1
    <3> QED
      BY <1>5, <1>6, <2>1, <3>1, <3>2 DEF DirectTx
<1>22. Rows(directTx')
  BY <1>10, <1>20, <1>21 DEF Rows
<1>23. Accounts'
  BY <1>5, <1>16, <1>20, <1>22 DEF WalletInv, Accounts
<1>24. \A u \in DOMAIN directTx : \A v : u # t => TxKey(u, v) # new /\ TxKey(u, v) # old
  BY <1>2, <1>3, KeysDiffer
<1>25. \A u \in DOMAIN directTx : (IsOpening(u))' <=> IsOpening(u)
  <2>1. ~IsOpening(t) /\ ~(IsOpening(t))'
    BY <1>5, <1>17 DEF IsOpening
  <2> QED
    BY <1>17, <1>24, <2>1 DEF IsOpening
<1>26. RowsHaveWallets'
  <2>1. \A u \in DOMAIN directTx' : directTx'[u].wallet \in DOMAIN account
    BY <1>1, <1>5, <1>20, <1>21 DEF WalletInv, RowsHaveWallets
  <2> QED
    BY <1>5, <2>1 DEF WalletInv, RowsHaveWallets
<1>27. NoKeyAhead'
  <2>1. \A u \in DOMAIN directTx : \A v \in Versions : u # t /\ TxKey(u, v) \in DOMAIN journals'
          => v <= directTx'[u].version /\ ~(IsOpening(u))'
    BY <1>17, <1>20, <1>24, <1>25 DEF WalletInv, NoKeyAhead
  <2>2. \A v \in Versions : TxKey(t, v) \in DOMAIN journals => v <= row.version
    BY <1>1, <1>5 DEF WalletInv, NoKeyAhead
  <2>3. \A v \in Versions : TxKey(t, v) \in DOMAIN journals'
          => TxKey(t, v) \in DOMAIN journals \/ v = row.version + 1
    BY <1>3, <1>17, KeysDiffer
  <2>4. \A v \in Versions : TxKey(t, v) \in DOMAIN journals' => v <= directTx'[t].version
    BY <1>7, <1>21, <2>2, <2>3 DEF Versions
  <2>5. ~(IsOpening(t))'
    BY <1>5, <1>25
  <2> QED
    BY <1>20, <2>1, <2>4, <2>5 DEF NoKeyAhead
<1>28. RowsArePosted'
  <2>1. \A u \in DOMAIN directTx : u # t /\ ~directTx'[u].voided /\ ~(IsOpening(u))'
          => IsPosted(journals', TxKey(u, directTx'[u].version))
    BY <1>17, <1>18, <1>20, <1>24, <1>25 DEF WalletInv, RowsArePosted, IsPosted
  <2>2. IsPosted(journals', TxKey(t, directTx'[t].version))
    BY <1>3, <1>17, <1>21 DEF IsPosted
  <2> QED
    BY <1>20, <2>1, <2>2 DEF RowsArePosted
<1>29. KeysTell'
  <2>1. \A x : OpenKey(x) # new /\ TransferKey(x) # new
    BY <1>3, KeysDiffer
  <2> QED
    BY <1>5, <1>17, <1>18, <2>1 DEF WalletInv, KeysTell
<1>30. OneJournalInForce'
  <2>1. \A k : k # new /\ IsPosted(journals', k) =>
          IsPosted(journals, k) /\ k # old /\ journals'[k].draft = journals[k].draft
    BY <1>17, <1>18, <1>19 DEF IsPosted
  <2>2. \A v \in Versions : IsPosted(journals', TxKey(t, v)) => v = row.version + 1
    BY <1>1, <1>2, <1>3, <1>5, <2>1, KeysDiffer DEF WalletInv, OneJournalInForce
  <2>3. \A u \in DOMAIN directTx : \A v \in Versions : u # t /\ IsPosted(journals', TxKey(u, v)) =>
          /\ v = directTx'[u].version /\ ~directTx'[u].voided
          /\ journals'[TxKey(u, v)].draft = WalletDraft(directTx'[u].wallet, directTx'[u].money)
    BY <1>20, <1>24, <2>1 DEF WalletInv, OneJournalInForce
  <2>4. journals'[new].draft = WalletDraft(directTx'[t].wallet, directTx'[t].money)
    BY <1>4, <1>17, <1>21
  <2> QED
    BY <1>3, <1>20, <1>21, <2>2, <2>3, <2>4 DEF OneJournalInForce
<1>31. BalanceMatchesRows'
  <2> SUFFICES ASSUME NEW p \in DOMAIN account
               PROVE  caches'.cash[p] = (RowBalance(p))'
    BY <1>5 DEF BalanceMatchesRows
  <2>1. caches.cash[p] = RowSum(directTx, p) + InSum(transfer, p) - OutSum(transfer, p)
    BY BalanceIsSums DEF WalletInv, BalanceMatchesRows
  <2>2. (RowBalance(p))' = RowSum(directTx', p) + InSum(transfer, p) - OutSum(transfer, p)
    BY <1>5, BalanceIsSums
  <2>3. RowSum(directTx', p) = RowSum(directTx, p) - Moves(row, p) + Moves(directTx'[t], p)
    <3>1. PICK F : F = directTx'
      OBVIOUS
    <3>2. Rows(F) /\ DOMAIN F = DOMAIN directTx
          /\ \A u \in DOMAIN directTx \ {t} : F[u] = directTx[u]
      BY <1>20, <1>22, <3>1
    <3>3. RowSum(F, p) = RowSum(directTx, p) - Moves(directTx[t], p) + Moves(F[t], p)
      BY <1>5, <1>10, <3>2, RowSumMoves
    <3> QED
      BY <1>1, <3>1, <3>3
  <2>4. Moves(directTx'[t], p) = CashDelta(d, p)
    <3>1. d.rule = "ACCOUNT_TRANSACTION" /\ d.wallet = w /\ d.money = m
      BY <1>4 DEF WalletDraft
    <3>2. CashDelta(d, p) = IF p = w THEN WalletDelta(m) ELSE 0
      BY <1>8, <3>1, DirectCash
    <3> QED
      BY <1>21, <3>2 DEF Moves
  <2>5. RowSum(directTx, p) \in Int /\ InSum(transfer, p) \in Int /\ OutSum(transfer, p) \in Int
        /\ Moves(row, p) \in Int /\ Moves(directTx'[t], p) \in Int
    BY <1>6, <1>10, <1>21, RowSumMoves, InSumMoves, OutSumMoves, MovesType
  <2>6. caches'.cash[p] = caches.cash[p] - Moves(row, p) + CashDelta(d, p)
    BY <1>6, <1>14, <1>16
  <2> QED
    BY <2>1, <2>2, <2>3, <2>4, <2>5, <2>6
<1> QED
  BY <1>16, <1>23, <1>26, <1>27, <1>28, <1>29, <1>30, <1>31 DEF WalletInv, CachesFollowLedger

(* A new account: its balance starts at nothing, and so do its rows and the  *)
(* ledger; an opening balance adds the same to all three.                   *)
LEMMA CreateAccountKeeps ==
  ASSUME WalletInv, NEW w \in Wallets, NEW n \in BOOLEAN, NEW x \in Openings,
         CreateAccount(w, n, x)
  PROVE  WalletInv'
<1>1. PICK opened : opened = [caches EXCEPT !.cash = With(@, w, 0)]
  OBVIOUS
<1>2. PICK A : A = DOMAIN account \union {w}
  OBVIOUS
<1>3. /\ w \notin DOMAIN account /\ ~Mentioned(w)
      /\ account' = With(account, w, [archived |-> FALSE, allowNegative |-> n])
      /\ transfer' = transfer /\ req' = req
  BY DEF CreateAccount
<1>4. DOMAIN account' = A /\ \A v \in A : account'[v] \in Account
  BY <1>2, <1>3 DEF With, WalletInv, Accounts, Account
<1>5. /\ Kept(journals) /\ caches \in Balances(DOMAIN account)
      /\ CachesEqualLedger(journals, caches) /\ Rows(directTx) /\ Moved(transfer)
  BY DEF WalletInv, Accounts, CachesFollowLedger
<1>6. /\ opened \in Balances(A)
      /\ opened.cash[w] = 0
      /\ \A p \in DOMAIN account : opened.cash[p] = caches.cash[p]
      /\ opened.income = caches.income /\ opened.expense = caches.expense
      /\ DOMAIN opened.cash = A
  <2>1. /\ caches.cash \in [DOMAIN account -> Int] /\ DOMAIN caches.cash = DOMAIN account
        /\ caches = [cash |-> caches.cash, income |-> caches.income, expense |-> caches.expense]
        /\ caches.income \in [{} -> Int] /\ caches.expense \in [{} -> Int]
    BY <1>5 DEF Balances
  <2>2. PICK c : c = With(caches.cash, w, 0)
    OBVIOUS
  <2>3. c \in [A -> Int] /\ c[w] = 0 /\ \A p \in DOMAIN account : c[p] = caches.cash[p]
    BY <1>2, <1>3, <2>1, <2>2 DEF With
  <2>4. opened = [cash |-> c, income |-> caches.income, expense |-> caches.expense]
    BY <1>1, <2>1, <2>2
  <2> QED
    BY <2>1, <2>3, <2>4 DEF Balances
<1>7. LedgerCash(journals, w) = 0
  BY <1>3, <1>5, UnmentionedIsZero DEF Mentioned
<1>8. CachesEqualLedger(journals, opened)
  <2>1. \A p \in A : opened.cash[p] = LedgerCash(journals, p)
    BY <1>2, <1>5, <1>6, <1>7 DEF CachesEqualLedger, Balances
  <2> QED
    BY <1>5, <1>6, <2>1 DEF CachesEqualLedger
<1>9. OpenKey(w) \notin DOMAIN journals
  <2> SUFFICES ASSUME OpenKey(w) \in DOMAIN journals
               PROVE  FALSE
    OBVIOUS
  <2>1. PICK d : d = journals[OpenKey(w)].draft
    OBVIOUS
  <2>2. d.rule = "ACCOUNT_OPENING" /\ d.wallet = w
    BY <2>1 DEF WalletInv, KeysTell
  <2>3. Legs(d)[1].ref = Wallet(w) \/ Legs(d)[2].ref = Wallet(w)
    BY <2>2 DEF Legs, OpeningLegs, Dr, Cr
  <2> QED
    BY <1>3, <2>1, <2>3 DEF Mentioned, Slots
<1>10. RowSum(directTx, w) = 0 /\ InSum(transfer, w) = 0 /\ OutSum(transfer, w) = 0
  BY <1>3, <1>5, NothingToSum DEF WalletInv, RowsHaveWallets
<1>11. \A p \in A : opened.cash[p]
         = RowSum(directTx, p) + InSum(transfer, p) - OutSum(transfer, p)
  BY <1>2, <1>6, <1>10, BalanceIsSums DEF WalletInv, BalanceMatchesRows
<1>12. CASE x = 0
  <2>1. caches' = opened /\ directTx' = directTx /\ journals' = journals
    BY <1>1, <1>12 DEF CreateAccount
  <2>2. Accounts'
    BY <1>2, <1>3, <1>4, <1>6, <2>1 DEF WalletInv, Accounts
  <2>3. /\ NoKeyAhead' /\ RowsArePosted' /\ KeysTell' /\ OneJournalInForce'
    BY <1>3, <2>1 DEF WalletInv, NoKeyAhead, RowsArePosted, KeysTell, OneJournalInForce,
                      IsOpening
  <2>4. RowsHaveWallets'
    BY <1>2, <1>3, <1>4, <2>1 DEF WalletInv, RowsHaveWallets
  <2>5. BalanceMatchesRows'
    BY <1>3, <1>4, <1>11, <2>1, BalanceIsSums DEF BalanceMatchesRows
  <2> QED
    BY <1>8, <2>1, <2>2, <2>3, <2>4, <2>5 DEF WalletInv, CachesFollowLedger
<1>13. CASE x # 0
  <2>1. PICK d : d = OpeningDraft(w, x)
    OBVIOUS
  <2>2. PICK key : key = OpenKey(w)
    OBVIOUS
  <2>3. PICK row : row = [wallet |-> w, voided |-> FALSE, version |-> 1,
                          money |-> [type |-> "INCOME", amount |-> x, charge |-> 0]]
    OBVIOUS
  <2>4. PICK t \in Txs : Fresh(t) /\ directTx' = With(directTx, t, row)
    BY <1>13, <2>3 DEF CreateAccount
  <2>5. journals' = PostIn(journals, key, d) /\ caches' = AddDeltas(opened, d, 1)
    BY <1>1, <1>13, <2>1, <2>2 DEF CreateAccount
  <2>6. x \in Nat
    OBVIOUS
  <2>7. d \in Draft /\ key \in Keys /\ row \in DirectTx
    BY <2>1, <2>2, <2>3, <2>6, KeysDiffer
       DEF Draft, OpeningDraft, DirectTx, Versions, EntryTypes
  <2>8. key \notin DOMAIN journals
    BY <1>9, <2>2
  <2>9. /\ Kept(journals') /\ caches' \in Balances(A) /\ CachesEqualLedger(journals', caches')
        /\ \A p \in A : caches'.cash[p] = opened.cash[p] + CashDelta(d, p)
    BY <1>5, <1>6, <1>8, <2>5, <2>7, <2>8, PostKeeps
  <2>10. /\ DOMAIN directTx' = DOMAIN directTx \union {t} /\ directTx'[t] = row
         /\ \A u \in DOMAIN directTx : directTx'[u] = directTx[u]
         /\ t \notin DOMAIN directTx
    BY <2>4 DEF With, Fresh
  <2>11. /\ DOMAIN journals' = DOMAIN journals \union {key}
         /\ journals'[key] = [status |-> "POSTED", draft |-> d]
         /\ \A k \in DOMAIN journals : journals'[k] = journals[k]
    BY <2>5, <2>8 DEF PostIn
  <2>12. Accounts'
    <3>1. Rows(directTx')
      BY <1>5, <2>7, <2>10, FS_AddElement DEF Rows
    <3>2. DOMAIN directTx' \subseteq Txs
      BY <2>10 DEF WalletInv, Accounts
    <3>3. DOMAIN account' \subseteq Wallets /\ caches' \in Balances(DOMAIN account')
      BY <1>2, <1>4, <2>9 DEF WalletInv, Accounts
    <3> QED
      BY <1>3, <1>4, <1>5, <2>9, <3>1, <3>2, <3>3 DEF WalletInv, Accounts
  <2>13. \A u, v : /\ TxKey(u, v) \in DOMAIN journals' <=> TxKey(u, v) \in DOMAIN journals
                   /\ IsPosted(journals', TxKey(u, v)) <=> IsPosted(journals, TxKey(u, v))
                   /\ TxKey(u, v) \in DOMAIN journals
                        => journals'[TxKey(u, v)] = journals[TxKey(u, v)]
    BY <2>2, <2>11, KeysDiffer DEF IsPosted
  <2>14. \A v \in Versions : TxKey(t, v) \notin DOMAIN journals'
    BY <2>4, <2>13 DEF Fresh
  <2>15. 1 \in Versions
    BY DEF Versions
  <2>16. (IsOpening(t))' /\ \A u : (IsOpening(u))' <=> IsOpening(u)
    BY <2>13, <2>14, <2>15 DEF IsOpening
  <2>17. RowsHaveWallets'
    <3>1. \A u \in DOMAIN directTx' : directTx'[u].wallet \in A
      <4>1. \A u \in DOMAIN directTx : directTx[u].wallet \in DOMAIN account
        BY DEF WalletInv, RowsHaveWallets
      <4>2. row.wallet = w
        BY <2>3
      <4> QED
        BY <1>2, <2>10, <4>1, <4>2
    <3> QED
      BY <1>2, <1>3, <1>4, <3>1 DEF WalletInv, RowsHaveWallets
  <2>18. NoKeyAhead'
    BY <2>10, <2>13, <2>14, <2>16 DEF WalletInv, NoKeyAhead
  <2>19. RowsArePosted'
    <3>1. \A u \in DOMAIN directTx : ~directTx'[u].voided /\ ~(IsOpening(u))'
            => IsPosted(journals', TxKey(u, directTx'[u].version))
      BY <2>10, <2>13, <2>16 DEF WalletInv, RowsArePosted
    <3> QED
      BY <2>10, <2>16, <3>1 DEF RowsArePosted
  <2>20. KeysTell'
    <3>1. journals'[OpenKey(w)].draft.rule = "ACCOUNT_OPENING"
            /\ journals'[OpenKey(w)].draft.wallet = w
      BY <2>1, <2>2, <2>11 DEF OpeningDraft
    <3>2. \A v \in Wallets : OpenKey(v) \in DOMAIN journals' /\ v # w =>
            OpenKey(v) \in DOMAIN journals /\ journals'[OpenKey(v)] = journals[OpenKey(v)]
      BY <2>2, <2>11, KeysDiffer
    <3>3. \A y \in Transfers : TransferKey(y) \in DOMAIN journals'
            => TransferKey(y) \in DOMAIN journals
      BY <2>2, <2>11, KeysDiffer
    <3> QED
      BY <1>3, <3>1, <3>2, <3>3 DEF WalletInv, KeysTell
  <2>21. OneJournalInForce'
    <3>1. \A v \in Versions : ~IsPosted(journals', TxKey(t, v))
      BY <2>14 DEF IsPosted
    <3>2. \A u \in DOMAIN directTx : \A v \in Versions : IsPosted(journals', TxKey(u, v)) =>
            /\ v = directTx'[u].version /\ ~directTx'[u].voided
            /\ journals'[TxKey(u, v)].draft = WalletDraft(directTx'[u].wallet, directTx'[u].money)
      BY <2>10, <2>13 DEF WalletInv, OneJournalInForce, IsPosted
    <3> QED
      BY <2>10, <3>1, <3>2 DEF OneJournalInForce
  <2>22. BalanceMatchesRows'
    <3> SUFFICES ASSUME NEW p \in A
                 PROVE  caches'.cash[p] = (RowBalance(p))'
      BY <1>4 DEF BalanceMatchesRows
    <3>1. opened.cash[p] = RowSum(directTx, p) + InSum(transfer, p) - OutSum(transfer, p)
      BY <1>11
    <3>2. (RowBalance(p))' = RowSum(directTx', p) + InSum(transfer, p) - OutSum(transfer, p)
      BY <1>3, BalanceIsSums
    <3>3. RowSum(directTx', p) = RowSum(directTx, p) + Moves(row, p)
      BY <1>5, <2>4, <2>7, <2>10, RowSumMoves
    <3>4. CashDelta(d, p) = Moves(row, p)
      <4>1. d.rule = "ACCOUNT_OPENING" /\ d.wallet = w /\ d.signed = x
        BY <2>1 DEF OpeningDraft
      <4>2. CashDelta(d, p) = IF p = w THEN x ELSE 0
        BY <2>7, <4>1, OpeningCash
      <4>3. WalletDelta(row.money) = x
        BY <2>3, <2>6 DEF WalletDelta, EffectiveCash
      <4> QED
        BY <2>3, <4>2, <4>3 DEF Moves
    <3>5. RowSum(directTx, p) \in Int /\ InSum(transfer, p) \in Int /\ OutSum(transfer, p) \in Int
          /\ Moves(row, p) \in Int
      BY <1>5, <2>7, RowSumMoves, InSumMoves, OutSumMoves, MovesType
    <3>6. caches'.cash[p] = opened.cash[p] + CashDelta(d, p)
      BY <2>9
    <3> QED
      BY <3>1, <3>2, <3>3, <3>4, <3>5, <3>6
  <2> QED
    BY <2>9, <2>12, <2>17, <2>18, <2>19, <2>20, <2>21, <2>22 DEF WalletInv, CachesFollowLedger
<1> QED
  BY <1>12, <1>13

(* An account deleted: no transfer is of it, and its rows go with it.       *)
LEMMA CommitRemoveKeeps ==
  ASSUME WalletInv, NEW r \in Requests, CommitRemove(r)
  PROVE  WalletInv'
<1>1. PICK w : w = req[r].wallet
  OBVIOUS
<1>2. PICK S : S = RowsOf(w)
  OBVIOUS
<1>3. PICK A : A = DOMAIN account \ {w}
  OBVIOUS
<1>4. /\ w \in DOMAIN account /\ Arrived(w) = {} /\ Left(w) = {}
      /\ account' = Within(account, {w})
      /\ directTx' = Within(directTx, S)
      /\ caches' = [caches EXCEPT !.cash = Within(@, {w})]
      /\ req' = [req EXCEPT ![r] = Idle]
      /\ transfer' = transfer /\ journals' = journals
  BY <1>1, <1>2 DEF CommitRemove, Finish
<1>5. DOMAIN account' = A /\ \A v \in A : account'[v] = account[v]
  BY <1>3, <1>4 DEF Within
<1>6. /\ DOMAIN directTx' = DOMAIN directTx \ S /\ \A t \in DOMAIN directTx' : directTx'[t] = directTx[t]
      /\ \A t \in DOMAIN directTx : t \in S <=> directTx[t].wallet = w
  BY <1>2, <1>4 DEF Within, RowsOf
<1>7. /\ caches' \in Balances(A)
      /\ \A p \in A : caches'.cash[p] = caches.cash[p]
      /\ caches'.income = caches.income /\ caches'.expense = caches.expense
      /\ DOMAIN caches'.cash = A
  <2>1. /\ caches.cash \in [DOMAIN account -> Int] /\ DOMAIN caches.cash = DOMAIN account
        /\ caches = [cash |-> caches.cash, income |-> caches.income, expense |-> caches.expense]
        /\ caches.income \in [{} -> Int] /\ caches.expense \in [{} -> Int]
    BY DEF WalletInv, Accounts, Balances
  <2>2. PICK c : c = Within(caches.cash, {w})
    OBVIOUS
  <2>3. c \in [A -> Int] /\ \A p \in A : c[p] = caches.cash[p]
    BY <1>3, <2>1, <2>2 DEF Within
  <2>4. caches' = [cash |-> c, income |-> caches.income, expense |-> caches.expense]
    BY <1>4, <2>1, <2>2
  <2> QED
    BY <2>1, <2>3, <2>4 DEF Balances
<1>8. Rows(directTx') /\ Rows(directTx) /\ Moved(transfer)
  BY <1>6, FS_Subset DEF WalletInv, Accounts, Rows
<1>9. Accounts'
  BY <1>3, <1>4, <1>5, <1>6, <1>7, <1>8 DEF WalletInv, Accounts, Request
<1>10. CachesFollowLedger'
  BY <1>3, <1>4, <1>7 DEF WalletInv, Accounts, Balances, CachesFollowLedger, CachesEqualLedger
<1>11. RowsHaveWallets'
  <2>1. \A t \in DOMAIN directTx' : directTx'[t].wallet \in A
    BY <1>3, <1>6 DEF WalletInv, RowsHaveWallets
  <2>2. \A x \in DOMAIN transfer : transfer[x].from \in A /\ transfer[x].to \in A
    BY <1>3, <1>4 DEF WalletInv, RowsHaveWallets, Arrived, Left
  <2> QED
    BY <1>4, <1>5, <2>1, <2>2 DEF RowsHaveWallets
<1>12. NoKeyAhead' /\ RowsArePosted' /\ KeysTell' /\ OneJournalInForce'
  BY <1>4, <1>6 DEF WalletInv, NoKeyAhead, RowsArePosted, KeysTell, OneJournalInForce, IsOpening
<1>13. BalanceMatchesRows'
  <2> SUFFICES ASSUME NEW p \in A
               PROVE  caches'.cash[p] = (RowBalance(p))'
    BY <1>5 DEF BalanceMatchesRows
  <2>1. caches.cash[p] = RowSum(directTx, p) + InSum(transfer, p) - OutSum(transfer, p)
    BY <1>3, BalanceIsSums DEF WalletInv, BalanceMatchesRows
  <2>2. (RowBalance(p))' = RowSum(directTx', p) + InSum(transfer, p) - OutSum(transfer, p)
    BY <1>4, BalanceIsSums
  <2>3. \A t \in S : t \in DOMAIN directTx => Moves(directTx[t], p) = 0
    BY <1>3, <1>6 DEF Moves
  <2>4. RowSum(directTx', p) = RowSum(directTx, p)
    BY <1>4, <1>8, <2>3, RowSumMoves
  <2> QED
    BY <1>7, <2>1, <2>2, <2>4
<1> QED
  BY <1>9, <1>10, <1>11, <1>12, <1>13 DEF WalletInv

-----------------------------------------------------------------------------
(* Whatever is done to wallets, direct transactions and transfers, the      *)
(* cached balance is what the journals in force add up to and what the      *)
(* rows add up to, as long as no client edits or deletes the row that       *)
(* stands for an opening balance: accounts.service.ts writes that row with  *)
(* no journal under its key, so account-transactions.service.ts finds none  *)
(* to reverse.                                                              *)
THEOREM WalletsAlwaysAgree ==
  ASSUME "editOpening" \notin Operations, "deleteOpening" \notin Operations
  PROVE  Spec => []WalletsAgree
<1>1. ASSUME WalletInv, [Next]_vars PROVE WalletInv'
  BY <1>1, ReadsKeep, FlagsKeep, RecalculateKeeps, CreateDirectKeeps, UpdateDirectKeeps,
     DeleteDirectKeeps, TransferKeeps, CreateAccountKeeps, CommitRemoveKeeps DEF Next
<1>2. WalletInv => WalletsAgree
  BY DEF WalletInv, WalletsAgree
<1> QED
  BY <1>1, <1>2, InitWallet, PTL DEF Spec
=============================================================================
