--------------------------- MODULE MCEntryLedger ---------------------------
(* Instances of EntryLedger small enough for TLC.                          *)
EXTENDS EntryVersions, TLC

CONSTANTS e1, e2, b1, b2, w1, o1

In(x, c)  == [type |-> "INCOME", amount |-> x, charge |-> c]
Out(x, c) == [type |-> "EXPENSE", amount |-> x, charge |-> c]

(* Money in with a charge and money out without: the two signs, and an     *)
(* amount that differs from its cash effect.                               *)
TwoMoneys == {In(2, 1), Out(1, 0)}

(* Two payments, of which the larger cannot be made twice.                 *)
TwoPayments == {In(2, 1), In(1, 0)}

(* One payment leaves it partly paid, a second would overpay it.           *)
OneReceivable == [o \in Obligations |-> [type |-> "RECEIVABLE", book |-> b1, total |-> 3]]

(* Every request may overlap with every other.                             *)
AnyPair == {{j, k} : j, k \in Kinds}

Symmetry == Permutations(Requests) \union Permutations(Entries)

(* Where no obligation names a book, the books are alike as well.          *)
BookSymmetry == Symmetry \union Permutations(Books)
=============================================================================
