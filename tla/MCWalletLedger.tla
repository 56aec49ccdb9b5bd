--------------------------- MODULE MCWalletLedger ---------------------------
(* Instances of WalletLedger small enough for TLC.                         *)
EXTENDS WalletLedger, TLC

In(x, c)  == [type |-> "INCOME", amount |-> x, charge |-> c]
Out(x, c) == [type |-> "EXPENSE", amount |-> x, charge |-> c]

TwoMoneys == {In(2, 1), Out(1, 0)}
OneSum    == {[amount |-> 1, fee |-> 1]}

Symmetry == Permutations(Requests) \union Permutations(Txs) \union Permutations(Wallets)
=============================================================================
