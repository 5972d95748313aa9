-------------------------- MODULE MCTransactionIndex --------------------------
(* TransactionIndex for TLC. *)
EXTENDS TransactionIndex, TLC

\* No two sums of them are equal; every other transaction fails.
TotalFees == [i \in 1 .. MaxTxs |-> 2 ^ i]
Odd       == {i \in 1 .. MaxTxs : i % 2 = 1}

Symmetry == Permutations(Accounts)
=============================================================================
