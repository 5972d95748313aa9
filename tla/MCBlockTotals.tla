---------------------------- MODULE MCBlockTotals ----------------------------
(* BlockTotals for TLC. *)
EXTENDS BlockTotals, TLC

\* Different at every height, and no two sums of them equal.
ExpectedRewards == [h \in Heights |-> 2 ^ h]
MintedRewards   == [h \in Heights |-> 2 * 4 ^ h]
LockedAmounts   == [h \in Heights |-> 4 ^ h]
MinimumFees     == [h \in Heights |-> 3 * 2 ^ h]
TotalFees       == [h \in Heights |-> 2 ^ h]

Symmetry == Permutations(Validators) \cup Permutations(Runs)
=============================================================================
