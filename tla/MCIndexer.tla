------------------------------ MODULE MCIndexer ------------------------------
(* Instances of Indexer for TLC. *)
EXTENDS Indexer, TLC

\* The runs of syncWithNode are interchangeable, and so are those of
\* handleNewBlockEvent; not used with liveness.
Symmetry == Permutations(Loops) \cup Permutations(Slots)

OneRunAlive == \A j, k \in Slots : job[j].owner # "free" /\ job[k].owner # "free" => j = k

\* Bound: runs overlap only before the chain has its last block.
LastBlockAlone == height < MaxHeight \/ OneRunAlive
=============================================================================
