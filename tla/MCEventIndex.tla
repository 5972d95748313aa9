----------------------------- MODULE MCEventIndex -----------------------------
(* EventIndex for TLC. *)
EXTENDS EventIndex, TLC

\* Which accounts have a row before the batch is chosen in Init, for every one alike.
Symmetry == Permutations(Accounts)
=============================================================================
