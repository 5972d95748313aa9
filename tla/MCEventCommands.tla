--------------------------- MODULE MCEventCommands ---------------------------
(* Instances of EventCommands for TLC. *)
EXTENDS EventCommands, TLC

Symmetry == Permutations(Tasks) \cup Permutations(Validators)
=============================================================================
