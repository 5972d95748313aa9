--------------------------- MODULE MCValidatorRanks ---------------------------
(* Instances of ValidatorRanks for TLC. *)
EXTENDS ValidatorRanks
=============================================================================
