---------------------------- MODULE MCListQueries ----------------------------
(* ListQueries for TLC: a client that asks /blocks for a range of heights. *)
EXTENDS ListQueries

HeightClients == {[endpoint |-> "blocks", given |-> {"height"}, field |-> "height"]}
=============================================================================
