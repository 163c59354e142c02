------------------------------ MODULE MCCollect ------------------------------
(* A small instance of Collect for TLC. *)
EXTENDS Collect

Up == [installed |-> TRUE, authenticated |-> FALSE, configured |-> TRUE]
Down == [installed |-> TRUE, authenticated |-> FALSE, configured |-> FALSE]
UpOrDown == {Up, Down}
=============================================================================
