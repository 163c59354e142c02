---------------------------- MODULE MCRaceDialer ----------------------------
(* A small instance of RaceDialer for TLC. *)
EXTENDS RaceDialer
=============================================================================
