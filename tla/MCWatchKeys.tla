----------------------------- MODULE MCWatchKeys -----------------------------
(* Small instances of WatchKeys for TLC. *)
EXTENDS WatchKeys
=============================================================================
