------------------------------- MODULE MCWatch -------------------------------
(* Small instances of Watch for TLC. *)
EXTENDS Watch

\* Two keys: each kind comes first and each comes second, and a quit key is
\* followed by another.
TwoKeys == {<<"refresh", "quit">>, <<"quit", "other">>, <<"other", "refresh">>}
OneKey == {<<"quit">>}
=============================================================================
