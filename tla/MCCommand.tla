------------------------------ MODULE MCCommand ------------------------------
(* A small instance of Command for TLC. *)
EXTENDS Command

Vocabulary == {"--refresh", "--refresh=false", "--watch", "--help", "--config", "-config",
               "-", "--", "file", "doctor", "watch", "codex", "none"}
FewArgs == {<<>>, <<"codex">>, <<"watch">>, <<"watch", "codex">>, <<"sources">>, <<"version">>, <<"--bogus">>}

\* Every value of one field with the others unset, and two fields at once.
Durations == {Unset, Bad, -5, 0, 7}
Quiet == [enabled |-> "unset", ttl |-> Unset]
Empty == [Missing EXCEPT !.state = "decoded"]
Simple ==
  [p \in Paths |-> IF p # "file" THEN Missing
                   ELSE [Empty EXCEPT !.cache = 7, !.adapters["codex"].enabled = "false"]]
Varied ==
  {[Missing EXCEPT !.state = s]: s \in {"missing", "unreadable", "malformed"}} \cup
  {[Empty EXCEPT !.cache = c, !.timeout = d, !.watch = w,
                 !.adapters = [t \in Tools |-> IF t = "codex" THEN a ELSE Quiet]]:
     c \in Durations, d \in {Unset, Bad, 0}, w \in Durations,
     a \in [enabled: {"unset", "true", "false"}, ttl: Durations]}

\* Any arguments with one pair of files, and a few with files of all kinds.
AnyLines == FewArgs \cup UNION {[1..n -> Vocabulary]: n \in 1..4}
FilesMet(a) == {Simple} \cup IF a \in FewArgs THEN {[p \in Paths |-> f]: f \in Varied} ELSE {}
=============================================================================
