---------------------------- MODULE MCTranscripts ----------------------------
(* A small instance of Transcripts for TLC. *)
EXTENDS Transcripts

Record == [form |-> "record", type |-> "assistant", day |-> "today", tokens |-> 1,
           id |-> Missing, model |-> 1, session |-> 1]
Malformed == [Record EXCEPT !.form = "malformed"]
Oversized == [Record EXCEPT !.form = "oversized"]

\* Records streamed of two messages, the second one of another session, one
\* without an id, one of yesterday, one of no session, and lines that are no
\* record; three models.
Streamed ==
  {Record, [Record EXCEPT !.day = "earlier", !.id = 1], Malformed, Oversized} \cup
  {[Record EXCEPT !.id = 1, !.tokens = n, !.model = 2]: n \in {1, 5}} \cup
  {[Record EXCEPT !.id = 2, !.tokens = 3, !.model = 3, !.session = s]: s \in {Missing, 2}}
=============================================================================
