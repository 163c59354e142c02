----------------------------- MODULE Transcripts -----------------------------
(***************************************************************************)
(* Today's usage from Claude Code's transcripts: parseClaudeTranscripts,   *)
(* parseClaudeTranscriptFile and mostUsedModel of                          *)
(* internal/adapters/claude.go, and what Fetch makes of their result.  The *)
(* files are read one after the other, line by line, while Claude Code may *)
(* still append to them; the maps are visited in any order, as Go does.    *)
(***************************************************************************)
EXTENDS Integers, Sequences, FiniteSets, SequencesExt, FiniteSetsExt

CONSTANTS
  Paths,        \* how many transcripts there are, in the order of their paths
  Ids,          \* the message ids
  Models,       \* the model names, numbers in their lexicographic order
  Sessions,     \* the session ids
  Lines,        \* bound: the lines that are appended
  MaxLines      \* bound: the number of lines appended

\* A message id, model or session that the line does not carry.
Missing == 0

\* A line is a record, or one that does not parse, or one that overflows the
\* scanner's buffer.
Line ==
  [form: {"record", "malformed", "oversized"}, type: {"assistant", "other"},
   day: {"today", "earlier", "unknown"}, tokens: Nat,
   id: Ids \cup {Missing}, model: Models \cup {Missing}, session: Sessions \cup {Missing}]

ASSUME PathsAssumption == Paths \in Nat /\ MaxLines \in Nat
ASSUME NamesAssumption == Models \subseteq Nat \ {0} /\ Missing \notin Ids \cup Sessions
ASSUME LinesAssumption == Lines \subseteq Line

VARIABLES
  file,         \* the lines of each transcript
  pc,           \* where Fetch is
  current,      \* the transcript being read
  pos,          \* the lines of it that have been read
  seen,         \* the last record of each id in it
  pending,      \* the ids of seen that are yet to be added
  usage,        \* the aggregate
  whole,        \* how many lines were read of each transcript
  failed,       \* the transcripts that could not be read, or not to their end
  left,         \* the models that mostUsedModel is yet to visit
  best,         \* the one it has found
  outcome       \* what Fetch reports of the transcripts

scanVars == <<current, pos, seen, pending, usage, whole, failed>>
vars == <<file, pc, current, pos, seen, pending, usage, whole, failed, left, best, outcome>>

None == [form |-> "malformed", type |-> "other", day |-> "unknown", tokens |-> 0,
         id |-> Missing, model |-> Missing, session |-> Missing]
NoUsage == [records |-> 0, tokens |-> 0, sessions |-> {}, models |-> [m \in Models |-> 0]]

Init ==
  /\ file = [f \in 1..Paths |-> <<>>]
  /\ pc = "open" /\ current = 1 /\ pos = 0
  /\ seen = [i \in Ids |-> None] /\ pending = {}
  /\ usage = NoUsage
  /\ whole = [f \in 1..Paths |-> 0] /\ failed = {}
  /\ left = {} /\ best = Missing
  /\ outcome = "none"

\* Claude Code goes on while it is read.
AppendLine ==
  /\ MapThenSumSet(LAMBDA f: Len(file[f]), 1..Paths) < MaxLines
  /\ \E f \in 1..Paths, l \in Lines: file' = [file EXCEPT ![f] = Append(@, l)]
  /\ UNCHANGED <<pc, scanVars, left, best, outcome>>

\* A record in today's window, of a session, that has used anything.
Counts(l) ==
  l.form = "record" /\ l.type = "assistant" /\ l.session # Missing /\ l.tokens > 0 /\ l.day = "today"

Plus(u, l) ==
  [records |-> u.records + 1,
   tokens |-> u.tokens + l.tokens,
   sessions |-> u.sessions \cup {l.session},
   models |-> [m \in Models |-> u.models[m] + IF l.model = m THEN 1 ELSE 0]]

\* The next transcript, if any, and a fresh map for it.
Advance ==
  /\ current' = current + 1
  /\ pos' = 0
  /\ seen' = [i \in Ids |-> None]
  /\ pc' = "open"
  /\ pending' = {}

Open ==
  /\ pc = "open" /\ current <= Paths
  /\ pc' = "scan"
  /\ UNCHANGED <<file, scanVars, left, best, outcome>>

OpenFails ==
  /\ pc = "open" /\ current <= Paths
  /\ Advance
  /\ failed' = failed \cup {current}
  /\ UNCHANGED <<file, usage, whole, left, best, outcome>>

\* Mutant of Keep: the first record of an id stays.
KeepMutant(old, l) == IF old = None THEN l ELSE old
Keep(old, l) == l

AtEnd == pos = Len(file[current])

ScanLine ==
  /\ pc = "scan" /\ ~AtEnd
  /\ LET l == file[current][pos + 1]
     IN  /\ l.form # "oversized"
         /\ IF Counts(l) /\ l.id # Missing
            THEN seen' = [seen EXCEPT ![l.id] = Keep(@, l)]
            ELSE UNCHANGED seen
         /\ usage' = IF Counts(l) /\ l.id = Missing THEN Plus(usage, l) ELSE usage
  /\ pos' = pos + 1
  /\ UNCHANGED <<file, pc, current, pending, whole, failed, left, best, outcome>>

\* sc.Err(): the records in seen are dropped with the transcript, but not those
\* that have been added.
\* Mutant of Dropped: the error is looked at after the records of seen.
DroppedMutant ==
  LET ids == {i \in Ids: seen[i] # None}
  IN  usage' = FoldSet(LAMBDA i, u: Plus(u, seen[i]), usage, ids)
Dropped == UNCHANGED usage

ScanFails ==
  /\ pc = "scan" /\ ~AtEnd /\ file[current][pos + 1].form = "oversized"
  /\ Advance
  /\ Dropped
  /\ failed' = failed \cup {current}
  /\ whole' = [whole EXCEPT ![current] = pos]
  /\ UNCHANGED <<file, left, best, outcome>>

ScanEnds ==
  /\ pc = "scan" /\ AtEnd
  /\ pending' = {i \in Ids: seen[i] # None}
  /\ whole' = [whole EXCEPT ![current] = pos]
  /\ pc' = "add"
  /\ UNCHANGED <<file, current, pos, seen, usage, failed, left, best, outcome>>

AddSeen ==
  /\ pc = "add"
  /\ \E i \in pending:
       /\ usage' = Plus(usage, seen[i])
       /\ pending' = pending \ {i}
  /\ UNCHANGED <<file, pc, current, pos, seen, whole, failed, left, best, outcome>>

FileDone ==
  /\ pc = "add" /\ pending = {}
  /\ Advance
  /\ UNCHANGED <<file, usage, whole, failed, left, best, outcome>>

(***************************************************************************)
(* What Fetch reports                                                      *)
(***************************************************************************)
NoneParsed == Paths > 0 /\ failed = 1..Paths

Report ==
  /\ pc = "open" /\ current > Paths
  /\ outcome' = IF NoneParsed THEN "error" ELSE IF usage.records > 0 THEN "metrics" ELSE "nothing"
  /\ IF outcome' = "metrics"
     THEN pc' = "models" /\ left' = {m \in Models: usage.models[m] > 0}
     ELSE pc' = "done" /\ UNCHANGED left
  /\ UNCHANGED <<file, scanVars, best>>

\* mostUsedModel visits its map in any order.
\* Mutant of Better: of two models used equally often the one visited first.
BetterMutant(m) == usage.models[m] > IF best = Missing THEN 0 ELSE usage.models[best]
Better(m) ==
  LET count == usage.models[m]
      max == IF best = Missing THEN 0 ELSE usage.models[best]
  IN  count > max \/ (count = max /\ (best = Missing \/ m < best))

VisitModel ==
  /\ pc = "models"
  /\ \E m \in left:
       /\ left' = left \ {m}
       /\ best' = IF Better(m) THEN m ELSE best
  /\ UNCHANGED <<file, pc, scanVars, outcome>>

ModelsDone ==
  /\ pc = "models" /\ left = {}
  /\ pc' = "done"
  /\ UNCHANGED <<file, scanVars, left, best, outcome>>

Parse == Open \/ OpenFails \/ ScanLine \/ ScanFails \/ ScanEnds \/ AddSeen \/ FileDone
Next == AppendLine \/ Parse \/ Report \/ VisitModel \/ ModelsDone
Spec == Init /\ [][Next]_vars

(***************************************************************************)
(* Properties                                                              *)
(***************************************************************************)

\* What is to count: a record of today and of a session that has used anything.
Today(l) ==
  /\ l.form = "record" /\ l.type = "assistant" /\ l.day = "today"
  /\ l.session # Missing /\ l.tokens > 0

\* The types, that no more is read than there is, and that a map of last
\* records has only today's, each under its own id.
TypeOK ==
  /\ file \in [1..Paths -> Seq(Lines)]
  /\ pc \in {"open", "scan", "add", "models", "done"}
  /\ current \in 1..Paths + 1 /\ pos \in Nat
  /\ pc \in {"scan", "add"} => current <= Paths
  /\ current <= Paths => pos <= Len(file[current])
  /\ seen \in [Ids -> Lines \cup {None}]
  /\ \A i \in Ids: seen[i] # None => Today(seen[i]) /\ seen[i].id = i
  /\ pending \subseteq {i \in Ids: seen[i] # None}
  /\ usage \in [records: Nat, tokens: Nat, sessions: SUBSET Sessions, models: [Models -> Nat]]
  /\ whole \in [1..Paths -> Nat] /\ failed \subseteq 1..Paths
  /\ \A f \in 1..Paths: whole[f] <= Len(file[f])
  /\ left \subseteq Models /\ best \in Models \cup {Missing}
  /\ outcome \in {"none", "error", "metrics", "nothing"}

\* The lines of a transcript that count: of those that were read, today's
\* records without an id and the last one of each id, the latter only if the
\* transcript was read to its end.
Relevant(f) ==
  {k \in 1..whole[f]:
     LET l == file[f][k]
         superseded == \E j \in k + 1..whole[f]: file[f][j].id = l.id /\ Today(file[f][j])
     IN  Today(l) /\ (l.id # Missing => f \notin failed /\ ~superseded)}

Counted == UNION {{<<f, k>>: k \in Relevant(f)}: f \in 1..Paths}
LineAt(fk) == file[fk[1]][fk[2]]
TokensOf(S) == MapThenSumSet(LAMBDA fk: LineAt(fk).tokens, S)

Aggregated == pc \in {"models", "done"}

\* In each transcript a response counts once, with its final tally, whatever
\* was streamed of it before and whatever is appended meanwhile, and a session
\* counts once in all of them.  It is once for each transcript: the map of last
\* records is made afresh for a file, and an id that stands in two of them (a
\* resumed session) counts twice.  Of a transcript that fails half-way exactly
\* the records without an id that precede the failure count, so that it is
\* skipped in part and not as a whole.
FinalTallies ==
  Aggregated =>
    /\ usage.tokens = TokensOf(Counted)
    /\ usage.records = Cardinality(Counted)
    /\ usage.sessions = {LineAt(fk).session: fk \in Counted}

\* The model reported does not depend on the order of the map: it is the most
\* used one, the first by name of several.
ModelStable ==
  pc = "done" /\ outcome = "metrics" =>
    LET uses(m) == Cardinality({fk \in Counted: LineAt(fk).model = m})
        top == {m \in Models: uses(m) > 0 /\ \A n \in Models: uses(n) <= uses(m)}
    IN  best = IF top = {} THEN Missing ELSE Min(top)
=============================================================================
