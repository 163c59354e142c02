-------------------------- MODULE TranscriptsProofs --------------------------
(***************************************************************************)
(* Theorems about Transcripts, for any transcripts, lines, ids and models: *)
(* that what is reported is the tally of exactly the lines that count, and *)
(* that the model reported is a function of them, in whatever order Go     *)
(* visits its maps and whatever is appended meanwhile.                     *)
(***************************************************************************)
EXTENDS Transcripts, FiniteSetTheorems, TLAPS

Aggregate == [records: Nat, tokens: Nat, sessions: SUBSET Sessions, models: [Models -> Nat]]

\* The types in two parts: the transcripts and how far they are read, ...
Reading ==
  /\ file \in [1..Paths -> Seq(Lines)]
  /\ current \in 1..Paths + 1 /\ pos \in Nat
  /\ pc \in {"scan", "add"} => current <= Paths
  /\ current <= Paths => pos <= Len(file[current])
  /\ whole \in [1..Paths -> Nat] /\ failed \subseteq 1..Paths
  /\ \A f \in 1..Paths: whole[f] <= Len(file[f])

\* ... and what has been made of them.
Result ==
  /\ pc \in {"open", "scan", "add", "models", "done"}
  /\ seen \in [Ids -> Lines \cup {None}]
  /\ \A i \in Ids: seen[i] # None => Today(seen[i]) /\ seen[i].id = i
  /\ pending \subseteq {i \in Ids: seen[i] # None}
  /\ usage \in Aggregate
  /\ left \subseteq Models /\ best \in Models \cup {Missing}
  /\ outcome \in {"none", "error", "metrics", "nothing"}

LEMMA Parts == TypeOK <=> Reading /\ Result
  BY DEF TypeOK, Reading, Result, Aggregate

LEMMA ReadingInit == Init => Reading
  BY PathsAssumption DEF Init, Reading

LEMMA ResultInit == Init => Result
<1> SUFFICES ASSUME Init PROVE Result
  OBVIOUS
<1>1. usage \in Aggregate
  BY DEF Init, NoUsage, Aggregate
<1>2. QED
  BY <1>1 DEF Init, Result

LEMMA ReadingStep == Reading /\ [Next]_vars => Reading'
<1> SUFFICES ASSUME Reading, [Next]_vars PROVE Reading'
  OBVIOUS
<1>1. /\ \A f \in 1..Paths: file[f] \in Seq(Lines) /\ Len(file[f]) \in Nat
      /\ current <= Paths => current \in 1..Paths
  BY PathsAssumption DEF Reading
<1>2. CASE AppendLine
  <2>1. PICK f \in 1..Paths, l \in Lines: file' = [file EXCEPT ![f] = Append(file[f], l)]
    BY <1>2 DEF AppendLine
  <2>2. UNCHANGED <<pc, current, pos, whole, failed>>
    BY <1>2 DEF AppendLine, scanVars
  <2>3. file' \in [1..Paths -> Seq(Lines)]
    BY <1>1, <2>1 DEF Reading
  <2>4. \A g \in 1..Paths: Len(file[g]) <= Len(file'[g]) /\ Len(file'[g]) \in Nat
    BY <1>1, <2>1 DEF Reading
  <2>5. ASSUME current <= Paths PROVE pos <= Len(file'[current])
    <3>1. current \in 1..Paths /\ pos \in Nat /\ pos <= Len(file[current])
      BY <1>1, <2>5 DEF Reading
    <3>2. QED
      BY <1>1, <2>4, <3>1
  <2>6. ASSUME NEW g \in 1..Paths PROVE whole[g] <= Len(file'[g])
    <3>1. whole[g] \in Nat /\ whole[g] <= Len(file[g]) /\ Len(file[g]) \in Nat
      BY <1>1 DEF Reading
    <3>2. Len(file[g]) <= Len(file'[g]) /\ Len(file'[g]) \in Nat
      BY <2>4
    <3>3. QED
      BY <3>1, <3>2
  <2>7. QED
    BY <2>2, <2>3, <2>5, <2>6 DEF Reading
<1>3. ASSUME Advance, current <= Paths, failed' \subseteq 1..Paths, UNCHANGED <<file, whole>>
      PROVE  Reading'
  BY <1>1, <1>3, PathsAssumption DEF Reading, Advance
<1>4. CASE OpenFails \/ FileDone
  BY <1>1, <1>3, <1>4 DEF OpenFails, FileDone, Reading
<1>10. CASE ScanFails
  <2>1. current \in 1..Paths /\ pos \in Nat /\ pos <= Len(file[current])
    BY <1>1, <1>10 DEF ScanFails, Reading
  <2>2. /\ current' = current + 1 /\ pos' = 0 /\ pc' = "open"
        /\ failed' = failed \cup {current} /\ whole' = [whole EXCEPT ![current] = pos]
        /\ file' = file
    BY <1>10 DEF ScanFails, Advance
  <2>3. current' <= Paths => current' \in 1..Paths /\ 0 <= Len(file[current'])
    BY <1>1, <2>1, <2>2, PathsAssumption
  <2>4. QED
    BY <1>1, <2>1, <2>2, <2>3, PathsAssumption DEF Reading
<1>5. CASE ScanLine
  BY <1>1, <1>5 DEF ScanLine, AtEnd, Reading
<1>6. CASE ScanEnds
  BY <1>1, <1>6 DEF ScanEnds, AtEnd, Reading
<1>7. CASE Open \/ Report \/ VisitModel \/ ModelsDone \/ UNCHANGED vars
  BY <1>7 DEF Open, Report, VisitModel, ModelsDone, scanVars, vars, Reading
<1>8. CASE AddSeen
  BY <1>8 DEF AddSeen, Reading
<1>9. QED
  BY <1>2, <1>4, <1>5, <1>6, <1>7, <1>8, <1>10 DEF Next, Parse

\* Counting a line keeps the type of an aggregate.
LEMMA PlusType ==
  ASSUME NEW u \in Aggregate, NEW l, l.tokens \in Nat, l.session \in Sessions
  PROVE  Plus(u, l) \in Aggregate
<1>1. [m \in Models |-> u.models[m] + IF l.model = m THEN 1 ELSE 0] \in [Models -> Nat]
  BY DEF Aggregate
<1>2. u.records + 1 \in Nat /\ u.tokens + l.tokens \in Nat /\ u.sessions \cup {l.session} \subseteq Sessions
  BY DEF Aggregate
<1>3. QED
  BY <1>1, <1>2 DEF Plus, Aggregate

LEMMA ResultStep == Reading /\ Result /\ [Next]_vars => Result'
<1> SUFFICES ASSUME Reading, Result, [Next]_vars PROVE Result'
  OBVIOUS
<1>1. /\ \A f \in 1..Paths: file[f] \in Seq(Lines) /\ Len(file[f]) \in Nat
      /\ current <= Paths => current \in 1..Paths
  BY PathsAssumption DEF Reading
<1>2. \A l \in Lines: /\ l.tokens \in Nat /\ l.id \in Ids \cup {Missing}
                      /\ l.session = Missing \/ l.session \in Sessions
  BY LinesAssumption DEF Line
<1>3. CASE AppendLine \/ Open \/ UNCHANGED vars
  BY <1>3 DEF AppendLine, Open, Result, vars, scanVars
<1>4. ASSUME Advance, UNCHANGED <<usage, left, best, outcome>> PROVE Result'
  BY <1>4 DEF Advance, Result
<1>5. CASE OpenFails \/ ScanFails \/ FileDone
  BY <1>4, <1>5 DEF OpenFails, ScanFails, Dropped, FileDone
<1>6. CASE ScanLine
  <2> DEFINE l == file[current][pos + 1]
  <2>1. l \in Lines
    BY <1>1, <1>6 DEF ScanLine, AtEnd, Reading
  <2>2. usage' \in Aggregate
    <3>1. usage' = IF Today(l) /\ l.id = Missing THEN Plus(usage, l) ELSE usage
      BY <1>6 DEF ScanLine, Counts, Today
    <3>2. usage \in Aggregate
      BY DEF Result
    <3>3. CASE Today(l)
      <4>1. l.tokens \in Nat /\ l.session \in Sessions
        BY <1>2, <2>1, <3>3 DEF Today
      <4> HIDE DEF l
      <4>2. QED
        BY <3>1, <3>2, <4>1, PlusType
    <3>4. QED
      BY <3>1, <3>2, <3>3
  <2>3. /\ seen' \in [Ids -> Lines \cup {None}]
        /\ \A i \in Ids: seen'[i] # None => Today(seen'[i]) /\ seen'[i].id = i
        /\ \A i \in Ids: seen[i] # None => seen'[i] # None
    <3>1. CASE Counts(l) /\ l.id # Missing
      <4>1. l.id \in Ids /\ Today(l) /\ l # None
        BY <1>2, <2>1, <3>1 DEF Counts, Today, None
      <4>2. seen' = [seen EXCEPT ![l.id] = l]
        BY <1>6, <3>1 DEF ScanLine, Keep
      <4>3. QED
        BY <2>1, <4>1, <4>2 DEF Result
    <3>2. CASE ~(Counts(l) /\ l.id # Missing)
      BY <1>6, <3>2 DEF ScanLine, Result
    <3>3. QED
      BY <3>1, <3>2
  <2>4. UNCHANGED <<pc, pending, left, best, outcome>>
    BY <1>6 DEF ScanLine
  <2>5. QED
    BY <2>2, <2>3, <2>4 DEF Result
<1>7. CASE ScanEnds
  BY <1>7 DEF ScanEnds, Result
<1>8. CASE AddSeen
  <2>1. PICK i \in pending: usage' = Plus(usage, seen[i]) /\ pending' = pending \ {i}
    BY <1>8 DEF AddSeen
  <2>2. seen[i] \in Lines /\ Today(seen[i])
    BY DEF Result
  <2>3. usage' \in Aggregate
    <3>1. seen[i].tokens \in Nat /\ seen[i].session \in Sessions
      BY <1>2, <2>2 DEF Today
    <3>2. QED
      BY <2>1, <3>1, PlusType DEF Result
  <2>4. QED
    BY <1>8, <2>1, <2>3 DEF AddSeen, Result
<1>9. CASE Report
  BY <1>9 DEF Report, Result, scanVars
<1>10. CASE VisitModel \/ ModelsDone
  BY <1>10 DEF VisitModel, ModelsDone, Result, scanVars
<1>11. QED
  BY <1>3, <1>5, <1>6, <1>7, <1>8, <1>9, <1>10 DEF Next, Parse

\* Every variable keeps its type: no more is read of a transcript than there
\* is, and what waits to be added is today's, once for each message.
THEOREM TranscriptsTypeCorrect == Spec => []TypeOK
  BY ReadingInit, ResultInit, ReadingStep, ResultStep, Parts, PTL DEF Spec

(***************************************************************************)
(* The model that is reported                                              *)
(***************************************************************************)

\* m is used more than n, or as much and its name is not after n's.
Precedes(m, n) ==
  usage.models[n] < usage.models[m] \/ (usage.models[n] = usage.models[m] /\ m <= n)

Used == {m \in Models: usage.models[m] > 0}

\* Of the models visited so far best is the one that precedes the others; the
\* aggregate no longer changes.
Visited ==
  /\ pc \notin {"models", "done"} => best = Missing /\ outcome = "none"
  /\ pc = "models" => outcome = "metrics"
  /\ outcome = "metrics" =>
       /\ pc \in {"models", "done"} /\ left \subseteq Used
       /\ pc = "done" => left = {}
       /\ best = Missing => left = Used
       /\ best # Missing => best \in Used
       /\ \A n \in Used \ left: Precedes(best, n)

\* Whatever the order of the visits, the model reported is the one used most,
\* the first by name of several.
MostUsed ==
  pc = "done" /\ outcome = "metrics" =>
    IF Used = {} THEN best = Missing ELSE best \in Used /\ \A n \in Used: Precedes(best, n)

LEMMA VisitedStep == Reading /\ Result /\ Visited /\ [Next]_vars => Visited'
<1> SUFFICES ASSUME Reading, Result, Visited, [Next]_vars PROVE Visited'
  OBVIOUS
<1>1. usage.models \in [Models -> Nat] /\ Models \subseteq Nat \ {0} /\ best \in Models \cup {Missing}
  BY NamesAssumption DEF Result, Aggregate
<1>2. CASE AppendLine \/ UNCHANGED vars
  BY <1>2 DEF AppendLine, vars, scanVars, Visited, Used, Precedes
<1>3. CASE Parse
  <2>1. pc \notin {"models", "done"} /\ pc' \notin {"models", "done"} /\ UNCHANGED <<best, outcome>>
    BY <1>3 DEF Parse, Open, OpenFails, ScanLine, ScanFails, ScanEnds, AddSeen, FileDone, Advance, Result
  <2>2. QED
    BY <2>1 DEF Visited
<1>4. CASE Report
  <2>1. pc = "open" /\ best' = best /\ usage' = usage
        /\ outcome' \in {"error", "metrics", "nothing"}
        /\ IF outcome' = "metrics" THEN pc' = "models" /\ left' = Used ELSE pc' = "done"
    BY <1>4 DEF Report, scanVars, Used
  <2>2. QED
    BY <2>1 DEF Visited, Used
<1>5. CASE VisitModel
  <2>1. PICK m \in left: left' = left \ {m} /\ best' = IF Better(m) THEN m ELSE best
    BY <1>5 DEF VisitModel
  <2>2. pc = "models" /\ UNCHANGED <<pc, usage, outcome>> /\ Used' = Used
    BY <1>5 DEF VisitModel, scanVars, Used
  <2>3. m \in Used /\ outcome = "metrics" /\ m \in Models /\ usage.models[m] > 0
    BY <2>1, <2>2 DEF Visited, Used
  <2>4. best' \in Used /\ best' # Missing
    BY <1>1, <2>1, <2>3 DEF Better, Visited, Missing
  <2>5. \A n \in Used \ left': Precedes(best', n)
    <3> TAKE n \in Used \ left'
    <3>1. n = m \/ n \in Used \ left
      BY <2>1
    <3>2. n \in Models /\ usage.models[n] \in Nat /\ usage.models[m] \in Nat /\ n \in Nat /\ m \in Nat
      BY <1>1, <2>3 DEF Used
    <3>3. CASE best = Missing
      BY <2>1, <2>3, <3>1, <3>2, <3>3 DEF Better, Visited, Precedes
    <3>4. CASE best # Missing
      <4>1. best \in Models /\ best \in Nat /\ usage.models[best] \in Nat
        BY <1>1, <3>4
      <4>2. n \in Used \ left => Precedes(best, n)
        BY <2>2, <2>3 DEF Visited
      <4>3. QED
        BY <2>1, <3>1, <3>2, <3>4, <4>1, <4>2 DEF Better, Precedes
    <3>5. QED
      BY <3>3, <3>4
  <2>6. (\A n \in Used \ left: Precedes(best, n))'
    BY <2>2, <2>5 DEF Precedes
  <2>7. QED
    BY <2>1, <2>2, <2>3, <2>4, <2>6 DEF Visited
<1>6. CASE ModelsDone
  BY <1>6 DEF ModelsDone, scanVars, Visited, Used, Precedes
<1>7. QED
  BY <1>2, <1>3, <1>4, <1>5, <1>6 DEF Next

\* The model reported is the one the aggregate has most of, whatever order the
\* map is visited in.
THEOREM MostUsedHolds == Spec => []MostUsed
<1>1. Init => Visited
  BY DEF Init, Visited
<1>2. Visited => MostUsed
  BY DEF Visited, MostUsed
<1>3. QED
  BY ReadingInit, ResultInit, ReadingStep, ResultStep, VisitedStep, <1>1, <1>2, PTL DEF Spec
(***************************************************************************)
(* What has been added                                                     *)
(***************************************************************************)

\* Of the first n lines of a transcript s those that are added once the last
\* records of the messages ids have been: today's without an id, and the last
\* one of each of ids.
Latest(s, n, k) == \A j \in k + 1..n: ~ (s[j].id = s[k].id /\ Today(s[j]))
Taken(s, n, ids) ==
  {k \in 1..n: Today(s[k]) /\ (s[k].id = Missing \/ (s[k].id \in ids /\ Latest(s, n, k)))}

\* The lines of f in the aggregate: of a transcript that is finished, of the one
\* being read, and of those to come.
Upto(f) ==
  IF f < current THEN Taken(file[f], whole[f], IF f \in failed THEN {} ELSE Ids)
  ELSE IF f = current THEN Taken(file[f], pos, IF pc = "add" THEN Ids \ pending ELSE {})
  ELSE {}

LinesOf(upto) == UNION {{<<f, k>>: k \in upto[f]}: f \in 1..Paths}
Added == LinesOf([f \in 1..Paths |-> Upto(f)])

\* A unit for each token of a line, so that a sum of tokens is a cardinality.
Entry(F, fk) == F[fk[1]][fk[2]]
Units(F, S) == UNION {{fk} \X (1..Entry(F, fk).tokens): fk \in S}
Using(F, S, m) == {fk \in S: Entry(F, fk).model = m}

\* u is what the lines S of the transcripts F come to.
Tally(F, u, S) ==
  /\ IsFiniteSet(S) /\ \A fk \in S: Entry(F, fk).tokens \in Nat
  /\ u.records = Cardinality(S)
  /\ u.tokens = Cardinality(Units(F, S))
  /\ u.sessions = {Entry(F, fk).session: fk \in S}
  /\ \A m \in Models: u.models[m] = Cardinality(Using(F, S, m))

\* r has the last of today's records of each message, of the first n lines of s.
Of(s, k, i) == Today(s[k]) /\ s[k].id = i
LastRecords(s, n, r) ==
  \A i \in Ids:
    IF r[i] = None THEN \A k \in 1..n: ~Of(s, k, i)
    ELSE \E k \in 1..n: Of(s, k, i) /\ s[k] = r[i] /\ \A j \in k + 1..n: ~Of(s, j, i)

\* How far the transcripts are read, before, at and after the current one.
Progress ==
  /\ \A f \in failed: f < current
  /\ \A f \in 1..Paths: f > current \/ (f = current /\ pc # "add") => whole[f] = 0
  /\ pc = "add" => whole[current] = pos
  /\ pc = "open" => pos = 0 /\ \A i \in Ids: seen[i] = None
  /\ pc \in {"models", "done"} => current > Paths
  /\ pc \in {"scan", "add"} => LastRecords(file[current], pos, seen)

Tallied == Progress /\ Tally(file, usage, Added)

(***************************************************************************)
(* Sums of tokens                                                          *)
(***************************************************************************)

LEMMA UnitsOfOne ==
  ASSUME NEW F, NEW x, Entry(F, x).tokens \in Nat
  PROVE  IsFiniteSet(Units(F, {x})) /\ Cardinality(Units(F, {x})) = Entry(F, x).tokens
<1> DEFINE n == Entry(F, x).tokens
<1>1. IsFiniteSet(1..n) /\ Cardinality(1..n) = n
  BY FS_Interval
<1>2. Units(F, {x}) = {x} \X (1..n)
  BY DEF Units
<1>3. IsFiniteSet({x}) /\ Cardinality({x}) = 1
  BY FS_Singleton
<1> HIDE DEF n
<1>4. IsFiniteSet({x} \X (1..n)) /\ Cardinality({x} \X (1..n)) = 1 * n
  BY <1>1, <1>3, FS_Product
<1>5. n \in Nat
  BY DEF n
<1>6. Cardinality({x} \X (1..n)) = n
  BY <1>4, <1>5
<1>7. QED
  BY <1>2, <1>4, <1>6 DEF n

\* One more line brings its tokens.
LEMMA UnitsAdd ==
  ASSUME NEW F, NEW S, NEW x, x \notin S, IsFiniteSet(Units(F, S)), Entry(F, x).tokens \in Nat
  PROVE  /\ IsFiniteSet(Units(F, S \cup {x}))
         /\ Cardinality(Units(F, S \cup {x})) = Cardinality(Units(F, S)) + Entry(F, x).tokens
<1>1. Units(F, S \cup {x}) = Units(F, S) \cup Units(F, {x})
  BY DEF Units
<1>2. Units(F, S) \cap Units(F, {x}) = {}
  BY DEF Units
<1>3. IsFiniteSet(Units(F, {x})) /\ Cardinality(Units(F, {x})) = Entry(F, x).tokens
  BY UnitsOfOne
<1> DEFINE A == Units(F, S)
           B == Units(F, {x})
<1>4. IsFiniteSet(A) /\ IsFiniteSet(B) /\ A \cap B = {}
  BY <1>2, <1>3
<1> HIDE DEF A, B
<1>5. /\ IsFiniteSet(A \cup B) /\ Cardinality(A) \in Nat /\ Cardinality(B) \in Nat
      /\ Cardinality(A \cup B) = Cardinality(A) + Cardinality(B) - Cardinality(A \cap B)
  BY <1>4, FS_Union, FS_CardinalityType
<1>6. Cardinality(A \cup B) = Cardinality(A) + Cardinality(B)
  BY <1>4, <1>5, FS_EmptySet
<1>7. QED
  BY <1>1, <1>3, <1>5, <1>6 DEF A, B

LEMMA UnitsFinite ==
  ASSUME NEW F, NEW S, IsFiniteSet(S), \A fk \in S: Entry(F, fk).tokens \in Nat
  PROVE  IsFiniteSet(Units(F, S))
<1> DEFINE U == {Units(F, {fk}): fk \in S}
           g == [fk \in S |-> Units(F, {fk})]
<1>1. g \in Surjection(S, U)
  BY DEF Surjection
<1>2. \A u \in U: IsFiniteSet(u)
  BY UnitsOfOne
<1>3. Units(F, S) = UNION U
  BY DEF Units
<1> HIDE DEF g, U
<1>4. IsFiniteSet(U)
  BY <1>1, FS_Surjection
<1>5. QED
  BY <1>2, <1>3, <1>4, FS_UNION

\* The sum that the fold computes is a number of units. The fold is a recursive
\* function on the subsets of S: the cardinality satisfies its equation, and of
\* the subsets on which they differ a smallest one would contradict it.
LEMMA TokensOfCount ==
  ASSUME NEW S, IsFiniteSet(S), \A fk \in S: LineAt(fk).tokens \in Nat
  PROVE  TokensOf(S) = Cardinality(Units(file, S))
<1> DEFINE tokens(x) == LineAt(x).tokens
           ch(s) == CHOOSE x \in s: TRUE
           def(g) == [s \in SUBSET S |-> IF s = {} THEN 0 ELSE tokens(ch(s)) + g[s \ {ch(s)}]]
           iter == CHOOSE g: g = def(g)
           card == [s \in SUBSET S |-> Cardinality(Units(file, s))]
<1>1. TokensOf(S) = iter[S]
  BY DEF TokensOf, MapThenSumSet, MapThenFoldSet
<1>2. \A s \in SUBSET S: s # {} => ch(s) \in s
  OBVIOUS
<1>3. \A x \in S: Entry(file, x).tokens \in Nat /\ tokens(x) = Entry(file, x).tokens
  BY DEF Entry, LineAt
<1> HIDE DEF ch, tokens
<1>4. card = def(card)
  <2> SUFFICES ASSUME NEW s \in SUBSET S
               PROVE  card[s] = IF s = {} THEN 0 ELSE tokens(ch(s)) + card[s \ {ch(s)}]
    OBVIOUS
  <2>1. CASE s = {}
    <3>1. Units(file, {}) = {}
      BY DEF Units
    <3>2. QED
      BY <2>1, <3>1, FS_EmptySet
  <2>2. CASE s # {}
    <3> DEFINE x == ch(s)
               t == s \ {x}
    <3>1. x \in S /\ x \notin t /\ s = t \cup {x} /\ t \in SUBSET S
      BY <1>2, <2>2
    <3> HIDE DEF x, t
    <3>2. IsFiniteSet(Units(file, t))
      <4>1. IsFiniteSet(t) /\ \A y \in t: Entry(file, y).tokens \in Nat
        BY <1>3, <3>1, FS_Subset
      <4>2. QED
        BY <4>1, UnitsFinite
    <3>3. Cardinality(Units(file, t)) \in Nat /\ Entry(file, x).tokens \in Nat
      BY <1>3, <3>1, <3>2, FS_CardinalityType
    <3>4. Cardinality(Units(file, t \cup {x})) = Cardinality(Units(file, t)) + tokens(x)
      BY <1>3, <3>1, <3>2, <3>3, UnitsAdd
    <3>5. card[t] \in Nat /\ tokens(x) \in Nat /\ card[s] = card[t] + tokens(x)
      BY <1>3, <3>1, <3>3, <3>4
    <3> HIDE DEF card
    <3>6. card[s] = tokens(x) + card[t]
      BY <3>5
    <3>7. QED
      BY <2>2, <3>6 DEF t, x
  <2>3. QED
    BY <2>1, <2>2
<1>5. iter = def(iter)
  BY <1>4
<1>6. \A s \in SUBSET S: iter[s] = card[s]
  <2> DEFINE T == {s \in SUBSET S: iter[s] # card[s]}
  <2> SUFFICES ASSUME T # {} PROVE FALSE
    OBVIOUS
  <2>1. IsWellFoundedOn(StrictSubsetOrdering(S), SUBSET S)
    BY FS_StrictSubsetOrderingWellFounded, FS_FiniteSubsetsOfFinite
  <2>2. PICK s \in T: \A r \in T: <<r, s>> \notin StrictSubsetOrdering(S)
    <3>1. T \subseteq SUBSET S
      OBVIOUS
    <3> HIDE DEF T
    <3>2. QED
      BY <2>1, <3>1, WFMin
  <2>3. \A r \in SUBSET S: r \subseteq s /\ r # s => iter[r] = card[r]
    BY <2>2 DEF StrictSubsetOrdering
  <2> HIDE DEF iter, card
  <2>4. /\ iter[s] = IF s = {} THEN 0 ELSE tokens(ch(s)) + iter[s \ {ch(s)}]
        /\ card[s] = IF s = {} THEN 0 ELSE tokens(ch(s)) + card[s \ {ch(s)}]
    BY <1>4, <1>5
  <2>5. s # {} => iter[s \ {ch(s)}] = card[s \ {ch(s)}]
    BY <1>2, <2>3
  <2>6. QED
    BY <2>2, <2>4, <2>5
<1>7. QED
  BY <1>1, <1>6

\* Adding a line to what has been added.
LEMMA TallyAdd ==
  ASSUME NEW F, NEW u \in Aggregate, NEW S, NEW x, x \notin S,
         Tally(F, u, S), Entry(F, x).tokens \in Nat
  PROVE  Tally(F, Plus(u, Entry(F, x)), S \cup {x})
<1> DEFINE l == Entry(F, x)
           v == Plus(u, l)
<1>1. /\ v.records = u.records + 1 /\ v.tokens = u.tokens + l.tokens
      /\ v.sessions = u.sessions \cup {l.session}
      /\ \A m \in Models: v.models[m] = u.models[m] + IF l.model = m THEN 1 ELSE 0
  BY DEF Plus
<1>2. u.records \in Nat /\ \A m \in Models: u.models[m] \in Nat
  BY DEF Aggregate
<1>3. IsFiniteSet(S \cup {x}) /\ Cardinality(S \cup {x}) = Cardinality(S) + 1
  BY FS_AddElement DEF Tally
<1>4. Cardinality(Units(F, S \cup {x})) = Cardinality(Units(F, S)) + l.tokens
  <2>1. IsFiniteSet(S) /\ \A fk \in S: Entry(F, fk).tokens \in Nat
    BY DEF Tally
  <2>2. IsFiniteSet(Units(F, S))
    BY ONLY <2>1, UnitsFinite
  <2>3. x \notin S /\ Entry(F, x).tokens \in Nat
    OBVIOUS
  <2>4. Cardinality(Units(F, S \cup {x})) = Cardinality(Units(F, S)) + Entry(F, x).tokens
    BY ONLY <2>2, <2>3, UnitsAdd
  <2>5. QED
    BY <2>4
<1>5. ASSUME NEW m \in Models PROVE v.models[m] = Cardinality(Using(F, S \cup {x}, m))
  <2>1. Using(F, S, m) \in SUBSET S /\ x \notin Using(F, S, m)
    BY DEF Using
  <2>2. IsFiniteSet(Using(F, S, m))
    BY <2>1, FS_Subset DEF Tally
  <2>3. u.models[m] = Cardinality(Using(F, S, m)) /\ u.models[m] \in Nat
    BY <1>2 DEF Tally
  <2>4. CASE l.model = m
    <3>1. Using(F, S \cup {x}, m) = Using(F, S, m) \cup {x}
      BY <2>4 DEF Using
    <3>2. Cardinality(Using(F, S, m) \cup {x}) = Cardinality(Using(F, S, m)) + 1
      BY <2>1, <2>2, FS_AddElement
    <3>3. QED
      BY <1>1, <2>3, <2>4, <3>1, <3>2
  <2>5. CASE l.model # m
    <3>1. Using(F, S \cup {x}, m) = Using(F, S, m)
      BY <2>5 DEF Using
    <3>2. QED
      BY <1>1, <2>3, <2>5, <3>1
  <2>6. QED
    BY <2>4, <2>5
<1>6. \A fk \in S \cup {x}: Entry(F, fk).tokens \in Nat
  BY DEF Tally
<1>8. v.sessions = {Entry(F, fk).session: fk \in S \cup {x}}
  BY <1>1 DEF Tally
<1> HIDE DEF l, v
<1>7. v.records = Cardinality(S \cup {x}) /\ v.tokens = Cardinality(Units(F, S \cup {x}))
  BY <1>1, <1>3, <1>4 DEF Tally
<1>9. QED
  BY <1>3, <1>5, <1>6, <1>7, <1>8 DEF Tally, v, l

\* It depends on nothing but the lines that have been added.
LEMMA TallySame ==
  ASSUME NEW F, NEW G, NEW u, NEW S, Tally(F, u, S), \A fk \in S: Entry(F, fk) = Entry(G, fk)
  PROVE  Tally(G, u, S)
<1>1. /\ Units(F, S) = Units(G, S) /\ \A m \in Models: Using(F, S, m) = Using(G, S, m)
      /\ {Entry(F, fk).session: fk \in S} = {Entry(G, fk).session: fk \in S}
  BY DEF Units, Using
<1>2. QED
  BY <1>1 DEF Tally

(***************************************************************************)
(* How what has been added grows                                           *)
(***************************************************************************)

LEMMA LinesTyped ==
  ASSUME Reading
  PROVE  /\ \A f \in 1..Paths: file[f] \in Seq(Lines) /\ Len(file[f]) \in Nat
         /\ \A f \in 1..Paths: \A k \in 1..Len(file[f]): file[f][k] \in Lines
         /\ \A l \in Lines: l.tokens \in Nat /\ l.id \in Ids \cup {Missing}
         /\ current <= Paths => current \in 1..Paths
         /\ Missing \notin Ids
  BY PathsAssumption, LinesAssumption, NamesAssumption DEF Reading, Line

\* Lines that have been read do not change when others are appended.
LEMMA ReadStays ==
  ASSUME Reading, AppendLine
  PROVE  \A f \in 1..Paths: \A k \in 1..Len(file[f]): file'[f][k] = file[f][k]
<1>1. PICK f \in 1..Paths, l \in Lines: file' = [file EXCEPT ![f] = Append(file[f], l)]
  BY DEF AppendLine
<1>2. QED
  BY <1>1, LinesTyped DEF Reading

LEMMA TakenSame ==
  ASSUME NEW s, NEW t, NEW n \in Nat, NEW ids, \A k \in 1..n: s[k] = t[k]
  PROVE  Taken(s, n, ids) = Taken(t, n, ids)
  BY DEF Taken, Latest

LEMMA LastSame ==
  ASSUME NEW s, NEW t, NEW n \in Nat, NEW r, \A k \in 1..n: s[k] = t[k], LastRecords(s, n, r)
  PROVE  LastRecords(t, n, r)
  BY DEF LastRecords, Of

\* A line more is read: as a record without an id it is taken at once, ...
LEMMA TakenNext ==
  ASSUME NEW s, NEW n \in Nat
  PROVE  Taken(s, n + 1, {}) =
           Taken(s, n, {}) \cup {k \in {n + 1}: Today(s[k]) /\ s[k].id = Missing}
  BY DEF Taken

\* ... and with one it is the last of its message.
LEMMA LastNext ==
  ASSUME NEW s, NEW n \in Nat, NEW r \in [Ids -> Lines \cup {None}], LastRecords(s, n, r),
         s[n + 1].id \in Ids \cup {Missing}
  PROVE  LET l == s[n + 1]
         IN  LastRecords(s, n + 1, IF Counts(l) /\ l.id # Missing THEN [r EXCEPT ![l.id] = l] ELSE r)
<1> DEFINE l == s[n + 1]
           q == IF Counts(l) /\ l.id # Missing THEN [r EXCEPT ![l.id] = l] ELSE r
<1>1. Counts(l) <=> Today(l)
  BY DEF Counts, Today
<1>2. Today(l) => l # None
  BY DEF Today, None
<1> SUFFICES ASSUME NEW i \in Ids
             PROVE  IF q[i] = None THEN \A k \in 1..n + 1: ~Of(s, k, i)
                    ELSE \E k \in 1..n + 1: /\ Of(s, k, i) /\ s[k] = q[i]
                                            /\ \A j \in k + 1..n + 1: ~Of(s, j, i)
  BY DEF LastRecords
<1>3. i # Missing
  BY NamesAssumption
<1>4. CASE Today(l) /\ l.id = i
  BY <1>1, <1>2, <1>3, <1>4 DEF Of
<1>5. CASE ~(Today(l) /\ l.id = i)
  <2>1. q[i] = r[i] /\ ~Of(s, n + 1, i)
    BY <1>1, <1>5 DEF Of
  <2>2. IF r[i] = None THEN \A k \in 1..n: ~Of(s, k, i)
        ELSE \E k \in 1..n: Of(s, k, i) /\ s[k] = r[i] /\ \A j \in k + 1..n: ~Of(s, j, i)
    BY DEF LastRecords
  <2> HIDE DEF q
  <2>3. CASE r[i] = None
    BY <2>1, <2>2, <2>3
  <2>4. CASE r[i] # None
    <3>1. PICK k \in 1..n: Of(s, k, i) /\ s[k] = r[i] /\ \A j \in k + 1..n: ~Of(s, j, i)
      BY <2>2, <2>4
    <3>2. k \in 1..n + 1 /\ \A j \in k + 1..n + 1: ~Of(s, j, i)
      BY <2>1, <3>1
    <3>3. QED
      BY <2>1, <2>4, <3>1, <3>2
  <2>5. QED
    BY <2>3, <2>4
<1>6. QED
  BY <1>4, <1>5

\* A message none of whose records was read adds none, ...
LEMMA TakenNone ==
  ASSUME NEW s, NEW n \in Nat, NEW r, LastRecords(s, n, r),
         NEW ids \in SUBSET Ids, \A i \in ids: r[i] = None
  PROVE  Taken(s, n, ids) = Taken(s, n, {})
  BY DEF Taken, LastRecords, Of

\* ... and another exactly its last one.
LEMMA TakenOne ==
  ASSUME NEW s, NEW n \in Nat, NEW r, LastRecords(s, n, r),
         NEW ids \in SUBSET Ids, NEW i \in Ids, i \notin ids, r[i] # None
  PROVE  \E k \in 1..n: /\ s[k] = r[i] /\ k \notin Taken(s, n, ids)
                        /\ Taken(s, n, ids \cup {i}) = Taken(s, n, ids) \cup {k}
<1>1. PICK k \in 1..n: Of(s, k, i) /\ s[k] = r[i] /\ \A j \in k + 1..n: ~Of(s, j, i)
  BY DEF LastRecords
<1>2. i # Missing
  BY NamesAssumption
<1>3. k \notin Taken(s, n, ids)
  BY <1>1, <1>2 DEF Taken, Of
<1>4. Latest(s, n, k) /\ Today(s[k]) /\ s[k].id = i
  BY <1>1 DEF Latest, Of
<1>5. ASSUME NEW j \in 1..n, Latest(s, n, j), Today(s[j]), s[j].id = i PROVE j = k
  <2>1. ~ j < k
    BY <1>4, <1>5 DEF Latest
  <2>2. ~ k < j
    BY <1>4, <1>5 DEF Latest
  <2>3. QED
    BY <2>1, <2>2
<1>6. Taken(s, n, ids \cup {i}) = Taken(s, n, ids) \cup {k}
  BY <1>4, <1>5 DEF Taken
<1>7. QED
  BY <1>1, <1>3, <1>6

LEMMA AddedSame ==
  ASSUME \A f \in 1..Paths: Upto(f)' = Upto(f)
  PROVE  Added' = Added
  BY DEF Added, LinesOf

LEMMA AddedOne ==
  ASSUME NEW c \in 1..Paths, NEW k, k \notin Upto(c), Upto(c)' = Upto(c) \cup {k},
         \A f \in (1..Paths) \ {c}: Upto(f)' = Upto(f)
  PROVE  <<c, k>> \notin Added /\ Added' = Added \cup {<<c, k>>}
  BY DEF Added, LinesOf

\* What has been added are lines that there are.
LEMMA AddedRead ==
  ASSUME Reading, NEW fk \in Added
  PROVE  /\ fk \in (1..Paths) \X Nat
         /\ fk[2] \in 1..Len(file[fk[1]])
<1>1. PICK f \in 1..Paths: \E k \in Upto(f): fk = <<f, k>>
  BY DEF Added, LinesOf
<1>2. PICK k \in Upto(f): fk = <<f, k>>
  BY <1>1
<1>3. /\ whole[f] \in Nat /\ pos \in Nat /\ Len(file[f]) \in Nat /\ whole[f] <= Len(file[f])
      /\ f = current => pos <= Len(file[f])
      /\ f \in Nat /\ f <= Paths
  BY LinesTyped, PathsAssumption DEF Reading
<1>4. k \in 1..whole[f] \/ (f = current /\ k \in 1..pos)
  BY <1>2 DEF Upto, Taken
<1>5. QED
  BY <1>2, <1>3, <1>4

LEMMA TalliedInit == Init => Tallied
<1> SUFFICES ASSUME Init PROVE Tallied
  OBVIOUS
<1>1. Progress
  BY PathsAssumption DEF Init, Progress
<1>2. \A f \in 1..Paths: Upto(f) = {}
  BY PathsAssumption DEF Init, Upto, Taken
<1>3. Added = {} /\ Units(file, {}) = {} /\ \A m \in Models: Using(file, {}, m) = {}
  BY <1>2 DEF Added, LinesOf, Units, Using
<1>4. usage = NoUsage
  BY DEF Init
<1>5. Tally(file, usage, Added)
  BY <1>3, <1>4, FS_EmptySet DEF Tally, NoUsage
<1>6. QED
  BY <1>1, <1>5 DEF Tallied

LEMMA ProgressStep == Reading /\ Result /\ Progress /\ [Next]_vars => Progress'
<1> SUFFICES ASSUME Reading, Result, Progress, [Next]_vars PROVE Progress'
  OBVIOUS
<1>1. /\ current \in Nat /\ current <= Paths + 1 /\ pos \in Nat /\ whole \in [1..Paths -> Nat]
      /\ \A f \in failed: f \in Nat /\ f < current
      /\ seen \in [Ids -> Lines \cup {None}]
      /\ Paths \in Nat
  BY PathsAssumption DEF Reading, Result, Progress
<1>2. CASE AppendLine
  <2>1. UNCHANGED <<pc, current, pos, seen, whole, failed>>
    BY <1>2 DEF AppendLine, scanVars
  <2>2. ASSUME pc \in {"scan", "add"} PROVE LastRecords(file'[current], pos, seen)
    <3>1. current \in 1..Paths /\ pos <= Len(file[current]) /\ Len(file[current]) \in Nat
      BY <2>2, LinesTyped DEF Reading
    <3>2. \A k \in 1..pos: file[current][k] = file'[current][k]
      BY <1>1, <1>2, <3>1, ReadStays
    <3>3. QED
      BY <1>1, <2>2, <3>2, LastSame DEF Progress
  <2>3. QED
    BY <2>1, <2>2 DEF Progress
<1>3. CASE Open
  <2>1. /\ pc = "open" /\ pc' = "scan" /\ current <= Paths
        /\ UNCHANGED <<file, current, pos, seen, whole, failed>>
    BY <1>3 DEF Open, scanVars
  <2>2. LastRecords(file[current], pos, seen)
    BY <2>1 DEF LastRecords, Progress
  <2>3. QED
    BY <2>1, <2>2 DEF Progress
<1>4. CASE ScanLine
  <2>1. /\ pc = "scan" /\ pc' = "scan" /\ pos' = pos + 1
        /\ UNCHANGED <<file, current, whole, failed>>
    BY <1>4 DEF ScanLine
  <2>2. current \in 1..Paths /\ pos + 1 \in 1..Len(file[current])
    BY <1>1, <1>4, LinesTyped DEF ScanLine, AtEnd, Reading
  <2> DEFINE l == file[current][pos + 1]
  <2>3. seen' = IF Counts(l) /\ l.id # Missing THEN [seen EXCEPT ![l.id] = l] ELSE seen
    BY <1>4 DEF ScanLine, Keep
  <2>4. l.id \in Ids \cup {Missing}
    BY <2>2, LinesTyped
  <2>5. LastRecords(file[current], pos + 1, seen')
    BY <1>1, <2>1, <2>3, <2>4, LastNext DEF Progress
  <2>6. QED
    BY <2>1, <2>5 DEF Progress
<1>5. ASSUME Advance, current <= Paths, UNCHANGED file,
             \A f \in failed': f < current + 1,
             \A f \in 1..Paths: f > current => whole'[f] = whole[f]
      PROVE  Progress'
  <2>1. /\ current' = current + 1 /\ pos' = 0 /\ pc' = "open"
        /\ \A i \in Ids: seen'[i] = None
    BY <1>5 DEF Advance
  <2>2. ASSUME NEW f \in 1..Paths, f > current' \/ f = current' PROVE whole'[f] = 0
    <3>1. f > current
      BY <1>1, <2>1, <2>2
    <3>2. QED
      BY <1>5, <3>1 DEF Progress
  <2>3. QED
    BY <1>5, <2>1, <2>2 DEF Progress
<1>6. CASE OpenFails
  BY <1>1, <1>5, <1>6 DEF OpenFails
<1>7. CASE ScanFails
  <2>1. current <= Paths /\ failed' = failed \cup {current} /\ file' = file
        /\ whole' = [whole EXCEPT ![current] = pos] /\ Advance
    BY <1>7 DEF ScanFails, Reading
  <2>2. QED
    BY <1>1, <1>5, <2>1
<1>8. CASE ScanEnds
  <2>1. /\ pc = "scan" /\ pc' = "add" /\ whole' = [whole EXCEPT ![current] = pos]
        /\ UNCHANGED <<file, current, pos, seen, failed>>
    BY <1>8 DEF ScanEnds
  <2>2. current \in 1..Paths
    BY <2>1, LinesTyped DEF Reading
  <2>3. QED
    BY <1>1, <2>1, <2>2 DEF Progress
<1>9. CASE AddSeen
  BY <1>9 DEF AddSeen, Progress
<1>10. CASE FileDone
  <2>1. current <= Paths /\ UNCHANGED <<file, whole, failed>> /\ Advance
    BY <1>10 DEF FileDone, Reading
  <2>2. QED
    BY <1>1, <1>5, <2>1
<1>11. CASE Report
  <2>1. pc' \in {"models", "done"} /\ pc = "open" /\ current > Paths
        /\ UNCHANGED <<file, current, pos, seen, whole, failed>>
    BY <1>11 DEF Report, scanVars
  <2>2. QED
    BY <1>1, <2>1 DEF Progress
<1>12. CASE VisitModel \/ ModelsDone \/ UNCHANGED vars
  BY <1>12 DEF VisitModel, ModelsDone, vars, scanVars, Progress
<1>13. QED
  BY <1>2, <1>3, <1>4, <1>6, <1>7, <1>8, <1>9, <1>10, <1>11, <1>12 DEF Next, Parse

LEMMA TallyStep ==
  Reading /\ Result /\ Progress /\ Tally(file, usage, Added) /\ [Next]_vars
    => Tally(file', usage', Added')
<1> SUFFICES ASSUME Reading, Result, Progress, Tally(file, usage, Added), [Next]_vars
             PROVE  Tally(file', usage', Added')
  OBVIOUS
<1>1. /\ current \in Nat /\ current <= Paths + 1 /\ pos \in Nat /\ whole \in [1..Paths -> Nat]
      /\ \A f \in failed: f \in Nat /\ f < current
      /\ seen \in [Ids -> Lines \cup {None}]
      /\ pending \subseteq Ids
      /\ Paths \in Nat /\ \A f \in 1..Paths: f \in Nat
      /\ usage \in Aggregate
  BY PathsAssumption DEF Reading, Result, Progress
<1>2. ASSUME UNCHANGED <<file, usage>>, \A f \in 1..Paths: Upto(f)' = Upto(f)
      PROVE  Tally(file', usage', Added')
  <2>1. Added' = Added
    BY <1>2, AddedSame
  <2>2. QED
    BY <1>2, <2>1
<1>3. CASE AppendLine
  <2>1. UNCHANGED <<pc, current, pos, pending, usage, whole, failed>>
    BY <1>3 DEF AppendLine, scanVars
  <2>2. ASSUME NEW f \in 1..Paths, NEW n \in Nat, n <= Len(file[f]), NEW ids
        PROVE  Taken(file'[f], n, ids) = Taken(file[f], n, ids)
    <3>1. \A k \in 1..n: file[f][k] = file'[f][k]
      BY <1>3, <2>2, ReadStays, LinesTyped
    <3>2. QED
      BY <3>1, TakenSame
  <2>3. ASSUME NEW f \in 1..Paths PROVE Upto(f)' = Upto(f)
    <3>1. whole[f] \in Nat /\ whole[f] <= Len(file[f]) /\ (f = current => pos <= Len(file[f]))
      BY <1>1 DEF Reading
    <3>2. Taken(file'[f], whole[f], IF f \in failed THEN {} ELSE Ids)
            = Taken(file[f], whole[f], IF f \in failed THEN {} ELSE Ids)
      BY <2>2, <3>1
    <3>3. f = current => Taken(file'[f], pos, IF pc = "add" THEN Ids \ pending ELSE {})
                           = Taken(file[f], pos, IF pc = "add" THEN Ids \ pending ELSE {})
      BY <1>1, <2>2, <3>1
    <3>4. QED
      BY <2>1, <3>2, <3>3 DEF Upto
  <2>4. Added' = Added
    BY <2>3, AddedSame
  <2>5. \A fk \in Added: Entry(file, fk) = Entry(file', fk)
    BY <1>3, AddedRead, ReadStays DEF Entry
  <2>6. QED
    BY <2>1, <2>4, <2>5, TallySame
<1>4. CASE Open
  <2>1. /\ pc = "open" /\ pc' = "scan"
        /\ UNCHANGED <<file, current, pos, pending, usage, whole, failed>>
    BY <1>4 DEF Open, scanVars
  <2>2. QED
    BY <1>2, <2>1 DEF Upto
<1>5. CASE ScanLine
  <2>1. /\ pc = "scan" /\ pos' = pos + 1
        /\ UNCHANGED <<file, pc, current, pending, whole, failed>>
    BY <1>5 DEF ScanLine
  <2>2. current \in 1..Paths /\ pos + 1 \in 1..Len(file[current])
    BY <1>1, <1>5, LinesTyped DEF ScanLine, AtEnd, Reading
  <2> DEFINE s == file[current]
             l == s[pos + 1]
             x == <<current, pos + 1>>
  <2>3. usage' = IF Today(l) /\ l.id = Missing THEN Plus(usage, l) ELSE usage
    BY <1>5 DEF ScanLine, Counts, Today
  <2>4. Upto(current) = Taken(s, pos, {}) /\ Upto(current)' = Taken(s, pos + 1, {})
    BY <1>1, <2>1 DEF Upto
  <2>5. \A f \in (1..Paths) \ {current}: Upto(f)' = Upto(f)
    BY <2>1 DEF Upto
  <2>6. Taken(s, pos + 1, {}) =
          Taken(s, pos, {}) \cup {k \in {pos + 1}: Today(s[k]) /\ s[k].id = Missing}
    BY <1>1, TakenNext
  <2>7. CASE Today(l) /\ l.id = Missing
    <3>1. Upto(current)' = Upto(current) \cup {pos + 1}
      BY <2>4, <2>6, <2>7
    <3>2. pos + 1 \notin Upto(current)
      BY <1>1, <2>4 DEF Taken
    <3>3. x \notin Added /\ Added' = Added \cup {x}
      <4>1. PICK c \in 1..Paths: c = current
        BY <2>2
      <4>2. pos + 1 \notin Upto(c) /\ Upto(c)' = Upto(c) \cup {pos + 1}
        BY <2>1, <3>1, <3>2, <4>1
      <4>3. \A f \in (1..Paths) \ {c}: Upto(f)' = Upto(f)
        BY <2>5, <4>1
      <4>4. QED
        BY <4>1, <4>2, <4>3, AddedOne
    <3>4. Entry(file, x) = l /\ l.tokens \in Nat
      BY <2>2, LinesTyped DEF Entry
    <3>5. Tally(file, Plus(usage, Entry(file, x)), Added \cup {x})
      BY <1>1, <3>3, <3>4, TallyAdd
    <3>6. QED
      BY <2>1, <2>3, <2>7, <3>3, <3>4, <3>5
  <2>8. CASE ~(Today(l) /\ l.id = Missing)
    <3>1. Upto(current)' = Upto(current)
      BY <2>4, <2>6, <2>8
    <3>2. QED
      BY <1>2, <2>1, <2>3, <2>5, <2>8, <3>1
  <2>9. QED
    BY <2>7, <2>8
<1>6. ASSUME Advance, current \in 1..Paths, UNCHANGED <<file, usage>>,
             Upto(current) = Taken(file[current], whole'[current],
                                   IF current \in failed' THEN {} ELSE Ids),
             \A f \in 1..Paths: f # current =>
               whole'[f] = whole[f] /\ (f \in failed' <=> f \in failed)
      PROVE  Tally(file', usage', Added')
  <2>1. current' = current + 1 /\ pos' = 0 /\ pc' = "open"
    BY <1>6 DEF Advance
  <2>2. ASSUME NEW f \in 1..Paths PROVE Upto(f)' = Upto(f)
    <3>1. CASE f < current
      <4>1. f < current' /\ whole'[f] = whole[f] /\ (f \in failed' <=> f \in failed)
        BY <1>1, <1>6, <2>1, <3>1
      <4>2. QED
        BY <1>6, <3>1, <4>1 DEF Upto
    <3>2. CASE f = current
      <4>1. f < current'
        BY <1>1, <2>1, <3>2
      <4>2. QED
        BY <1>6, <3>2, <4>1 DEF Upto
    <3>3. CASE f > current
      <4>1. ~(f < current) /\ f # current /\ ~(f < current')
        BY <1>1, <2>1, <3>3
      <4>2. Upto(f) = {} /\ Upto(f)' \subseteq Taken(file'[f], 0, {})
        BY <2>1, <4>1 DEF Upto
      <4>3. Taken(file'[f], 0, {}) = {}
        BY DEF Taken
      <4>4. QED
        BY <4>2, <4>3
    <3>4. QED
      BY <1>1, <3>1, <3>2, <3>3
  <2>3. QED
    BY <1>2, <1>6, <2>2
<1>7. CASE OpenFails
  <2>1. pc = "open" /\ current \in 1..Paths /\ failed' = failed \cup {current}
        /\ UNCHANGED <<file, usage, whole>> /\ Advance
    BY <1>7, LinesTyped DEF OpenFails
  <2>2. pos = 0 /\ whole[current] = 0
    BY <2>1 DEF Progress
  <2>3. Upto(current) = Taken(file[current], 0, {})
    BY <1>1, <2>1, <2>2 DEF Upto
  <2>4. QED
    BY <1>6, <2>1, <2>2, <2>3
<1>8. CASE ScanFails
  <2>1. pc = "scan" /\ current \in 1..Paths /\ failed' = failed \cup {current}
        /\ whole' = [whole EXCEPT ![current] = pos]
        /\ UNCHANGED <<file, usage>> /\ Advance
    BY <1>8, LinesTyped DEF ScanFails, Dropped, Reading
  <2>2. Upto(current) = Taken(file[current], pos, {})
    BY <1>1, <2>1 DEF Upto
  <2>3. QED
    BY <1>1, <1>6, <2>1, <2>2
<1>9. CASE ScanEnds
  <2>1. /\ pc = "scan" /\ pc' = "add" /\ pending' = {i \in Ids: seen[i] # None}
        /\ whole' = [whole EXCEPT ![current] = pos]
        /\ UNCHANGED <<file, current, pos, usage, failed>>
    BY <1>9 DEF ScanEnds
  <2>2. current \in 1..Paths /\ LastRecords(file[current], pos, seen)
    BY <2>1, LinesTyped DEF Reading, Progress
  <2>3. Taken(file[current], pos, Ids \ pending') = Taken(file[current], pos, {})
    BY <1>1, <2>1, <2>2, TakenNone
  <2>4. Upto(current)' = Upto(current)
    BY <1>1, <2>1, <2>3 DEF Upto
  <2>5. \A f \in 1..Paths: f # current => Upto(f)' = Upto(f)
    BY <1>1, <2>1, <2>2 DEF Upto
  <2>6. QED
    BY <1>2, <2>1, <2>4, <2>5
<1>10. CASE AddSeen
  <2>1. PICK i \in pending: usage' = Plus(usage, seen[i]) /\ pending' = pending \ {i}
    BY <1>10 DEF AddSeen
  <2>2. pc = "add" /\ UNCHANGED <<file, pc, current, pos, whole, failed>>
    BY <1>10 DEF AddSeen
  <2>3. /\ current \in 1..Paths /\ LastRecords(file[current], pos, seen)
        /\ pos <= Len(file[current])
    BY <2>2, LinesTyped DEF Reading, Progress
  <2>4. i \in Ids /\ seen[i] # None
    BY DEF Result
  <2>5. PICK k \in 1..pos:
          /\ file[current][k] = seen[i] /\ k \notin Taken(file[current], pos, Ids \ pending)
          /\ Taken(file[current], pos, (Ids \ pending) \cup {i})
               = Taken(file[current], pos, Ids \ pending) \cup {k}
    <3> DEFINE ids == Ids \ pending
               s == file[current]
    <3>1. pos \in Nat /\ LastRecords(s, pos, seen) /\ ids \in SUBSET Ids /\ i \notin ids
      BY <1>1, <2>3
    <3> HIDE DEF ids, s
    <3>2. \E k \in 1..pos: /\ s[k] = seen[i] /\ k \notin Taken(s, pos, ids)
                           /\ Taken(s, pos, ids \cup {i}) = Taken(s, pos, ids) \cup {k}
      BY <2>4, <3>1, TakenOne
    <3>3. QED
      BY <3>2 DEF ids, s
  <2>6. (Ids \ pending) \cup {i} = Ids \ pending'
    BY <2>1, <2>4
  <2>7. Upto(current) = Taken(file[current], pos, Ids \ pending)
        /\ Upto(current)' = Taken(file[current], pos, Ids \ pending')
    BY <1>1, <2>2 DEF Upto
  <2>8. \A f \in (1..Paths) \ {current}: Upto(f)' = Upto(f)
    BY <2>2 DEF Upto
  <2> DEFINE x == <<current, k>>
  <2>9. x \notin Added /\ Added' = Added \cup {x}
    <3>1. PICK c \in 1..Paths: c = current
      BY <2>3
    <3>2. k \notin Upto(c) /\ Upto(c)' = Upto(c) \cup {k}
      BY <2>2, <2>5, <2>6, <2>7, <3>1
    <3>3. \A f \in (1..Paths) \ {c}: Upto(f)' = Upto(f)
      BY <2>8, <3>1
    <3>4. QED
      BY <3>1, <3>2, <3>3, AddedOne
  <2>10. Entry(file, x) = seen[i] /\ Entry(file, x).tokens \in Nat
    <3>1. k \in 1..Len(file[current])
      BY <1>1, <2>3, <2>5, LinesTyped
    <3>2. QED
      BY <2>3, <2>5, <3>1, LinesTyped DEF Entry
  <2>11. Tally(file, Plus(usage, Entry(file, x)), Added \cup {x})
    BY <1>1, <2>9, <2>10, TallyAdd
  <2>12. QED
    BY <2>1, <2>2, <2>9, <2>10, <2>11
<1>11. CASE FileDone
  <2>1. pc = "add" /\ pending = {} /\ current \in 1..Paths
        /\ UNCHANGED <<file, usage, whole, failed>> /\ Advance
    BY <1>11, LinesTyped DEF FileDone, Reading
  <2>2. whole[current] = pos /\ current \notin failed
    BY <1>1, <2>1 DEF Progress
  <2>3. Upto(current) = Taken(file[current], pos, Ids)
    BY <1>1, <2>1 DEF Upto
  <2>4. QED
    BY <1>6, <2>1, <2>2, <2>3
<1>12. CASE Report
  <2>1. pc = "open" /\ current > Paths /\ UNCHANGED <<file, current, pos, usage, pending, whole, failed>>
    BY <1>12 DEF Report, scanVars
  <2>2. \A f \in 1..Paths: f < current
    BY <1>1, <2>1
  <2>3. QED
    BY <1>2, <2>1, <2>2 DEF Upto
<1>13. CASE VisitModel \/ ModelsDone \/ UNCHANGED vars
  <2>1. UNCHANGED <<file, current, pos, usage, pending, whole, failed>>
        /\ (pc' = "add" <=> pc = "add")
    BY <1>13 DEF VisitModel, ModelsDone, vars, scanVars
  <2>2. QED
    BY <1>2, <2>1 DEF Upto
<1>14. QED
  BY <1>3, <1>4, <1>5, <1>7, <1>8, <1>9, <1>10, <1>11, <1>12, <1>13 DEF Next, Parse

LEMMA TalliedStep == Reading /\ Result /\ Tallied /\ [Next]_vars => Tallied'
  BY ProgressStep, TallyStep DEF Tallied

\* When all is read, what has been added is what counts.
LEMMA AllAdded ==
  ASSUME Reading, Progress, Aggregated
  PROVE  Added = Counted
<1>1. ASSUME NEW f \in 1..Paths PROVE Upto(f) = Relevant(f)
  <2>1. f < current
    BY <1>1, PathsAssumption DEF Reading, Progress, Aggregated
  <2>2. whole[f] \in Nat /\ whole[f] <= Len(file[f]) /\ Len(file[f]) \in Nat
    BY LinesTyped DEF Reading
  <2>3. \A k \in 1..whole[f]: file[f][k].id \in Ids \cup {Missing}
    BY <2>2, LinesTyped
  <2>4. QED
    BY <2>1, <2>3 DEF Upto, Taken, Latest, Relevant
<1>2. QED
  BY <1>1 DEF Added, LinesOf, Counted

\* What the aggregate has of each model once all is read.
LEMMA CountedTally ==
  ASSUME Reading, Tallied, Aggregated
  PROVE  /\ usage.tokens = TokensOf(Counted) /\ usage.records = Cardinality(Counted)
         /\ usage.sessions = {LineAt(fk).session: fk \in Counted}
         /\ \A m \in Models: usage.models[m] = Cardinality({fk \in Counted: LineAt(fk).model = m})
<1>1. Tally(file, usage, Counted)
  BY AllAdded DEF Tallied
<1>2. IsFiniteSet(Counted) /\ \A fk \in Counted: LineAt(fk).tokens \in Nat
  BY <1>1 DEF Tally, Entry, LineAt
<1>3. TokensOf(Counted) = Cardinality(Units(file, Counted))
  BY <1>2, TokensOfCount
<1>4. QED
  BY <1>1, <1>3 DEF Tally, Using, Entry, LineAt

\* Whatever the transcripts hold, however they are streamed, appended to while
\* they are read or broken off by a line too long: in each transcript of each
\* message the last record counts, once, what is reported is the sum of exactly
\* those, and the sessions are theirs.
THEOREM FinalTalliesHolds == Spec => []FinalTallies
<1>1. Reading /\ Tallied => FinalTallies
  BY CountedTally DEF FinalTallies
<1>2. QED
  BY ReadingInit, ResultInit, ReadingStep, ResultStep, TalliedInit, TalliedStep, <1>1, PTL
     DEF Spec

\* The model reported is a function of the lines that count: the one most of
\* them name, whatever order Go visits the map in.
THEOREM ModelStableHolds == Spec => []ModelStable
<1>1. ASSUME Reading, Result, Tallied, Visited PROVE ModelStable
  <2> DEFINE uses(m) == Cardinality({fk \in Counted: LineAt(fk).model = m})
             top == {m \in Models: uses(m) > 0 /\ \A n \in Models: uses(n) <= uses(m)}
  <2> SUFFICES ASSUME pc = "done", outcome = "metrics"
               PROVE  best = IF top = {} THEN Missing ELSE Min(top)
    BY DEF ModelStable
  <2>1. \A m \in Models: uses(m) = usage.models[m] /\ usage.models[m] \in Nat
    BY <1>1, CountedTally DEF Aggregated, Result, Aggregate
  <2>2. IF Used = {} THEN best = Missing ELSE best \in Used /\ \A n \in Used: Precedes(best, n)
    BY <1>1 DEF Visited
  <2>3. Models \subseteq Nat
    BY NamesAssumption
  <2> HIDE DEF uses
  <2>4. CASE Used = {}
    <3>1. top = {}
      BY <2>1, <2>4 DEF Used
    <3>2. QED
      BY <2>2, <2>4, <3>1
  <2>5. CASE Used # {}
    <3>1. best \in Models /\ usage.models[best] > 0 /\ \A n \in Used: Precedes(best, n)
      BY <2>2, <2>5 DEF Used
    <3>2. \A n \in Models: usage.models[n] <= usage.models[best]
      BY <2>1, <3>1 DEF Used, Precedes
    <3>3. best \in top
      BY <2>1, <3>1, <3>2
    <3>4. ASSUME NEW n \in top PROVE best <= n
      <4>1. n \in Used /\ usage.models[n] = usage.models[best]
        BY <2>1, <3>1, <3>2, <3>4 DEF Used
      <4>2. QED
        BY <2>1, <3>1, <4>1 DEF Precedes
    <3>5. Min(top) \in top /\ \A n \in top: Min(top) <= n
      BY <3>3, <3>4 DEF Min
    <3>6. best \in Nat /\ Min(top) \in Nat /\ top # {}
      BY <2>3, <3>1, <3>3, <3>5
    <3> HIDE DEF top
    <3>7. best = Min(top)
      BY <3>3, <3>4, <3>5, <3>6
    <3>8. QED
      BY <3>6, <3>7
  <2>6. QED
    BY <2>4, <2>5
<1>2. Init => Visited
  BY DEF Init, Visited
<1>3. QED
  BY ReadingInit, ResultInit, ReadingStep, ResultStep, TalliedInit, TalliedStep, VisitedStep,
     <1>1, <1>2, PTL DEF Spec
====
