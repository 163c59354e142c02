----------------------------- MODULE ReportProofs ---------------------------
(***************************************************************************)
(* Theorems about Report, for any registry of the adapters and any         *)
(* machine, whatever becomes of it between Detect and Fetch.               *)
(***************************************************************************)
EXTENDS Report, FiniteSetTheorems, SequenceTheorems, TLAPS

(***************************************************************************)
(* Positions                                                               *)
(***************************************************************************)

\* Of any natural numbers there is a least.
LEMMA LeastNat ==
  ASSUME NEW T, T \subseteq Nat, T # {}
  PROVE  \E n \in T: \A m \in T: n <= m
<1>1. PICK n \in T: \A m \in T: <<m, n>> \notin OpToRel(<, Nat)
  BY NatLessThanWellFounded, WFMin
<1>2. \A m \in T: ~ m < n
  BY <1>1 DEF OpToRel
<1>3. QED
  BY <1>2

LEMMA MinIs ==
  ASSUME NEW T, T \subseteq Nat, T # {}
  PROVE  Min(T) \in T /\ \A m \in T: Min(T) <= m
<1>1. \E n \in T: \A m \in T: n <= m
  BY LeastNat
<1>2. QED
  BY <1>1 DEF Min

(***************************************************************************)
(* What Detect finds                                                       *)
(***************************************************************************)
Reasons == {"binary_missing", "authentication_missing", "configuration_missing",
            "local_state_unavailable"}

\* What is not available has a reason and what is available has none.
Tells(d) == d.reason \in Reasons \cup {""} /\ (Available(d) <=> d.reason = "")

LEMMA DetectedTells ==
  ASSUME NEW checks \in Seq(BOOLEAN \X Reasons), NEW auth \in BOOLEAN, NEW conf \in BOOLEAN,
         auth \/ conf \/ \E k \in DOMAIN checks: ~checks[k][1]
  PROVE  Tells(Detected(checks, auth, conf))
<1> DEFINE missing == {k \in DOMAIN checks: ~checks[k][1]}
           d == Detected(checks, auth, conf)
<1>1. missing \subseteq Nat /\ \A k \in missing: checks[k][2] \in Reasons
  OBVIOUS
<1>2. CASE missing = {}
  <2>1. d.reason = "" /\ d.installed /\ (d.authenticated \/ d.configured)
    BY <1>2 DEF Detected
  <2>2. QED
    BY <2>1 DEF Tells, Available
<1>3. CASE missing # {}
  <2>1. Min(missing) \in missing
    BY <1>1, <1>3, MinIs
  <2>2. d.reason = checks[Min(missing)][2] /\ ~d.authenticated /\ ~d.configured
    BY <1>3 DEF Detected
  <2>3. d.reason \in Reasons
    BY <1>1, <2>1, <2>2
  <2>4. d.reason # ""
    BY <2>3 DEF Reasons
  <2>5. QED
    BY <2>2, <2>3, <2>4 DEF Tells, Available
<1>4. QED
  BY <1>2, <1>3

LEMMA Eleven ==
  ToSet(Defaults) = {"codex", "claude", "gemini", "copilot", "qwen", "openrouter", "cline",
                     "aider", "droid", "opencode", "freebuff"}
<1>1. DOMAIN Defaults = 1..11
  BY DEF Defaults
<1>2. 1..11 = {1, 2, 3, 4, 5, 6, 7, 8, 9, 10, 11}
  OBVIOUS
<1>3. QED
  BY <1>1, <1>2 DEF ToSet, Defaults

LEMMA DetectTells ==
  ASSUME NEW tool \in ToSet(Defaults), NEW e \in Machine(tool)
  PROVE  Tells(Detect(tool, e))
<1>1. CASE tool = "codex"
  <2>1. e.onPath \in BOOLEAN /\ e.auth \in BOOLEAN
    BY <1>1 DEF Machine, Maybe, Exists
  <2>2. << <<e.onPath, "binary_missing">>, <<e.auth, "authentication_missing">> >> \in Seq(BOOLEAN \X Reasons)
    BY <2>1 DEF Reasons
  <2>3. QED
    BY <1>1, <2>1, <2>2, DetectedTells DEF Detect, DetectCodex
<1>2. CASE tool = "gemini"
  <2> DEFINE second == Exists(e.accounts)
             third == \E a \in e.accounts: Exists(a.active)
  <2>1. e.onPath \in BOOLEAN /\ second \in BOOLEAN /\ third \in BOOLEAN
    BY <1>2 DEF Machine, Maybe, Exists
  <2> HIDE DEF second, third
  <2>2. << <<e.onPath, "binary_missing">>, <<second, "authentication_missing">>, <<third, "authentication_missing">> >> \in Seq(BOOLEAN \X Reasons)
    BY <2>1 DEF Reasons
  <2>3. QED
    BY <1>2, <2>1, <2>2, DetectedTells DEF Detect, DetectGemini, second, third
<1>3. CASE tool = "copilot"
  <2> DEFINE third == \E db \in e.db: Exists(ActiveAccount(db.accounts))
  <2>1. e.onPath \in BOOLEAN /\ e.file \in BOOLEAN /\ third \in BOOLEAN
    BY <1>3 DEF Machine, Maybe, Exists
  <2> HIDE DEF third
  <2>2. << <<e.onPath, "binary_missing">>, <<e.file, "local_state_unavailable">>, <<third, "authentication_missing">> >> \in Seq(BOOLEAN \X Reasons)
    BY <2>1 DEF Reasons
  <2>3. QED
    BY <1>3, <2>1, <2>2, DetectedTells DEF Detect, DetectCopilot, third
<1>4. CASE tool = "qwen"
  <2> DEFINE second == Exists(e.settings)
             third == \E s \in e.settings: s.authType # ""
  <2>1. e.onPath \in BOOLEAN /\ second \in BOOLEAN /\ third \in BOOLEAN
    BY <1>4 DEF Machine, Maybe, Exists
  <2> HIDE DEF second, third
  <2>2. << <<e.onPath, "binary_missing">>, <<second, "configuration_missing">>, <<third, "authentication_missing">> >> \in Seq(BOOLEAN \X Reasons)
    BY <2>1 DEF Reasons
  <2>3. QED
    BY <1>4, <2>1, <2>2, DetectedTells DEF Detect, DetectQwen, second, third
<1>5. CASE tool = "openrouter"
  <2>1. e.key \in BOOLEAN
    BY <1>5 DEF Machine, Maybe, Exists
  <2>2. << <<e.key, "authentication_missing">> >> \in Seq(BOOLEAN \X Reasons)
    BY <2>1 DEF Reasons
  <2>3. QED
    BY <1>5, <2>1, <2>2, DetectedTells DEF Detect, DetectOpenRouter
<1>6. CASE tool = "cline"
  <2> DEFINE first == \E d \in ToSet(e.editors): d.exists
             second == Exists(TaskHistory(e))
  <2>1. first \in BOOLEAN /\ second \in BOOLEAN
    BY <1>6 DEF Machine, Maybe, Exists
  <2> HIDE DEF first, second
  <2>2. << <<first, "binary_missing">>, <<second, "local_state_unavailable">> >> \in Seq(BOOLEAN \X Reasons)
    BY <2>1 DEF Reasons
  <2>3. QED
    BY <1>6, <2>1, <2>2, DetectedTells DEF Detect, DetectCline, first, second
<1>7. CASE tool = "aider"
  <2> DEFINE second == Exists(e.log)
  <2>1. e.onPath \in BOOLEAN /\ second \in BOOLEAN
    BY <1>7 DEF Machine, Maybe, Exists
  <2> HIDE DEF second
  <2>2. << <<e.onPath, "binary_missing">>, <<second, "local_state_unavailable">> >> \in Seq(BOOLEAN \X Reasons)
    BY <2>1 DEF Reasons
  <2>3. QED
    BY <1>7, <2>1, <2>2, DetectedTells DEF Detect, DetectAider, second
<1>8. CASE tool = "droid"
  <2>1. e.onPath \in BOOLEAN /\ e.file \in BOOLEAN /\ e.key \in BOOLEAN
    BY <1>8 DEF Machine, Maybe, Exists
  <2>2. << <<e.onPath, "binary_missing">>, <<e.file, "configuration_missing">> >> \in Seq(BOOLEAN \X Reasons)
    BY <2>1 DEF Reasons
  <2>3. QED
    BY <1>8, <2>1, <2>2, DetectedTells DEF Detect, DetectDroid
<1>9. CASE tool = "opencode"
  <2>1. e.file \in BOOLEAN
    BY <1>9 DEF Machine, Maybe, Exists
  <2>2. << <<e.file, "local_state_unavailable">> >> \in Seq(BOOLEAN \X Reasons)
    BY <2>1 DEF Reasons
  <2>3. QED
    BY <1>9, <2>1, <2>2, DetectedTells DEF Detect, DetectOpenCode
<1>10. CASE tool = "freebuff"
  <2>1. e.dir \in BOOLEAN /\ e.file \in BOOLEAN /\ e.token \in BOOLEAN
    BY <1>10 DEF Machine, Maybe, Exists
  <2>2. << <<e.dir, "configuration_missing">>, <<e.file, "configuration_missing">>, <<e.token, "authentication_missing">> >> \in Seq(BOOLEAN \X Reasons)
    BY <2>1 DEF Reasons
  <2>3. QED
    BY <1>10, <2>1, <2>2, DetectedTells DEF Detect, DetectFreebuff
<1>11. CASE tool = "claude"
  <2>1. e.transcripts \in Nat
    BY <1>11 DEF Machine, Maybe
  <2>2. CASE e.onPath \/ e.projects \/ e.state
    <3> DEFINE found == Exists(e.account)
               some == e.transcripts > 0
               d == Detect(tool, e)
    <3>1. d = [installed |-> TRUE, authenticated |-> found, configured |-> some, reason |-> ReasonClaude(e)]
      BY <1>11, <2>2 DEF Detect, DetectClaude
    <3>2. ReasonClaude(e) = IF ~found /\ ~some THEN "local_state_unavailable" ELSE ""
      <4>1. ~some <=> e.transcripts = 0
        BY <2>1
      <4> HIDE DEF some
      <4>2. QED
        BY <4>1 DEF ReasonClaude
    <3>3. found \in BOOLEAN /\ some \in BOOLEAN
      BY DEF Exists
    <3> HIDE DEF found, some, d
    <3>4. d.installed /\ d.authenticated = found /\ d.configured = some
      BY <3>1, <3>3
    <3>5. d.reason = IF ~found /\ ~some THEN "local_state_unavailable" ELSE ""
      BY <3>1, <3>2
    <3>6. Tells(d)
      BY <3>3, <3>4, <3>5 DEF Tells, Available, Reasons
    <3>7. QED
      BY <3>6 DEF d
  <2>3. CASE ~(e.onPath \/ e.projects \/ e.state)
    <3> DEFINE no == FALSE
               checks == << <<no, "binary_missing">> >>
    <3>1. Detect(tool, e) = Detected(checks, FALSE, FALSE)
      BY <1>11, <2>3 DEF Detect, DetectClaude
    <3>2. no \in BOOLEAN /\ ~no
      OBVIOUS
    <3> HIDE DEF no
    <3>3. checks \in Seq(BOOLEAN \X Reasons) /\ 1 \in DOMAIN checks /\ checks[1][1] = no
      BY <3>2 DEF Reasons
    <3> HIDE DEF checks
    <3>4. \E k \in DOMAIN checks: ~checks[k][1]
      BY <3>2, <3>3
    <3>5. QED
      BY <3>1, <3>3, <3>4, DetectedTells
  <2>4. QED
    BY <2>2, <2>3
<1>12. QED
  BY <1>1, <1>2, <1>3, <1>4, <1>5, <1>6, <1>7, <1>8, <1>9, <1>10, <1>11, Eleven

(***************************************************************************)
(* Sums                                                                    *)
(***************************************************************************)

\* One unit for each of what a field counts.
Units(s, field, places) == UNION {{k} \X (1..s[k][field]): k \in places}

LEMMA UnitsOfOne ==
  ASSUME NEW s, NEW field, NEW x, s[x][field] \in Nat
  PROVE  /\ IsFiniteSet(Units(s, field, {x}))
         /\ Cardinality(Units(s, field, {x})) = s[x][field]
<1> DEFINE n == s[x][field]
<1>1. n \in Nat /\ Units(s, field, {x}) = {x} \X (1..n)
  BY DEF Units
<1>2. IsFiniteSet({x}) /\ Cardinality({x}) = 1
  BY FS_Singleton
<1> HIDE DEF n
<1>3. IsFiniteSet(1..n) /\ Cardinality(1..n) = n
  BY <1>1, FS_Interval
<1>4. /\ IsFiniteSet({x} \X (1..n))
      /\ Cardinality({x} \X (1..n)) = Cardinality({x}) * Cardinality(1..n)
  BY <1>2, <1>3, FS_Product
<1>5. Cardinality({x} \X (1..n)) = n
  BY <1>1, <1>2, <1>3, <1>4
<1>6. QED
  BY <1>1, <1>4, <1>5 DEF n

LEMMA UnitsAdd ==
  ASSUME NEW s, NEW field, NEW S, NEW x, x \notin S, IsFiniteSet(Units(s, field, S)),
         s[x][field] \in Nat
  PROVE  Cardinality(Units(s, field, S \cup {x})) = Cardinality(Units(s, field, S)) + s[x][field]
<1> DEFINE A == Units(s, field, S)
           B == Units(s, field, {x})
<1>1. Units(s, field, S \cup {x}) = A \cup B
  BY DEF Units
<1>2. A \cap B = {}
  BY DEF Units
<1>3. IsFiniteSet(A) /\ IsFiniteSet(B) /\ Cardinality(B) = s[x][field]
  BY UnitsOfOne
<1> HIDE DEF A, B
<1>4. /\ Cardinality(A) \in Nat /\ Cardinality(B) \in Nat
      /\ Cardinality(A \cup B) = Cardinality(A) + Cardinality(B) - Cardinality(A \cap B)
  BY <1>3, FS_Union, FS_CardinalityType
<1>5. Cardinality(A \cup B) = Cardinality(A) + Cardinality(B)
  BY <1>2, <1>4, FS_EmptySet
<1>6. QED
  BY <1>1, <1>3, <1>5 DEF A, B

LEMMA UnitsFinite ==
  ASSUME NEW s, NEW field, NEW S, IsFiniteSet(S), \A k \in S: s[k][field] \in Nat
  PROVE  IsFiniteSet(Units(s, field, S))
<1> DEFINE U == {Units(s, field, {k}): k \in S}
           g == [k \in S |-> Units(s, field, {k})]
<1>1. g \in Surjection(S, U)
  BY DEF Surjection
<1>2. \A u \in U: IsFiniteSet(u)
  BY UnitsOfOne
<1>3. Units(s, field, S) = UNION U
  BY DEF Units
<1> HIDE DEF g, U
<1>4. IsFiniteSet(U)
  BY <1>1, FS_Surjection
<1>5. QED
  BY <1>2, <1>3, <1>4, FS_UNION

\* The sum that the fold computes is a number of units. The fold is a recursive
\* function on the subsets of S: the cardinality satisfies its equation, and of
\* the subsets on which they differ a smallest one would contradict it.
LEMMA TotalIsCount ==
  ASSUME NEW s, NEW field, NEW S, IsFiniteSet(S), \A k \in S: s[k][field] \in Nat
  PROVE  Total(s, S, field) = Cardinality(Units(s, field, S))
<1> DEFINE value(x) == s[x][field]
           ch(t) == CHOOSE x \in t: TRUE
           def(g) == [t \in SUBSET S |-> IF t = {} THEN 0 ELSE value(ch(t)) + g[t \ {ch(t)}]]
           iter == CHOOSE g: g = def(g)
           card == [t \in SUBSET S |-> Cardinality(Units(s, field, t))]
<1>1. Total(s, S, field) = iter[S]
  BY DEF Total, MapThenSumSet, MapThenFoldSet
<1>2. \A t \in SUBSET S: t # {} => ch(t) \in t
  OBVIOUS
<1>3. \A x \in S: value(x) \in Nat /\ value(x) = s[x][field]
  OBVIOUS
<1> HIDE DEF ch, value
<1>4. card = def(card)
  <2> SUFFICES ASSUME NEW t \in SUBSET S
               PROVE  card[t] = IF t = {} THEN 0 ELSE value(ch(t)) + card[t \ {ch(t)}]
    OBVIOUS
  <2>1. CASE t = {}
    <3>1. Units(s, field, {}) = {}
      BY DEF Units
    <3>2. QED
      BY <2>1, <3>1, FS_EmptySet
  <2>2. CASE t # {}
    <3> DEFINE x == ch(t)
               r == t \ {x}
    <3>1. x \in S /\ x \notin r /\ t = r \cup {x} /\ r \in SUBSET S
      BY <1>2, <2>2
    <3> HIDE DEF x, r
    <3>2. IsFiniteSet(Units(s, field, r))
      <4>1. IsFiniteSet(r) /\ \A y \in r: s[y][field] \in Nat
        BY <3>1, FS_Subset
      <4>2. QED
        BY <4>1, UnitsFinite
    <3>3. Cardinality(Units(s, field, r)) \in Nat /\ value(x) \in Nat
      BY <1>3, <3>1, <3>2, FS_CardinalityType
    <3>4. Cardinality(Units(s, field, r \cup {x})) = Cardinality(Units(s, field, r)) + value(x)
      <4>1. s[x][field] \in Nat /\ s[x][field] = value(x)
        BY <1>3, <3>1
      <4>2. Cardinality(Units(s, field, r \cup {x})) = Cardinality(Units(s, field, r)) + s[x][field]
        BY <3>1, <3>2, <4>1, UnitsAdd
      <4>3. QED
        BY <4>1, <4>2
    <3>5. card[r] \in Nat /\ card[t] = card[r] + value(x)
      BY <3>1, <3>3, <3>4
    <3> HIDE DEF card
    <3>6. card[t] = value(x) + card[r]
      BY <3>3, <3>5
    <3>7. QED
      BY <2>2, <3>6 DEF r, x
  <2>3. QED
    BY <2>1, <2>2
<1>5. iter = def(iter)
  BY <1>4
<1>6. \A t \in SUBSET S: iter[t] = card[t]
  <2> DEFINE T == {t \in SUBSET S: iter[t] # card[t]}
  <2> SUFFICES ASSUME T # {} PROVE FALSE
    OBVIOUS
  <2>1. IsWellFoundedOn(StrictSubsetOrdering(S), SUBSET S)
    BY FS_StrictSubsetOrderingWellFounded, FS_FiniteSubsetsOfFinite
  <2>2. PICK t \in T: \A r \in T: <<r, t>> \notin StrictSubsetOrdering(S)
    <3>1. T \subseteq SUBSET S
      OBVIOUS
    <3> HIDE DEF T
    <3>2. QED
      BY <2>1, <3>1, WFMin
  <2>3. \A r \in SUBSET S: r \subseteq t /\ r # t => iter[r] = card[r]
    BY <2>2 DEF StrictSubsetOrdering
  <2> HIDE DEF iter, card
  <2>4. /\ iter[t] = IF t = {} THEN 0 ELSE value(ch(t)) + iter[t \ {ch(t)}]
        /\ card[t] = IF t = {} THEN 0 ELSE value(ch(t)) + card[t \ {ch(t)}]
    BY <1>4, <1>5
  <2>5. t # {} => iter[t \ {ch(t)}] = card[t \ {ch(t)}]
    BY <1>2, <2>3
  <2>6. QED
    BY <2>2, <2>4, <2>5
<1>7. QED
  BY <1>1, <1>6

LEMMA TotalNat ==
  ASSUME NEW s, NEW field, NEW S, IsFiniteSet(S), \A k \in S: s[k][field] \in Nat
  PROVE  Total(s, S, field) \in Nat
BY TotalIsCount, UnitsFinite, FS_CardinalityType

(***************************************************************************)
(* What Fetch returns                                                      *)
(***************************************************************************)
SourceNames == {"official API", "internal API", "local state", "config", "local database"}

\* The provers do not know of a literal that it is a STRING.
Texts ==
  STRING \cup
  {"", "5h", "Daily", "Weekly", "hours", "Model", "GLM", "Credits", "credits", "Today", "tokens",
   "Sessions", "sessions", "Usage", "Monthly", "Limit", "Remaining", "cost", "Requests", "Cost",
   "Tasks", "Tokens", "AI credits", "Daily msgs", "5h msgs", "msgs"}

\* A limit as an adapter fills it: what it holds is what the answer says of one
\* limit, the share also if it is a limit of sessions, unless it says none; a
\* limit of sessions that has a bound has a total.
AnyLimit ==
  [label: Texts, used: Int, total: Nat, percent: Int, unlimited: BOOLEAN, sessions: BOOLEAN,
   source: SourceNames]
Says(s, l) ==
  /\ l.label = s.label
  /\ l.unlimited = TRUE => s.unlimited
  /\ l.used >= 0 => l.used \in s.used
  /\ l.total > 0 => l.total \in s.total
  /\ l.percent \in IF s.percent = {} THEN {0} ELSE s.percent
  /\ l.sessions = FALSE => s.percent # {}
LimitsOf(tool, e) ==
  {l \in AnyLimit: /\ \E s \in SaidBy(tool, e): Says(s, l)
                   /\ l.sessions = TRUE => l.unlimited \/ l.total > 0}

\* A metric: tokens have no fraction.
AnyMetric ==
  {m \in [label: Texts, unit: Texts, value: Int, source: SourceNames \cup {""}]:
     m.unit = "tokens" => \E n \in Nat: m.value = One * n}

\* Codex's metrics are balances of the answer.
Balances(e, metrics) ==
  \A k \in DOMAIN metrics: \E r \in e.reply: \E c \in r.credits:
    c.has /\ metrics[k].unit = "credits" /\ metrics[k].value \in OrZero(c.balance)

Sound(tool, e, st) ==
  /\ st.limits \in Seq(LimitsOf(tool, e))
  /\ st.metrics \in Seq(AnyMetric)
  /\ tool = "codex" => Balances(e, st.metrics)
  /\ st.source \in SourceNames
  /\ st.multiplier > 0 => st.plan = "Pro" /\ \E r \in e.reply: st.multiplier \in r.multiplier

LEMMA TheIn == ASSUME NEW s, Exists(s) PROVE The(s) \in s
BY DEF Exists, The

\* A field that may be left out is a number, or else 0.
LEMMA DecodedIs ==
  ASSUME NEW field \in Maybe(Int)
  PROVE  Decoded(field) \in Int /\ Decoded(field) \in OrZero(field) /\ OrZero(field) # {}
<1>1. field \subseteq Int
  BY DEF Maybe
<1>2. CASE field = {}
  BY <1>2 DEF Decoded, OrZero, Exists
<1>3. CASE field # {}
  <2>1. The(field) \in field
    BY <1>3, TheIn DEF Exists
  <2>2. Decoded(field) = The(field) /\ OrZero(field) = field
    BY <1>3 DEF Decoded, OrZero, Exists
  <2>3. QED
    BY <1>1, <1>3, <2>1, <2>2
<1>4. QED
  BY <1>2, <1>3

LEMMA SaidIs ==
  ASSUME NEW label, NEW percent, NEW used, NEW total, NEW unlimited \in BOOLEAN
  PROVE  /\ Said(label, percent, used, total, unlimited).label = label
         /\ Said(label, percent, used, total, unlimited).percent = percent
         /\ Said(label, percent, used, total, unlimited).used = used
         /\ Said(label, percent, used, total, unlimited).total = total
         /\ Said(label, percent, used, total, unlimited).unlimited = unlimited
BY DEF Said

LEMMA PercentageIs ==
  ASSUME NEW tool, NEW e, NEW label \in Texts, NEW p \in Int,
         NEW s \in SaidBy(tool, e), s.label = label, p \in s.percent
  PROVE  Percentage(label, p) \in LimitsOf(tool, e)
<1> DEFINE l == Percentage(label, p)
<1>1. l = [label |-> label, used |-> Unknown, total |-> 0, percent |-> p,
           unlimited |-> FALSE, sessions |-> FALSE, source |-> "official API"]
  BY DEF Percentage
<1>2. Unknown \in Int /\ ~ Unknown >= 0
  BY DEF Unknown
<1> HIDE DEF l
<1>3. /\ l.label = label /\ l.used = Unknown /\ l.total = 0 /\ l.percent = p /\ l.sessions # TRUE
      /\ l.unlimited # TRUE
  BY <1>1
<1>4. l \in AnyLimit
  BY <1>1, <1>2 DEF AnyLimit, SourceNames
<1>5. s.percent # {} /\ ~ l.used >= 0 /\ ~ l.total > 0
  BY <1>2, <1>3
<1>6. Says(s, l)
  BY <1>3, <1>5 DEF Says
<1>7. l \in LimitsOf(tool, e)
  BY <1>3, <1>4, <1>6 DEF LimitsOf
<1>8. QED
  BY <1>7 DEF l

LEMMA SessionsIs ==
  ASSUME NEW tool, NEW e, NEW label \in Texts, NEW used \in Int, NEW total \in Nat,
         NEW unlimited \in BOOLEAN, unlimited \/ total > 0,
         NEW s \in SaidBy(tool, e), s.label = label, s.percent = {}, unlimited => s.unlimited,
         used >= 0 => used \in s.used, total > 0 => total \in s.total
  PROVE  Sessions(label, used, total, unlimited) \in LimitsOf(tool, e)
<1> DEFINE l == Sessions(label, used, total, unlimited)
           yes == TRUE
           api == "internal API"
<1>1. l = [label |-> label, used |-> used, total |-> total, percent |-> 0,
           unlimited |-> unlimited, sessions |-> yes, source |-> api]
  BY DEF Sessions
<1>2. api \in SourceNames /\ yes \in BOOLEAN /\ yes = TRUE /\ 0 \in Int
  BY DEF SourceNames
<1> HIDE DEF l, yes, api
<1>3. /\ l.used = used /\ l.sessions = yes /\ l.total = total /\ l.unlimited = unlimited
      /\ l.label = label /\ l.percent = 0 /\ l.source = api
  BY <1>1
<1>4. l \in AnyLimit
  BY <1>1, <1>2 DEF AnyLimit
<1>5. l.unlimited = TRUE => s.unlimited
  BY <1>3
<1>6. Says(s, l)
  BY <1>2, <1>3, <1>5 DEF Says
<1>7. l \in LimitsOf(tool, e)
  BY <1>2, <1>3, <1>4, <1>6 DEF LimitsOf
<1>8. QED
  BY <1>7 DEF l

LEMMA MetricIs ==
  ASSUME NEW label \in Texts, NEW unit \in Texts, NEW value \in Int,
         NEW source \in SourceNames \cup {""},
         unit = "tokens" => \E n \in Nat: value = One * n
  PROVE  Metric(label, unit, value, source) \in AnyMetric
BY DEF Metric, AnyMetric

LEMMA PositiveIs ==
  ASSUME NEW m \in AnyMetric
  PROVE  Positive(m) \in Seq(AnyMetric)
BY DEF Positive

LEMMA CodexSound ==
  ASSUME NEW e \in Machine("codex"), NEW st \in FetchCodex(e)
  PROVE  Sound("codex", e, st)
<1> DEFINE S == LimitsOf("codex", e)
<1>1. PICK r \in e.reply: st = ParseRateLimits(r)
  BY DEF FetchCodex
<1>2. /\ r.plan \in STRING /\ r.multiplier \in SUBSET Int /\ r.credits \in SUBSET Credits
      /\ r.primary \in SUBSET Window /\ r.secondary \in SUBSET Window
  BY DEF Machine, Maybe
<1>3. \A w \in r.primary \cup r.secondary: AddWindow(w) \in S
  <2> TAKE w \in r.primary \cup r.secondary
  <2>1. w.percent \in Maybe(Int) /\ w.mins \in Int
    BY <1>2 DEF Window
  <2> DEFINE label == ClassifyWindow(w.mins)
             percents == {One * p: p \in OrZero(w.percent)}
             p == One * Decoded(w.percent)
             s == Said(label, percents, {}, {}, FALSE)
  <2>2. label \in Texts
    <3>1. label \in {"5h", "Daily", "Weekly", "", "hours"}
      BY <2>1 DEF ClassifyWindow
    <3>2. QED
      BY <3>1 DEF Texts
  <2>3. p \in percents /\ p \in Int
    BY <2>1, DecodedIs DEF One
  <2>4. s \in SaidBy("codex", e)
    <3>1. w \in UNION {x.primary \cup x.secondary: x \in e.reply}
      OBVIOUS
    <3>2. QED
      BY <3>1 DEF SaidBy
  <2>5. AddWindow(w) = Percentage(label, p)
    BY DEF AddWindow
  <2> HIDE DEF label, percents, p
  <2>6. s.label = label /\ s.percent = percents
    BY DEF Said
  <2> HIDE DEF s
  <2>7. Percentage(label, p) \in S
    BY <2>2, <2>3, <2>4, <2>6, PercentageIs
  <2>8. QED
    BY <2>5, <2>7
<1> HIDE DEF S
<1>4. Optional(AddWindow, r.primary) \in Seq(S) /\ Optional(AddWindow, r.secondary) \in Seq(S)
  BY <1>3, TheIn DEF Optional
<1> DEFINE given == {c \in r.credits: c.has}
<1>5. \A c \in given: /\ Balance(c) \in AnyMetric /\ Balance(c).unit = "credits"
                       /\ Balance(c).value \in OrZero(c.balance)
  <2> TAKE c \in given
  <2>1. c.balance \in Maybe(Int)
    BY <1>2 DEF Credits
  <2>2. Decoded(c.balance) \in Int /\ Decoded(c.balance) \in OrZero(c.balance)
    BY <2>1, DecodedIs
  <2>3. Balance(c) \in AnyMetric
    BY <2>2, MetricIs DEF Balance, Texts
  <2>4. Balance(c).unit = "credits" /\ Balance(c).value = Decoded(c.balance)
    BY DEF Balance, Metric
  <2>5. QED
    BY <2>2, <2>3, <2>4
<1>13. \A c \in given: c \in r.credits /\ c.has
  OBVIOUS
<1> HIDE DEF given
<1>6. Optional(Balance, given) \in Seq(AnyMetric)
  BY <1>5, TheIn DEF Optional
<1>12. /\ st.limits = Optional(AddWindow, r.primary) \o Optional(AddWindow, r.secondary)
       /\ st.metrics = Optional(Balance, given)
  BY <1>1 DEF ParseRateLimits, NoStatus, given
<1>14. Balances(e, st.metrics)
  <2> SUFFICES ASSUME NEW k \in DOMAIN st.metrics
               PROVE  \E x \in e.reply: \E c \in x.credits:
                        /\ c.has /\ st.metrics[k].unit = "credits"
                        /\ st.metrics[k].value \in OrZero(c.balance)
    BY DEF Balances
  <2> DEFINE c == The(given)
             m == Balance(c)
  <2>1. Exists(given)
    BY <1>12 DEF Optional
  <2>2. c \in given
    BY <2>1, TheIn
  <2>3. st.metrics = <<m>>
    BY <1>12, <2>1 DEF Optional
  <2> HIDE DEF c, m
  <2>4. st.metrics[k] = m
    BY <2>3
  <2>5. c \in r.credits /\ c.has /\ m.unit = "credits" /\ m.value \in OrZero(c.balance)
    BY <1>5, <1>13, <2>2 DEF m
  <2>6. QED
    BY <2>4, <2>5
<1>7. /\ st.source = "official API" /\ st.plan = Title(r.plan)
      /\ st.multiplier = HonoredMultiplier(r)
  BY <1>1 DEF ParseRateLimits, NoStatus
<1>8. st.multiplier > 0 => st.plan = "Pro" /\ st.multiplier \in r.multiplier
  <2>1. CASE Exists(r.multiplier) /\ Title(r.plan) = "Pro" /\ The(r.multiplier) > 0
    BY <1>7, <2>1, TheIn DEF HonoredMultiplier
  <2>2. CASE ~(Exists(r.multiplier) /\ Title(r.plan) = "Pro" /\ The(r.multiplier) > 0)
    <3>1. HonoredMultiplier(r) = 0
      BY <2>2 DEF HonoredMultiplier
    <3>2. st.multiplier = 0
      BY <1>7, <3>1
    <3>3. ~ st.multiplier > 0
      BY <3>2
    <3>4. QED
      BY <3>3
  <2>3. QED
    BY <2>1, <2>2
<1>9. st.limits \in Seq(S) /\ st.source \in SourceNames
  BY <1>4, <1>7, <1>12, ConcatProperties DEF SourceNames
<1>10. st.multiplier > 0 => \E x \in e.reply: st.multiplier \in x.multiplier
  BY <1>1, <1>8
<1>11. QED
  BY <1>6, <1>12, <1>9, <1>8, <1>10, <1>14 DEF Sound, S

\* The other ten do not know of multipliers, nor of this balance.
LEMMA PlainSound ==
  ASSUME NEW tool, NEW e, NEW st, st.limits \in Seq(LimitsOf(tool, e)),
         st.metrics \in Seq(AnyMetric), st.source \in SourceNames, st.multiplier = 0, tool # "codex"
  PROVE  Sound(tool, e, st)
<1>1. ~ st.multiplier > 0
  OBVIOUS
<1>2. QED
  BY <1>1 DEF Sound

LEMMA TokensAre ==
  ASSUME NEW label \in Texts, NEW n \in Nat, NEW source \in SourceNames
  PROVE  Metric(label, "tokens", One * n, source) \in AnyMetric
<1>1. One * n \in Int /\ "tokens" \in Texts
  <2>1. One * n \in Int
    BY DEF One
  <2>2. "tokens" \in Texts
    BY DEF Texts
  <2>3. QED
    BY <2>1, <2>2
<1>2. \E k \in Nat: One * n = One * k
  OBVIOUS
<1> DEFINE value == One * n
<1> HIDE DEF value
<1>3. Metric(label, "tokens", value, source) \in AnyMetric
  BY <1>1, <1>2, MetricIs DEF value
<1>4. QED
  BY <1>3 DEF value

LEMMA CountIs ==
  ASSUME NEW label \in Texts, NEW unit \in Texts, NEW n \in Int, NEW source \in SourceNames,
         unit # "tokens"
  PROVE  Metric(label, unit, n, source) \in AnyMetric
BY MetricIs

\* Records of today are records: they can be counted and added up.
LEMMA TodaysTotal ==
  ASSUME NEW s, NEW n \in Nat, NEW places, NEW field, places \subseteq 1..n,
         \A k \in places: s[k][field] \in Nat
  PROVE  Total(s, places, field) \in Nat
<1>1. IsFiniteSet(1..n)
  BY FS_Interval
<1>2. QED
  BY <1>1, FS_Subset, TotalNat

LEMMA TodaysCount ==
  ASSUME NEW n \in Nat, NEW places, places \subseteq 1..n
  PROVE  IsFiniteSet(places) /\ Cardinality(places) \in Nat /\ One * Cardinality(places) \in Int
<1>1. IsFiniteSet(1..n)
  BY FS_Interval
<1>2. IsFiniteSet(places) /\ Cardinality(places) \in Nat
  BY <1>1, FS_Subset, FS_CardinalityType
<1>3. QED
  BY <1>2 DEF One

LEMMA ClaudeSound ==
  ASSUME NEW e \in Machine("claude"), NEW st \in FetchClaude(e)
  PROVE  Sound("claude", e, st)
<1> DEFINE S == LimitsOf("claude", e)
           used == {t \in e.tally: e.projects /\ t.records > 0}
           day(u) == UsageWindow("5h", u)
           week(u) == UsageWindow("Weekly", u)
<1>1. st = ClaudeStatus(e)
  BY DEF FetchClaude
<1>2. /\ e.usage \in SUBSET [fiveHour: SUBSET Utilization, sevenDay: SUBSET Utilization]
      /\ e.tally \in SUBSET [records: Nat, tokens: Nat, sessions: Nat, model: STRING]
  BY DEF Machine, Maybe
<1>3. \A windows \in e.usage: /\ \A u \in windows.fiveHour: day(u) \in S
                              /\ \A u \in windows.sevenDay: week(u) \in S
  <2> TAKE windows \in e.usage
  <2>1. ASSUME NEW u \in Utilization, NEW label \in {"5h", "Weekly"},
               Said(label, OrZero(u.utilization), {}, {}, FALSE) \in SaidBy("claude", e)
        PROVE  UsageWindow(label, u) \in S
    <3> DEFINE n == Decoded(u.utilization)
               said == OrZero(u.utilization)
               s == Said(label, said, {}, {}, FALSE)
    <3>1. u.utilization \in Maybe(Int)
      BY DEF Utilization
    <3>2. n \in Int /\ n \in said
      BY <3>1, DecodedIs
    <3> HIDE DEF n, said
    <3>3. (n * 100 * One) \div 1000 = n
      BY <3>2 DEF One
    <3>4. UsageWindow(label, u) = Percentage(label, n)
      BY <3>3 DEF UsageWindow, n
    <3>5. label \in Texts
      BY DEF Texts
    <3>6. s \in SaidBy("claude", e)
      BY <2>1 DEF said
    <3>7. s.label = label /\ s.percent = said
      BY DEF Said
    <3> HIDE DEF s
    <3>8. Percentage(label, n) \in S
      BY <3>2, <3>5, <3>6, <3>7, PercentageIs
    <3>9. QED
      BY <3>4, <3>8
  <2>2. ASSUME NEW u \in windows.fiveHour PROVE day(u) \in S
    <3>1. u \in Utilization /\ u \in UNION {x.fiveHour: x \in e.usage}
      BY <1>2
    <3>2. Said("5h", OrZero(u.utilization), {}, {}, FALSE) \in SaidBy("claude", e)
      BY <3>1 DEF SaidBy
    <3> HIDE DEF S
    <3>3. QED
      BY <2>1, <3>1, <3>2
  <2>3. ASSUME NEW u \in windows.sevenDay PROVE week(u) \in S
    <3>1. u \in Utilization /\ u \in UNION {x.sevenDay: x \in e.usage}
      BY <1>2
    <3>2. Said("Weekly", OrZero(u.utilization), {}, {}, FALSE) \in SaidBy("claude", e)
      BY <3>1 DEF SaidBy
    <3> HIDE DEF S
    <3>3. QED
      BY <2>1, <3>1, <3>2
  <2> HIDE DEF S, day, week
  <2>4. QED
    BY <2>2, <2>3
<1> HIDE DEF S
<1>4. \A windows \in e.usage: UsageLimits(windows) \in Seq(S)
  <2> TAKE windows \in e.usage
  <2>1. UsageLimits(windows) = Optional(day, windows.fiveHour) \o Optional(week, windows.sevenDay)
    BY DEF UsageLimits
  <2> HIDE DEF day, week
  <2>2. Optional(day, windows.fiveHour) \in Seq(S) /\ Optional(week, windows.sevenDay) \in Seq(S)
    BY <1>3, TheIn DEF Optional
  <2>3. QED
    BY <2>1, <2>2, ConcatProperties
<1>5. \A t \in e.tally: TranscriptMetrics(t) \in Seq(AnyMetric)
  <2> TAKE t \in e.tally
  <2>1. t.tokens \in Nat /\ One * t.sessions \in Int
    BY <1>2 DEF One
  <2>2. /\ Metric("Today", "tokens", One * t.tokens, "local state") \in AnyMetric
        /\ Metric("Sessions", "", One * t.sessions, "local state") \in AnyMetric
    BY <2>1, TokensAre, CountIs DEF Texts, SourceNames
  <2> DEFINE a == Metric("Today", "tokens", One * t.tokens, "local state")
             b == Metric("Sessions", "", One * t.sessions, "local state")
  <2>3. TranscriptMetrics(t) = <<a, b>>
    BY DEF TranscriptMetrics
  <2>4. a \in AnyMetric /\ b \in AnyMetric
    BY <2>2
  <2> HIDE DEF a, b
  <2>5. QED
    BY <2>3, <2>4
<1>6. /\ st.limits = IF Exists(e.usage) THEN UsageLimits(The(e.usage)) ELSE <<>>
      /\ st.metrics = IF Exists(used) THEN TranscriptMetrics(The(used)) ELSE <<>>
      /\ st.source = "local state" /\ st.multiplier = 0
  BY <1>1 DEF ClaudeStatus, NoStatus
<1>7. st.limits \in Seq(S)
  <2>1. Exists(e.usage) => The(e.usage) \in e.usage
    BY TheIn
  <2>2. CASE Exists(e.usage)
    BY <1>4, <1>6, <2>1, <2>2
  <2>3. CASE ~Exists(e.usage)
    <3>1. st.limits = <<>>
      BY <1>6, <2>3
    <3>2. QED
      BY <3>1
  <2>4. QED
    BY <2>2, <2>3
<1>8. st.metrics \in Seq(AnyMetric)
  <2>1. Exists(used) => The(used) \in e.tally
    BY TheIn
  <2>2. CASE Exists(used)
    BY <1>5, <1>6, <2>1, <2>2
  <2>3. CASE ~Exists(used)
    <3>1. st.metrics = <<>>
      BY <1>6, <2>3
    <3>2. QED
      BY <3>1
  <2>4. QED
    BY <2>2, <2>3
<1>9. QED
  BY <1>6, <1>7, <1>8, PlainSound DEF SourceNames, S

LEMMA GeminiSound ==
  ASSUME NEW e \in Machine("gemini"), NEW st \in FetchGemini(e)
  PROVE  Sound("gemini", e, st)
<1>1. st.limits = <<>> /\ st.metrics = <<>> /\ st.multiplier = 0 /\ st.source = "local state"
  BY DEF FetchGemini, NoStatus
<1>2. st.source \in SourceNames
  BY <1>1 DEF SourceNames
<1>3. <<>> \in Seq(LimitsOf("gemini", e)) /\ <<>> \in Seq(AnyMetric)
  OBVIOUS
<1>4. QED
  BY <1>1, <1>2, <1>3, PlainSound

LEMMA QwenSound ==
  ASSUME NEW e \in Machine("qwen"), NEW st \in FetchQwen(e)
  PROVE  Sound("qwen", e, st)
<1>1. st.limits = <<>> /\ st.metrics = <<>> /\ st.multiplier = 0 /\ st.source = "config"
  BY DEF FetchQwen, QwenStatus, NoStatus
<1>2. st.source \in SourceNames
  BY <1>1 DEF SourceNames
<1>3. <<>> \in Seq(LimitsOf("qwen", e)) /\ <<>> \in Seq(AnyMetric)
  OBVIOUS
<1>4. QED
  BY <1>1, <1>2, <1>3, PlainSound

LEMMA DroidSound ==
  ASSUME NEW e \in Machine("droid"), NEW st \in FetchDroid(e)
  PROVE  Sound("droid", e, st)
<1>1. st.limits = <<>> /\ st.metrics = <<>> /\ st.multiplier = 0 /\ st.source = "config"
  BY DEF FetchDroid, NoStatus
<1>2. st.source \in SourceNames
  BY <1>1 DEF SourceNames
<1>3. <<>> \in Seq(LimitsOf("droid", e)) /\ <<>> \in Seq(AnyMetric)
  OBVIOUS
<1>4. QED
  BY <1>1, <1>2, <1>3, PlainSound

LEMMA OpenRouterSound ==
  ASSUME NEW e \in Machine("openrouter"), NEW st \in FetchOpenRouter(e)
  PROVE  Sound("openrouter", e, st)
<1>1. PICK d \in e.reply: st = KeyStatus(d)
  BY DEF FetchOpenRouter
<1>2. /\ d.usage \in Int /\ d.monthly \in Int /\ d.daily \in Int
      /\ d.limit \in SUBSET Int /\ d.remaining \in SUBSET Int
  BY DEF Machine, Maybe
<1> DEFINE cost(label, v) == Positive(Metric(label, "cost", v, "official API"))
           given(label, s) == IF Exists(s) THEN cost(label, The(s)) ELSE <<>>
<1>3. \A label \in Texts: \A v \in Int: cost(label, v) \in Seq(AnyMetric)
  BY CountIs, PositiveIs DEF Texts, SourceNames
<1>4. KeyMetrics(d) = cost("Usage", d.usage) \o cost("Monthly", d.monthly) \o cost("Daily", d.daily)
                        \o given("Limit", d.limit) \o given("Remaining", d.remaining)
  BY DEF KeyMetrics
<1> HIDE DEF cost
<1>5. \A label \in Texts: \A s \in SUBSET Int: given(label, s) \in Seq(AnyMetric)
  <2> TAKE label \in Texts
  <2> TAKE s \in SUBSET Int
  <2>1. CASE Exists(s)
    <3>1. The(s) \in Int
      BY <2>1, TheIn
    <3>2. QED
      BY <1>3, <2>1, <3>1
  <2>2. CASE ~Exists(s)
    <3>1. given(label, s) = <<>>
      BY <2>2
    <3> HIDE DEF given
    <3>2. QED
      BY <3>1
  <2>3. QED
    BY <2>1, <2>2
<1> HIDE DEF given
<1>6. {"Usage", "Monthly", "Daily", "Limit", "Remaining"} \subseteq Texts
  BY DEF Texts
<1>7. /\ cost("Usage", d.usage) \in Seq(AnyMetric) /\ cost("Monthly", d.monthly) \in Seq(AnyMetric)
      /\ cost("Daily", d.daily) \in Seq(AnyMetric) /\ given("Limit", d.limit) \in Seq(AnyMetric)
      /\ given("Remaining", d.remaining) \in Seq(AnyMetric)
  BY <1>2, <1>3, <1>5, <1>6
<1>8. KeyMetrics(d) \in Seq(AnyMetric)
  BY <1>4, <1>7, ConcatProperties
<1>9. st.metrics = KeyMetrics(d) /\ st.limits = <<>> /\ st.multiplier = 0 /\ st.source = "official API"
  BY <1>1 DEF KeyStatus, NoStatus
<1>10. st.source \in SourceNames /\ st.limits \in Seq(LimitsOf("openrouter", e))
  <2>1. st.source \in SourceNames
    BY <1>9 DEF SourceNames
  <2>2. <<>> \in Seq(LimitsOf("openrouter", e))
    OBVIOUS
  <2>3. QED
    BY <1>9, <2>1, <2>2
<1>11. QED
  BY <1>8, <1>9, <1>10, PlainSound

\* What Aider's log is searched for are places in it.
LEMMA ScannedIs == ASSUME NEW log, NEW n \in Nat, Len(log) = n, DOMAIN log = 1..n
                   PROVE  Scanned(log) \subseteq 1..n
<1> DEFINE long == {k \in DOMAIN log: log[k].kind = "oversized"}
           end == long \cup {n + 1}
<1>1. end \subseteq Nat /\ end # {} /\ n + 1 \in end
  OBVIOUS
<1>2. Scanned(log) = 1..(Min(end) - 1)
  BY DEF Scanned
<1> HIDE DEF end
<1>3. Min(end) \in Nat /\ Min(end) <= n + 1
  BY <1>1, MinIs
<1>4. QED
  BY <1>2, <1>3

\* Three figures: how often, how many tokens, at what cost.
LEMMA ThreeAre ==
  ASSUME NEW a \in AnyMetric, NEW b \in AnyMetric, NEW c \in AnyMetric
  PROVE  <<a, b, c>> \in Seq(AnyMetric)
OBVIOUS

LEMMA AiderSound ==
  ASSUME NEW e \in Machine("aider"), NEW st \in FetchAider(e)
  PROVE  Sound("aider", e, st)
<1>1. PICK log \in e.log: st = AiderStatus(log)
  BY DEF FetchAider
<1>2. log \in Seq(LogLine)
  BY DEF Machine, Maybe
<1> DEFINE n == Len(log)
           today == Since(log, Events(log), localDayStartMs \div Millis)
           a == Metric("Requests", "", One * Cardinality(today), "local state")
           b == Metric("Today", "tokens", One * Total(log, today, "tokens"), "local state")
           c == Metric("Cost", "cost", Total(log, today, "cost"), "local state")
<1>3. n \in Nat /\ DOMAIN log = 1..n
  BY <1>2
<1>4. \A k \in 1..n: log[k].tokens \in Nat /\ log[k].cost \in Nat
  <2>1. \A k \in 1..n: log[k] \in LogLine
    BY <1>2, <1>3
  <2>2. QED
    BY <2>1 DEF LogLine
<1>5. today \subseteq 1..n
  BY <1>3, ScannedIs DEF Since, Events
<1>6. st.metrics = <<a, b, c>> /\ st.limits = <<>> /\ st.multiplier = 0 /\ st.source = "local state"
  BY <1>1 DEF AiderStatus, NoStatus
<1> HIDE DEF n, today
<1>7. Total(log, today, "tokens") \in Nat /\ Total(log, today, "cost") \in Int
  <2>1. Total(log, today, "tokens") \in Nat /\ Total(log, today, "cost") \in Nat
    BY <1>3, <1>4, <1>5, TodaysTotal
  <2>2. QED
    BY <2>1
<1>8. One * Cardinality(today) \in Int
  BY <1>3, <1>5, TodaysCount
<1>9. {"", "cost", "Requests", "Today", "Cost"} \subseteq Texts /\ "local state" \in SourceNames
  BY DEF Texts, SourceNames
<1>10. a \in AnyMetric /\ b \in AnyMetric /\ c \in AnyMetric
  <2>1. b \in AnyMetric
    BY <1>7, <1>9, TokensAre
  <2>2. a \in AnyMetric
    BY <1>7, <1>8, <1>9, CountIs
  <2>3. c \in AnyMetric
    BY <1>7, <1>8, <1>9, CountIs
  <2>4. QED
    BY <2>1, <2>2, <2>3
<1> HIDE DEF a, b, c
<1>11. st.metrics \in Seq(AnyMetric)
  BY <1>6, <1>10, ThreeAre
<1>12. <<>> \in Seq(LimitsOf("aider", e))
  OBVIOUS
<1>13. QED
  BY <1>6, <1>9, <1>11, <1>12, PlainSound

\* The history of an editor is what Cline has.
LEMMA HistoryIs ==
  ASSUME NEW e \in Machine("cline"), NEW h \in TaskHistory(e)
  PROVE  h.parses \in BOOLEAN /\ h.tasks \in Seq(Task)
<1> DEFINE with == {k \in DOMAIN e.editors: Exists(e.editors[k].history)}
           Editor == [exists: BOOLEAN, history: Maybe([parses: BOOLEAN, tasks: Seq(Task)])]
<1>1. e.editors \in Seq(Editor)
  BY DEF Machine
<1>2. with # {} /\ h \in e.editors[Min(with)].history
  BY DEF TaskHistory
<1>3. with \subseteq Nat /\ with \subseteq DOMAIN e.editors
  BY <1>1
<1>4. Min(with) \in with
  BY <1>2, <1>3, MinIs
<1> HIDE DEF with, Editor
<1>5. PICK k \in DOMAIN e.editors: h \in e.editors[k].history
  BY <1>2, <1>3, <1>4
<1>6. e.editors[k] \in Editor
  BY <1>1
<1>7. QED
  BY <1>5, <1>6 DEF Editor, Maybe

LEMMA ClineSound ==
  ASSUME NEW e \in Machine("cline"), NEW st \in FetchCline(e)
  PROVE  Sound("cline", e, st)
<1>1. PICK h \in TaskHistory(e): st = ClineStatus(h.tasks)
  BY DEF FetchCline
<1> DEFINE s == h.tasks
           n == Len(s)
           today == Since(s, DOMAIN s, localDayStartMs)
           a == Metric("Tasks", "", One * Cardinality(today), "local state")
           b == Metric("Today", "tokens", One * Total(s, today, "tokens"), "local state")
           c == Metric("Cost", "cost", Total(s, today, "cost"), "local state")
<1>2. s \in Seq(Task)
  BY HistoryIs
<1>6. st.metrics = <<a, b, c>> /\ st.limits = <<>> /\ st.multiplier = 0 /\ st.source = "local state"
  BY <1>1 DEF ClineStatus, NoStatus
<1> HIDE DEF s
<1>3. n \in Nat /\ DOMAIN s = 1..n
  BY <1>2
<1>4. \A k \in 1..n: s[k].tokens \in Nat /\ s[k].cost \in Nat
  <2>1. \A k \in 1..n: s[k] \in Task
    BY <1>2, <1>3
  <2>2. QED
    BY <2>1 DEF Task
<1>5. today \subseteq 1..n
  BY <1>3 DEF Since
<1> HIDE DEF n, today
<1>7. Total(s, today, "tokens") \in Nat /\ Total(s, today, "cost") \in Int
  <2>1. Total(s, today, "tokens") \in Nat /\ Total(s, today, "cost") \in Nat
    BY <1>3, <1>4, <1>5, TodaysTotal
  <2>2. QED
    BY <2>1
<1>8. One * Cardinality(today) \in Int
  BY <1>3, <1>5, TodaysCount
<1>9. {"", "cost", "Tasks", "Today", "Cost"} \subseteq Texts /\ "local state" \in SourceNames
  BY DEF Texts, SourceNames
<1>10. a \in AnyMetric /\ b \in AnyMetric /\ c \in AnyMetric
  <2>1. b \in AnyMetric
    BY <1>7, <1>9, TokensAre
  <2>2. a \in AnyMetric
    BY <1>7, <1>8, <1>9, CountIs
  <2>3. c \in AnyMetric
    BY <1>7, <1>8, <1>9, CountIs
  <2>4. QED
    BY <2>1, <2>2, <2>3
<1> HIDE DEF a, b, c
<1>11. st.metrics \in Seq(AnyMetric)
  BY <1>6, <1>10, ThreeAre
<1>12. <<>> \in Seq(LimitsOf("cline", e))
  OBVIOUS
<1>13. QED
  BY <1>6, <1>9, <1>11, <1>12, PlainSound

LEMMA OpenCodeSound ==
  ASSUME NEW e \in Machine("opencode"), NEW st \in FetchOpenCode(e)
  PROVE  Sound("opencode", e, st)
<1>1. PICK db \in e.db: st = OpenCodeStatus(db)
  BY DEF FetchOpenCode
<1> DEFINE s == db.sessions
           n == Len(s)
           today == Since(s, DOMAIN s, localDayStartMs)
           a == Metric("Today", "tokens", One * Total(s, today, "tokens"), "local database")
           b == Metric("Cost", "cost", Total(s, today, "cost"), "local database")
           c == Metric("Sessions", "sessions", One * Cardinality(today), "local database")
<1>2. s \in Seq(Session)
  BY DEF Machine, Maybe
<1>6. st.metrics = <<a, b, c>> /\ st.limits = <<>> /\ st.multiplier = 0 /\ st.source = "local database"
  BY <1>1 DEF OpenCodeStatus, NoStatus
<1> HIDE DEF s
<1>3. n \in Nat /\ DOMAIN s = 1..n
  BY <1>2
<1>4. \A k \in 1..n: s[k].tokens \in Nat /\ s[k].cost \in Nat
  <2>1. \A k \in 1..n: s[k] \in Session
    BY <1>2, <1>3
  <2>2. QED
    BY <2>1 DEF Session
<1>5. today \subseteq 1..n
  BY <1>3 DEF Since
<1> HIDE DEF n, today
<1>7. Total(s, today, "tokens") \in Nat /\ Total(s, today, "cost") \in Int
  <2>1. Total(s, today, "tokens") \in Nat /\ Total(s, today, "cost") \in Nat
    BY <1>3, <1>4, <1>5, TodaysTotal
  <2>2. QED
    BY <2>1
<1>8. One * Cardinality(today) \in Int
  BY <1>3, <1>5, TodaysCount
<1>9. {"sessions", "cost", "Sessions", "Today", "Cost"} \subseteq Texts /\ "local database" \in SourceNames
  BY DEF Texts, SourceNames
<1>10. a \in AnyMetric /\ b \in AnyMetric /\ c \in AnyMetric
  <2>1. a \in AnyMetric
    BY <1>7, <1>9, TokensAre
  <2>2. b \in AnyMetric
    BY <1>7, <1>8, <1>9, CountIs
  <2>3. c \in AnyMetric
    BY <1>7, <1>8, <1>9, CountIs
  <2>4. QED
    BY <2>1, <2>2, <2>3
<1> HIDE DEF a, b, c
<1>11. st.metrics \in Seq(AnyMetric)
  BY <1>6, <1>10, ThreeAre
<1>12. <<>> \in Seq(LimitsOf("opencode", e))
  OBVIOUS
<1>13. QED
  BY <1>6, <1>9, <1>11, <1>12, PlainSound

LEMMA CopilotSound ==
  ASSUME NEW e \in Machine("copilot"), NEW st \in FetchCopilot(e)
  PROVE  Sound("copilot", e, st)
<1>1. PICK db \in e.db: st = CopilotStatus(db)
  BY DEF FetchCopilot
<1> DEFINE s == db.sessions
           n == Len(s)
           today == Since(s, DOMAIN s, localDayStartMs)
           a == Metric("Today", "sessions", One * Cardinality(today), "local database")
           b == Metric("Tokens", "tokens", One * Total(s, today, "tokens"), "local database")
           c == Metric("AI credits", "credits", Total(s, today, "credits"), "local database")
<1>2. s \in Seq(Session)
  BY DEF Machine, Maybe
<1>6. /\ st.metrics = IF today = {} THEN <<>> ELSE <<a, b>> \o Positive(c)
      /\ st.limits = <<>> /\ st.multiplier = 0 /\ st.source = "local database"
  BY <1>1 DEF CopilotStatus, NoStatus
<1> HIDE DEF s
<1>3. n \in Nat /\ DOMAIN s = 1..n
  BY <1>2
<1>4. \A k \in 1..n: s[k].tokens \in Nat /\ s[k].credits \in Nat
  <2>1. \A k \in 1..n: s[k] \in Session
    BY <1>2, <1>3
  <2>2. QED
    BY <2>1 DEF Session
<1>5. today \subseteq 1..n
  BY <1>3 DEF Since
<1> HIDE DEF n, today
<1>7. Total(s, today, "tokens") \in Nat /\ Total(s, today, "credits") \in Int
  <2>1. Total(s, today, "tokens") \in Nat /\ Total(s, today, "credits") \in Nat
    BY <1>3, <1>4, <1>5, TodaysTotal
  <2>2. QED
    BY <2>1
<1>8. One * Cardinality(today) \in Int
  BY <1>3, <1>5, TodaysCount
<1>9. {"sessions", "credits", "Tokens", "Today", "AI credits"} \subseteq Texts /\ "local database" \in SourceNames
  BY DEF Texts, SourceNames
<1>10. a \in AnyMetric /\ b \in AnyMetric /\ c \in AnyMetric
  <2>1. b \in AnyMetric
    BY <1>7, <1>9, TokensAre
  <2>2. a \in AnyMetric
    BY <1>7, <1>8, <1>9, CountIs
  <2>3. c \in AnyMetric
    BY <1>7, <1>8, <1>9, CountIs
  <2>4. QED
    BY <2>1, <2>2, <2>3
<1> HIDE DEF a, b, c
<1>11. st.metrics \in Seq(AnyMetric)
  <2>1. <<a, b>> \in Seq(AnyMetric) /\ <<>> \in Seq(AnyMetric)
    BY <1>10
  <2>2. <<a, b>> \o Positive(c) \in Seq(AnyMetric)
    BY <1>10, <2>1, PositiveIs, ConcatProperties
  <2>3. QED
    BY <1>6, <2>1, <2>2
<1>12. <<>> \in Seq(LimitsOf("copilot", e))
  OBVIOUS
<1>13. QED
  BY <1>6, <1>9, <1>11, <1>12, PlainSound

\* A concatenation of sequences of something is a sequence of it. The function
\* that FlattenSeq defines exists, since there is one up to every place, and
\* there is no first place at which it is no such sequence.
LEMMA FlattenIs ==
  ASSUME NEW S, NEW seqs \in Seq(Seq(S))
  PROVE  FlattenSeq(seqs) \in Seq(S)
<1> DEFINE n == Len(seqs)
           def(f) == [i \in 1..n |-> IF i = 1 THEN seqs[i] ELSE f[i - 1] \o seqs[i]]
           flatten == CHOOSE f: f = def(f)
           step(f, i) == IF i = 1 THEN seqs[i] ELSE f[i - 1] \o seqs[i]
           upTo(m) == \E f: \A i \in 1..m: f[i] = step(f, i)
<1>1. n \in Nat /\ DOMAIN seqs = 1..n /\ \A i \in 1..n: seqs[i] \in Seq(S)
  OBVIOUS
<1>2. CASE n = 0
  <2>1. FlattenSeq(seqs) = seqs /\ seqs = <<>>
    BY <1>2 DEF FlattenSeq
  <2>2. QED
    BY <2>1
<1>3. CASE n # 0
  <2>1. FlattenSeq(seqs) = flatten[n]
    BY <1>3 DEF FlattenSeq
  <2>2. upTo(n)
    <3> DEFINE bad == {m \in 0..n: ~upTo(m)}
    <3> HIDE DEF upTo
    <3> SUFFICES ASSUME bad # {} PROVE FALSE
      BY <1>1
    <3>1. bad \subseteq Nat
      OBVIOUS
    <3>2. PICK m \in bad: \A k \in bad: m <= k
      BY <3>1, LeastNat
    <3>3. m \in 0..n /\ ~upTo(m)
      OBVIOUS
    <3>4. m # 0
      <4>1. upTo(0)
        BY DEF upTo
      <4>2. QED
        BY <3>3, <4>1
    <3>5. upTo(m - 1)
      BY <1>1, <3>2, <3>3, <3>4
    <3>6. PICK f: \A i \in 1..(m - 1): f[i] = step(f, i)
      BY <3>5 DEF upTo
    <3> DEFINE g == [i \in 1..m |-> IF i = m THEN step(f, m) ELSE f[i]]
    <3>7. \A i \in 1..m: g[i] = step(g, i)
      <4> TAKE i \in 1..m
      <4>1. CASE i = m
        <5>1. m \in 1..m /\ (m # 1 => m - 1 \in 1..m /\ m - 1 # m)
          BY <3>3, <3>4
        <5>2. g[m] = step(f, m) /\ (m # 1 => g[m - 1] = f[m - 1])
          BY <5>1
        <5>3. QED
          BY <4>1, <5>2
      <4>2. CASE i # m
        <5>1. i \in 1..(m - 1) /\ (i # 1 => i - 1 \in 1..m /\ i - 1 # m)
          BY <3>3, <4>2
        <5>2. QED
          BY <3>6, <4>2, <5>1
      <4>3. QED
        BY <4>1, <4>2
    <3>8. QED
      BY <3>3, <3>7 DEF upTo
  <2>3. flatten = def(flatten)
    <3>1. PICK f: \A i \in 1..n: f[i] = step(f, i)
      BY <2>2 DEF upTo
    <3> DEFINE g == [i \in 1..n |-> f[i]]
    <3>2. g = def(g)
      <4>1. \A i \in 1..n: i # 1 => i - 1 \in 1..n
        BY <1>1
      <4>2. QED
        BY <3>1, <4>1
    <3>3. QED
      BY <3>2
  <2> HIDE DEF flatten
  <2>4. \A i \in 1..n: flatten[i] = IF i = 1 THEN seqs[i] ELSE flatten[i - 1] \o seqs[i]
    BY <2>3
  <2>5. \A i \in 1..n: flatten[i] \in Seq(S)
    <3> DEFINE bad == {i \in 1..n: flatten[i] \notin Seq(S)}
    <3> SUFFICES ASSUME bad # {} PROVE FALSE
      OBVIOUS
    <3>1. bad \subseteq Nat
      OBVIOUS
    <3>2. PICK i \in bad: \A k \in bad: i <= k
      BY <3>1, LeastNat
    <3>3. i \in 1..n /\ flatten[i] \notin Seq(S)
      OBVIOUS
    <3>4. i # 1
      BY <1>1, <2>4, <3>3
    <3>5. i - 1 \in 1..n /\ flatten[i - 1] \in Seq(S)
      BY <1>1, <3>2, <3>3, <3>4
    <3>6. flatten[i - 1] \o seqs[i] \in Seq(S)
      BY <1>1, <3>3, <3>5, ConcatProperties
    <3>7. QED
      BY <2>4, <3>3, <3>4, <3>6
  <2>6. QED
    BY <1>1, <1>3, <2>1, <2>5
<1>4. QED
  BY <1>2, <1>3

LEMMA FreebuffSound ==
  ASSUME NEW e \in Machine("freebuff"), NEW st \in FetchFreebuff(e)
  PROVE  Sound("freebuff", e, st)
<1> DEFINE S == LimitsOf("freebuff", e)
<1>0. <<>> \in Seq(S) /\ <<>> \in Seq(AnyMetric)
  OBVIOUS
<1>1. CASE st = GuardStatus
  <2>1. st.limits = <<>> /\ st.metrics = <<>> /\ st.multiplier = 0 /\ st.source = "local state"
    BY <1>1 DEF GuardStatus, NoStatus
  <2>2. st.source \in SourceNames
    BY <2>1 DEF SourceNames
  <2>3. QED
    BY <1>0, <2>1, <2>2, PlainSound
<1>2. CASE st # GuardStatus
  <2>1. PICK s \in e.reply: st = SessionStatus(s)
    BY <1>2 DEF FetchFreebuff
  <2>2. /\ s.models \in Seq(SUBSET Quota) /\ s.promo \in SUBSET Int
        /\ s.perDay \in Int /\ s.per5Hours \in Int
    <3>1. /\ s.models \in Seq(Maybe(Quota)) /\ s.promo \in SUBSET Int
          /\ s.perDay \in Int /\ s.per5Hours \in Int
      BY DEF Machine, Maybe
    <3>2. Maybe(Quota) \subseteq SUBSET Quota
      BY DEF Maybe
    <3>3. s.models \in Seq(SUBSET Quota)
      BY <3>1, <3>2
    <3>4. QED
      BY <3>1, <3>3
  <2>3. \A k \in DOMAIN s.models: \A q \in s.models[k]: SessionLimit(q) \in S
    <3> TAKE k \in DOMAIN s.models
    <3> TAKE q \in s.models[k]
    <3>1. q \in Quota
      BY <2>2
    <3>2. /\ q.provider \in STRING /\ q.recent \in Maybe(Int) /\ q.limit \in Maybe(Int)
          /\ q.unlimited \in BOOLEAN
      BY <3>1 DEF Quota
    <3> DEFINE label == Either(q.provider, "Model")
               free == Boundless(q)
               given == Decoded(q.limit)
               used == Decoded(q.recent)
               total == IF free THEN 0 ELSE One * given
               uses == OrZero(q.recent)
               totals == {One * n: n \in q.limit}
               bound == q.unlimited \/ ~\E n \in q.limit: n > 0
               said == Said(label, {}, uses, totals, bound)
    <3>3. said \in SaidBy("freebuff", e)
      <4>1. q \in UNION {UNION ToSet(x.models): x \in e.reply}
        BY DEF ToSet
      <4>2. QED
        BY <4>1 DEF SaidBy
    <3>4. label \in Texts
      BY <3>2 DEF Either, Texts
    <3>5. used \in Int /\ used \in uses /\ given \in Int
      BY <3>2, DecodedIs
    <3>6. free \in BOOLEAN /\ bound \in BOOLEAN /\ (~free => given > 0)
      BY <3>2, <3>5 DEF Boundless
    <3>7. given > 0 => given \in q.limit
      BY TheIn DEF Decoded
    <3>8. free => bound
      <4> SUFFICES ASSUME given <= 0, NEW n \in q.limit, n > 0 PROVE FALSE
        BY DEF Boundless
      <4>1. given \in q.limit
        BY TheIn DEF Decoded, Exists
      <4>2. given = n
        BY <3>2, <4>1 DEF Maybe
      <4> HIDE DEF given
      <4>3. QED
        BY <3>5, <4>2
    <3>9. SessionLimit(q) = Sessions(label, used, total, free)
      BY DEF SessionLimit
    <3> HIDE DEF free, given, bound
    <3>10. total \in Nat /\ (free \/ total > 0) /\ (total > 0 => total \in totals)
      BY <3>5, <3>6, <3>7 DEF One
    <3> HIDE DEF label, used, total, uses, totals
    <3>11. said.label = label /\ said.percent = {} /\ said.used = uses /\ said.total = totals
      BY <3>6, SaidIs
    <3>12. said.unlimited = bound
      BY <3>6, SaidIs
    <3> HIDE DEF said
    <3>13. /\ free => said.unlimited
           /\ used >= 0 => used \in said.used
           /\ total > 0 => total \in said.total
      BY <3>5, <3>8, <3>10, <3>11, <3>12
    <3>14. Sessions(label, used, total, free) \in S
      BY <3>3, <3>4, <3>5, <3>6, <3>10, <3>11, <3>13, SessionsIs
    <3>15. QED
      BY <3>9, <3>14
  <2>4. \A n \in {n \in s.promo: n > 0}: PromoLimit(n) \in S
    <3> TAKE n \in {n \in s.promo: n > 0}
    <3> DEFINE total == One * n
               free == FALSE
               said == Said("GLM", {}, {}, {total}, free)
    <3>1. total \in Nat /\ (free \/ total > 0)
      BY <2>2 DEF One
    <3>2. Unknown \in Int /\ ~ Unknown >= 0 /\ free \in BOOLEAN /\ "GLM" \in Texts
      BY DEF Unknown, Texts
    <3>3. PromoLimit(n) = Sessions("GLM", Unknown, total, free)
      BY DEF PromoLimit
    <3>4. said \in SaidBy("freebuff", e)
      <4>1. n \in UNION {x.promo: x \in e.reply}
        OBVIOUS
      <4>2. QED
        BY <4>1 DEF SaidBy
    <3>5. ~free
      OBVIOUS
    <3> HIDE DEF total, free
    <3>6. said.label = "GLM" /\ said.percent = {} /\ said.total = {total}
      BY <3>2, SaidIs
    <3> HIDE DEF said
    <3>7. Sessions("GLM", Unknown, total, free) \in S
      BY <3>1, <3>2, <3>4, <3>5, <3>6, SessionsIs
    <3>8. QED
      BY <3>3, <3>7
  <2> HIDE DEF S
  <2> DEFINE each == [k \in DOMAIN s.models |-> Optional(SessionLimit, s.models[k])]
             promo == Optional(PromoLimit, {n \in s.promo: n > 0})
             day == Metric("Daily msgs", "msgs", One * s.perDay, "")
             hours == Metric("5h msgs", "msgs", One * s.per5Hours, "")
  <2>5. each \in Seq(Seq(S))
    <3>1. \A k \in DOMAIN s.models: Optional(SessionLimit, s.models[k]) \in Seq(S)
      <4> TAKE k \in DOMAIN s.models
      <4>1. CASE Exists(s.models[k])
        <5>1. The(s.models[k]) \in s.models[k]
          BY <4>1, TheIn
        <5>2. SessionLimit(The(s.models[k])) \in S
          BY <2>3, <5>1
        <5>3. Optional(SessionLimit, s.models[k]) = <<SessionLimit(The(s.models[k]))>>
          BY <4>1 DEF Optional
        <5>4. QED
          BY <5>2, <5>3
      <4>2. CASE ~Exists(s.models[k])
        <5>1. Optional(SessionLimit, s.models[k]) = <<>>
          BY <4>2 DEF Optional
        <5>2. QED
          BY <1>0, <5>1 DEF S
      <4>3. QED
        BY <4>1, <4>2
    <3>2. DOMAIN s.models = 1..Len(s.models) /\ Len(s.models) \in Nat
      BY <2>2
    <3>3. QED
      BY <3>1, <3>2
  <2>6. promo \in Seq(S)
    <3> DEFINE some == {n \in s.promo: n > 0}
    <3> HIDE DEF some, promo
    <3>1. CASE Exists(some)
      <4>1. PromoLimit(The(some)) \in S
        BY <2>4, <3>1, TheIn DEF some
      <4>2. promo = <<PromoLimit(The(some))>>
        BY <3>1 DEF Optional, some, promo
      <4>3. QED
        BY <4>1, <4>2
    <3>2. CASE ~Exists(some)
      <4>1. promo = <<>>
        BY <3>2 DEF Optional, some, promo
      <4>2. QED
        BY <1>0, <4>1 DEF S
    <3>3. QED
      BY <3>1, <3>2
  <2>7. day \in AnyMetric /\ hours \in AnyMetric
    <3>1. One * s.perDay \in Int /\ One * s.per5Hours \in Int
      BY <2>2 DEF One
    <3>2. {"Daily msgs", "5h msgs", "msgs"} \subseteq Texts /\ "msgs" # "tokens"
      BY DEF Texts
    <3>3. QED
      BY <3>1, <3>2, MetricIs
  <2>8. /\ st.limits = FlattenSeq(each) \o promo
        /\ st.multiplier = 0 /\ st.source = "internal API"
    BY <2>1 DEF SessionStatus, NoStatus
  <2>9. st.metrics = Positive(day) \o Positive(hours)
    BY <2>1 DEF SessionStatus, NoStatus
  <2> HIDE DEF each, promo, day, hours
  <2>10. st.limits \in Seq(S)
    <3>1. FlattenSeq(each) \in Seq(S)
      BY <2>5, FlattenIs
    <3>2. QED
      BY <2>6, <2>8, <3>1, ConcatProperties
  <2>11. st.metrics \in Seq(AnyMetric)
    BY <2>7, <2>9, PositiveIs, ConcatProperties
  <2>12. st.source \in SourceNames
    BY <2>8 DEF SourceNames
  <2>13. QED
    BY <2>8, <2>10, <2>11, <2>12, PlainSound DEF S
<1>3. QED
  BY <1>1, <1>2

LEMMA FetchSound ==
  ASSUME NEW tool \in ToSet(Defaults), NEW e \in Machine(tool), NEW st \in Fetch(tool, e)
  PROVE  Sound(tool, e, st)
<1>1. CASE tool = "codex"
  BY <1>1, CodexSound DEF Fetch
<1>2. CASE tool = "claude"
  BY <1>2, ClaudeSound DEF Fetch
<1>3. CASE tool = "gemini"
  BY <1>3, GeminiSound DEF Fetch
<1>4. CASE tool = "copilot"
  BY <1>4, CopilotSound DEF Fetch
<1>5. CASE tool = "qwen"
  BY <1>5, QwenSound DEF Fetch
<1>6. CASE tool = "openrouter"
  BY <1>6, OpenRouterSound DEF Fetch
<1>7. CASE tool = "cline"
  BY <1>7, ClineSound DEF Fetch
<1>8. CASE tool = "aider"
  BY <1>8, AiderSound DEF Fetch
<1>9. CASE tool = "droid"
  BY <1>9, DroidSound DEF Fetch
<1>10. CASE tool = "opencode"
  BY <1>10, OpenCodeSound DEF Fetch
<1>11. CASE tool = "freebuff"
  BY <1>11, FreebuffSound DEF Fetch
<1>12. QED
  BY <1>1, <1>2, <1>3, <1>4, <1>5, <1>6, <1>7, <1>8, <1>9, <1>10, <1>11, Eleven

(***************************************************************************)
(* The invariant                                                           *)
(***************************************************************************)
Found == [k \in DOMAIN registry |-> Detect(registry[k], setup.before[registry[k]])]
Outcome == [k \in DOMAIN registry |-> Result(k)]

\* Detections and results are there for all adapters or for none, and no view
\* has looked at more results than there are.
Stages ==
  /\ command \in [all: BOOLEAN, single: BOOLEAN]
  /\ setup \in Setups
  /\ detections \in {<<>>, Found}
  /\ results = <<>> \/ (detections = Found /\ results = Outcome)
  /\ at \in [{"json", "dashboard", "doctor", "sources"} -> Nat]
  /\ \A view \in DOMAIN at: at[view] <= Len(results)

\* The list holds what f makes of these places, in their order, and f holds
\* what a list makes of the results.
Filled(list, places, f) ==
  /\ list \in Seq({f[k]: k \in places})
  /\ Len(list) = Cardinality(places)
  /\ \A k \in places: list[Rank(places, k)] = f[k]

InDocument(n) == {k \in 1..n: Kept(results[k]) /\ InTools(results[k])}
OffDocument(n) == {k \in 1..n: Kept(results[k]) /\ InUnavailable(results[k])}
OnScreen(n) == {k \in 1..n: Kept(results[k]) /\ (Exists(results[k].status) \/ ShowErrors)}
Statuses(n) == {k \in 1..n: Kept(results[k]) /\ Exists(results[k].status)}

ToolsMade == [k \in DOMAIN results |-> ToolFromStatus(results[k])]
UnavailableMade == [k \in DOMAIN results |-> ToolFromDetection(results[k])]
BlocksMade ==
  [k \in DOMAIN results |->
     IF Exists(results[k].status) THEN StatusBlock(results[k]) ELSE RenderUnavailable(results[k])]
DoctorMade == [k \in DOMAIN results |-> DoctorBlock(results[k])]
SourcesMade == [k \in DOMAIN results |-> SourcesBlock(results[k])]

Document ==
  /\ Filled(tools, InDocument(at.json), ToolsMade)
  /\ Filled(unavailable, OffDocument(at.json), UnavailableMade)

\* The n-th status of the dashboard is that of the n-th result that has one.
Blocks == {i \in DOMAIN screen: screen[i].shows = "status"}
Aligned(statuses) ==
  /\ IsFiniteSet(Blocks) /\ Cardinality(Blocks) = Cardinality(statuses)
  /\ \A i \in Blocks: \E k \in statuses:
       Rank(statuses, k) = Rank(Blocks, i) /\ screen[i] = StatusBlock(results[k])
Dashboard ==
  /\ Filled(screen, OnScreen(at.dashboard), BlocksMade)
  /\ Aligned(Statuses(at.dashboard))

Follows(list, n, f) == list \in Seq({f[k]: k \in 1..n}) /\ Len(list) = n /\ \A k \in 1..n: list[k] = f[k]
Views ==
  /\ Follows(diagnosis, at.doctor, DoctorMade)
  /\ Follows(provenance, at.sources, SourcesMade)

Inv == Stages /\ Document /\ Dashboard /\ Views

(***************************************************************************)
(* Places                                                                  *)
(***************************************************************************)
LEMMA RankIs ==
  ASSUME NEW n \in Nat, NEW places, places \subseteq 1..n
  PROVE  /\ IsFiniteSet(places) /\ Cardinality(places) \in Nat
         /\ \A k \in places: Rank(places, k) \in 1..Cardinality(places)
<1>1. IsFiniteSet(1..n)
  BY FS_Interval
<1>2. IsFiniteSet(places) /\ Cardinality(places) \in Nat
  BY <1>1, FS_Subset, FS_CardinalityType
<1>3. \A k \in places: Rank(places, k) \in 1..Cardinality(places)
  <2> TAKE k \in places
  <2> DEFINE upTo == {i \in places: i <= k}
  <2>1. upTo \subseteq places /\ k \in upTo
    OBVIOUS
  <2> HIDE DEF upTo
  <2>2. IsFiniteSet(upTo) /\ Cardinality(upTo) \in Nat /\ Cardinality(upTo) <= Cardinality(places)
    BY <1>2, <2>1, FS_Subset, FS_CardinalityType
  <2>3. Cardinality(upTo) # 0
    BY <2>1, <2>2, FS_EmptySet
  <2>4. QED
    BY <1>2, <2>2, <2>3 DEF Rank, upTo
<1>4. QED
  BY <1>2, <1>3

\* A place after all others has the last rank and does not change theirs.
LEMMA RankNext ==
  ASSUME NEW n \in Nat, NEW places, places \subseteq 1..n
  PROVE  LET more == places \cup {n + 1}
         IN  /\ IsFiniteSet(more) /\ Cardinality(more) = Cardinality(places) + 1
             /\ Rank(more, n + 1) = Cardinality(places) + 1
             /\ \A k \in places: Rank(more, k) = Rank(places, k)
<1> DEFINE more == places \cup {n + 1}
<1>1. IsFiniteSet(places) /\ n + 1 \notin places
  <2>1. n + 1 \notin places
    OBVIOUS
  <2>2. QED
    BY <2>1, RankIs
<1>2. IsFiniteSet(more) /\ Cardinality(more) = Cardinality(places) + 1
  BY <1>1, FS_AddElement
<1>3. {i \in more: i <= n + 1} = more
  <2>1. \A i \in more: i <= n + 1
    OBVIOUS
  <2> HIDE DEF more
  <2>2. QED
    BY <2>1
<1>4. \A k \in places: {i \in more: i <= k} = {i \in places: i <= k}
  OBVIOUS
<1>5. Rank(more, n + 1) = Cardinality(places) + 1
  BY <1>2, <1>3 DEF Rank
<1>6. \A k \in places: Rank(more, k) = Rank(places, k)
  BY <1>4 DEF Rank
<1>7. QED
  BY <1>2, <1>5, <1>6

LEMMA FilledNone == ASSUME NEW f PROVE Filled(<<>>, {}, f)
BY FS_EmptySet DEF Filled

LEMMA FilledNext ==
  ASSUME NEW n \in Nat, NEW places, places \subseteq 1..n, NEW f, NEW list, Filled(list, places, f)
  PROVE  Filled(Append(list, f[n + 1]), places \cup {n + 1}, f)
<1> DEFINE more == places \cup {n + 1}
           c == Cardinality(places)
           S == {f[k]: k \in more}
           T == {f[k]: k \in places}
           longer == Append(list, f[n + 1])
<1>1. /\ c \in Nat /\ \A k \in places: Rank(places, k) \in 1..c
  BY RankIs
<1>2. /\ Cardinality(more) = c + 1 /\ Rank(more, n + 1) = c + 1
      /\ \A k \in places: Rank(more, k) = Rank(places, k)
  BY RankNext
<1>3. list \in Seq(S) /\ f[n + 1] \in S /\ Len(list) = c
  <2>1. T \subseteq S
    OBVIOUS
  <2>2. list \in Seq(T) /\ Len(list) = c
    BY DEF Filled
  <2> HIDE DEF S, T
  <2>3. list \in Seq(S)
    BY <2>1, <2>2
  <2>4. QED
    BY <2>2, <2>3 DEF S
<1>4. \A k \in places: list[Rank(places, k)] = f[k]
  BY DEF Filled
<1> HIDE DEF S, c, more
<1>5. /\ longer \in Seq(S) /\ Len(longer) = c + 1 /\ longer[c + 1] = f[n + 1]
      /\ \A i \in 1..c: longer[i] = list[i]
  BY <1>3, AppendProperties
<1>6. \A k \in more: longer[Rank(more, k)] = f[k]
  <2> TAKE k \in more
  <2>1. CASE k = n + 1
    BY <1>2, <1>5, <2>1
  <2>2. CASE k # n + 1
    BY <1>1, <1>2, <1>4, <1>5, <2>2 DEF more
  <2>3. QED
    BY <2>1, <2>2
<1>7. longer \in Seq({f[k]: k \in more})
  BY <1>5 DEF S
<1>8. QED
  BY <1>2, <1>5, <1>6, <1>7 DEF Filled, more

LEMMA FollowsNext ==
  ASSUME NEW n \in Nat, NEW f, NEW list, Follows(list, n, f)
  PROVE  Follows(Append(list, f[n + 1]), n + 1, f)
<1> DEFINE S == {f[k]: k \in 1..(n + 1)}
           T == {f[k]: k \in 1..n}
           longer == Append(list, f[n + 1])
<1>1. list \in Seq(S) /\ f[n + 1] \in S /\ Len(list) = n
  <2>1. T \subseteq S /\ f[n + 1] \in S
    OBVIOUS
  <2>2. list \in Seq(T) /\ Len(list) = n
    BY DEF Follows
  <2> HIDE DEF S, T
  <2>3. list \in Seq(S)
    BY <2>1, <2>2
  <2>4. QED
    BY <2>1, <2>2, <2>3
<1>2. \A k \in 1..n: list[k] = f[k]
  BY DEF Follows
<1> HIDE DEF S
<1>3. /\ longer \in Seq(S) /\ Len(longer) = n + 1 /\ longer[n + 1] = f[n + 1]
      /\ \A i \in 1..n: longer[i] = list[i]
  BY <1>1, AppendProperties
<1>4. \A k \in 1..(n + 1): longer[k] = f[k]
  BY <1>2, <1>3
<1>5. QED
  BY <1>3, <1>4 DEF Follows, S

(***************************************************************************)
(* The stages                                                              *)
(***************************************************************************)
LEMMA SetupIs ==
  ASSUME setup \in Setups
  PROVE  /\ registry \in Seq(ToSet(Defaults)) /\ Len(registry) \in Nat
         /\ DOMAIN registry = 1..Len(registry)
         /\ \A j, k \in DOMAIN registry: registry[j] = registry[k] => j = k
         /\ \A k \in DOMAIN registry:
              /\ registry[k] \in ToSet(Defaults)
              /\ setup.before[registry[k]] \in Machine(registry[k])
              /\ setup.after[registry[k]] \in Machine(registry[k])
<1>1. /\ registry \in Seq(ToSet(Defaults)) /\ IsInjective(registry)
      /\ \A tool \in ToSet(registry): setup.before[tool] \in Machine(tool) /\ setup.after[tool] \in Machine(tool)
  BY SetupsAssumption DEF registry
<1>2. \A k \in DOMAIN registry: registry[k] \in ToSet(registry)
  BY DEF ToSet
<1>3. Len(registry) \in Nat /\ DOMAIN registry = 1..Len(registry)
  BY <1>1
<1>4. \A k \in DOMAIN registry: registry[k] \in ToSet(Defaults)
  BY <1>1
<1>5. \A j, k \in DOMAIN registry: registry[j] = registry[k] => j = k
  BY <1>1 DEF IsInjective
<1>6. QED
  BY <1>1, <1>2, <1>3, <1>4, <1>5

LEMMA LenIs ==
  ASSUME NEW n \in Nat, NEW f, DOMAIN f = 1..n, f = [k \in 1..n |-> f[k]]
  PROVE  f \in Seq({f[k]: k \in 1..n}) /\ Len(f) = n
<1> DEFINE S == {f[k]: k \in 1..n}
<1>1. \A k \in 1..n: f[k] \in S
  OBVIOUS
<1> HIDE DEF S
<1>2. f \in [1..n -> S]
  BY <1>1
<1>3. QED
  BY <1>2 DEF S

LEMMA LengthsAre ==
  ASSUME setup \in Setups
  PROVE  Len(Found) = Len(registry) /\ Len(Outcome) = Len(registry)
<1> DEFINE n == Len(registry)
<1>1. n \in Nat /\ DOMAIN registry = 1..n
  BY SetupIs
<1>2. DOMAIN Found = 1..n /\ Found = [k \in 1..n |-> Found[k]]
  BY <1>1 DEF Found
<1>3. DOMAIN Outcome = 1..n /\ Outcome = [k \in 1..n |-> Outcome[k]]
  BY <1>1 DEF Outcome
<1> HIDE DEF n
<1>4. Len(Found) = n /\ Len(Outcome) = n
  BY <1>1, <1>2, <1>3, LenIs
<1>5. QED
  BY <1>4 DEF n

LEMMA StagesInit == Init => Stages
<1> SUFFICES ASSUME Init PROVE Stages
  OBVIOUS
<1>1. /\ command \in [all: BOOLEAN, single: BOOLEAN] /\ setup \in Setups
      /\ detections = <<>> /\ results = <<>>
  BY DEF Init
<1>2. /\ at = [json |-> 0, dashboard |-> 0, doctor |-> 0, sources |-> 0]
  BY DEF Init
<1>3. /\ at \in [{"json", "dashboard", "doctor", "sources"} -> Nat]
      /\ \A view \in DOMAIN at: at[view] = 0
  BY <1>2
<1>4. Len(results) = 0
  BY <1>1
<1>5. QED
  BY <1>1, <1>3, <1>4 DEF Stages

LEMMA StagesDetect == Stages /\ DetectAll => Stages' /\ UNCHANGED results
<1> SUFFICES ASSUME Stages, DetectAll PROVE Stages' /\ UNCHANGED results
  OBVIOUS
<1>1. setup \in Setups /\ detections = <<>> /\ results = <<>>
  <2>1. setup \in Setups /\ (detections = Found \/ (detections = <<>> /\ results = <<>>))
    BY DEF Stages
  <2>2. Len(detections) < Len(registry)
    BY DEF DetectAll
  <2>3. detections # Found
    BY <2>1, <2>2, LengthsAre, SetupIs
  <2>4. QED
    BY <2>1, <2>3
<1>2. detections' = Found' /\ UNCHANGED <<command, setup, results, at>>
  BY DEF DetectAll, Found, registry, views
<1>3. QED
  BY <1>1, <1>2 DEF Stages

LEMMA StagesCollect == Stages /\ Collect => Stages' /\ results = <<>> /\ \A view \in DOMAIN at: at[view] = 0
<1> SUFFICES ASSUME Stages, Collect
             PROVE  Stages' /\ results = <<>> /\ \A view \in DOMAIN at: at[view] = 0
  OBVIOUS
<1>1. setup \in Setups /\ Len(registry) \in Nat
  BY SetupIs DEF Stages
<1>2. Len(detections) = Len(registry) /\ Len(results) < Len(registry)
  BY DEF Collect
<1>3. results = <<>>
  <2>1. results = <<>> \/ results = Outcome
    BY DEF Stages
  <2>2. QED
    BY <1>1, <1>2, <2>1, LengthsAre
<1>4. detections = Found
  <2>1. Len(detections) # 0
    BY <1>1, <1>2, <1>3
  <2>2. QED
    BY <2>1 DEF Stages
<1>5. results' = Outcome' /\ UNCHANGED <<command, setup, detections, at>>
  BY DEF Collect, Outcome, Result, registry, views
<1>6. Found' = Found
  BY <1>5 DEF Found, registry
<1>7. \A view \in DOMAIN at: at[view] = 0
  <2>1. Len(results) = 0
    BY <1>3
  <2>2. \A view \in DOMAIN at: at[view] \in Nat /\ at[view] <= Len(results)
    BY DEF Stages
  <2>3. QED
    BY <2>1, <2>2
<1>8. Len(results') \in Nat
  <2>1. Outcome' = Outcome
    BY <1>5 DEF Outcome, Result, registry
  <2>2. QED
    BY <1>1, <1>5, <2>1, LengthsAre
<1>9. QED
  BY <1>3, <1>4, <1>5, <1>6, <1>7, <1>8 DEF Stages

LEMMA ResultsAre ==
  ASSUME Stages
  PROVE  /\ Len(results) \in Nat /\ DOMAIN results = 1..Len(results)
         /\ DOMAIN results \subseteq DOMAIN registry
<1>1. setup \in Setups /\ Len(registry) \in Nat /\ DOMAIN registry = 1..Len(registry)
  BY SetupIs DEF Stages
<1>2. CASE results = <<>>
  BY <1>2
<1>3. CASE results = Outcome
  <2>1. DOMAIN Outcome = DOMAIN registry /\ Len(Outcome) = Len(registry)
    BY <1>1, LengthsAre DEF Outcome
  <2>2. QED
    BY <1>1, <1>3, <2>1
<1>4. QED
  BY <1>2, <1>3 DEF Stages

\* What a view does to the stages.
LEMMA StagesLooks ==
  ASSUME Stages, NEW view \in {"json", "dashboard", "doctor", "sources"}, NEW earlier,
         Looks(view, earlier)
  PROVE  /\ Stages' /\ UNCHANGED <<command, setup, detections, results>>
         /\ at'[view] = at[view] + 1 /\ at[view] \in Nat /\ at[view] + 1 \in DOMAIN results
         /\ \A other \in DOMAIN at: other # view => at'[other] = at[other]
<1>1. /\ at' = [at EXCEPT ![view] = @ + 1] /\ UNCHANGED <<command, setup, detections, results>>
      /\ at[view] # Len(results)
  BY DEF Looks, Done
<1>2. /\ at \in [{"json", "dashboard", "doctor", "sources"} -> Nat] /\ at[view] <= Len(results)
      /\ \A v \in DOMAIN at: at[v] <= Len(results)
  BY DEF Stages
<1>3. Len(results) \in Nat /\ DOMAIN results = 1..Len(results)
  BY ResultsAre
<1>4. at[view] \in Nat /\ at[view] + 1 \in DOMAIN results /\ at[view] + 1 <= Len(results)
  BY <1>1, <1>2, <1>3
<1>5. /\ at' \in [{"json", "dashboard", "doctor", "sources"} -> Nat]
      /\ at'[view] = at[view] + 1 /\ \A other \in DOMAIN at: other # view => at'[other] = at[other]
  BY <1>1, <1>2, <1>4
<1>6. \A v \in DOMAIN at': at'[v] <= Len(results)
  BY <1>2, <1>4, <1>5
<1>7. Found' = Found /\ Outcome' = Outcome
  BY <1>1 DEF Found, Outcome, Result, registry
<1>8. Stages'
  BY <1>1, <1>5, <1>6, <1>7 DEF Stages
<1>9. QED
  BY <1>1, <1>4, <1>5, <1>8

\* What is known of a result.
LEMMA ResultIs ==
  ASSUME Stages, NEW k \in DOMAIN results
  PROVE  /\ k \in DOMAIN registry /\ results[k].tool = registry[k]
         /\ Tells(results[k].detection)
         /\ results[k].status \subseteq Fetch(registry[k], setup.after[registry[k]])
         /\ Exists(results[k].status) => Available(results[k].detection)
         /\ Available(results[k].detection) =>
              results[k].status = Fetch(registry[k], setup.after[registry[k]])
         /\ results[k].failed <=> Available(results[k].detection) /\ ~Exists(results[k].status)
         /\ \A st \in results[k].status: Sound(registry[k], setup.after[registry[k]], st)
<1> DEFINE tool == registry[k]
           r == results[k]
           d == detections[k]
           fetches == Available(d)
           status == IF fetches THEN Fetch(tool, setup.after[tool]) ELSE {}
           failed == fetches /\ ~Exists(status)
<1>1. setup \in Setups /\ results # <<>> /\ results = Outcome /\ detections = Found
  BY DEF Stages
<1>2. k \in DOMAIN registry
  BY ResultsAre
<1>3. /\ tool \in ToSet(Defaults) /\ setup.before[tool] \in Machine(tool) /\ setup.after[tool] \in Machine(tool)
  BY <1>1, <1>2, SetupIs
<1>4. r = [tool |-> tool, detection |-> d, status |-> status, failed |-> failed]
  BY <1>1, <1>2 DEF Outcome, Result
<1>5. d = Detect(tool, setup.before[tool])
  BY <1>1, <1>2 DEF Found
<1>6. Tells(d)
  BY <1>3, <1>5, DetectTells
<1>7. \A st \in status: Sound(tool, setup.after[tool], st)
  BY <1>3, FetchSound
<1>8. /\ status \subseteq Fetch(tool, setup.after[tool]) /\ (Exists(status) => fetches)
      /\ (fetches => status = Fetch(tool, setup.after[tool]))
  BY DEF Exists
<1>9. failed \in BOOLEAN /\ (failed <=> fetches /\ ~Exists(status))
  BY DEF Available, Exists
<1> HIDE DEF status, failed, fetches, d
<1>10. r.tool = tool /\ r.detection = d /\ r.status = status /\ r.failed = failed
  BY <1>4
<1>11. QED
  BY <1>2, <1>6, <1>7, <1>8, <1>9, <1>10 DEF fetches

(***************************************************************************)
(* The views                                                               *)
(***************************************************************************)
LEMMA InvInit == Init => Inv
<1> SUFFICES ASSUME Init PROVE Inv
  OBVIOUS
<1>1. /\ at = [json |-> 0, dashboard |-> 0, doctor |-> 0, sources |-> 0]
      /\ tools = <<>> /\ unavailable = <<>> /\ screen = <<>>
      /\ diagnosis = <<>> /\ provenance = <<>>
  BY DEF Init
<1>2. at.json = 0 /\ at.dashboard = 0 /\ at.doctor = 0 /\ at.sources = 0
  BY <1>1
<1>3. InDocument(0) = {} /\ OffDocument(0) = {} /\ OnScreen(0) = {} /\ Statuses(0) = {}
  BY DEF InDocument, OffDocument, OnScreen, Statuses
<1>4. Document
  BY <1>1, <1>2, <1>3, FilledNone DEF Document
<1>5. Blocks = {}
  BY <1>1 DEF Blocks
<1>6. Dashboard
  BY <1>1, <1>2, <1>3, <1>5, FilledNone, FS_EmptySet DEF Dashboard, Aligned
<1>7. Views
  BY <1>1, <1>2 DEF Views, Follows
<1>8. QED
  BY <1>4, <1>6, <1>7, StagesInit DEF Inv

\* Nothing that a view made changes with what it is made from.
LEMMA MadeSame ==
  ASSUME UNCHANGED <<command, results>>
  PROVE  /\ UNCHANGED <<ToolsMade, UnavailableMade, BlocksMade, DoctorMade, SourcesMade>>
         /\ \A n: /\ InDocument(n)' = InDocument(n) /\ OffDocument(n)' = OffDocument(n)
                  /\ OnScreen(n)' = OnScreen(n) /\ Statuses(n)' = Statuses(n)
<1>1. UNCHANGED <<ToolsMade, UnavailableMade>>
  BY DEF ToolsMade, UnavailableMade
<1>2. UNCHANGED BlocksMade
  BY DEF BlocksMade, StatusBlock, RenderUnavailable, ShowErrors
<1>3. UNCHANGED <<DoctorMade, SourcesMade>>
  BY DEF DoctorMade, SourcesMade, DoctorBlock, Column
<1>4. ASSUME NEW n
      PROVE  /\ InDocument(n)' = InDocument(n) /\ OffDocument(n)' = OffDocument(n)
             /\ OnScreen(n)' = OnScreen(n) /\ Statuses(n)' = Statuses(n)
  BY DEF InDocument, OffDocument, OnScreen, Statuses, Kept, InTools, InUnavailable, ShowErrors
<1>5. QED
  BY <1>1, <1>2, <1>3, <1>4

LEMMA AtIs == ASSUME Stages
              PROVE  at.json \in Nat /\ at.dashboard \in Nat /\ at.doctor \in Nat /\ at.sources \in Nat
BY DEF Stages

LEMMA DocumentSame ==
  ASSUME Document, UNCHANGED <<command, results, tools, unavailable>>, at'.json = at.json
  PROVE  Document'
BY MadeSame DEF Document, Filled, Rank

LEMMA DashboardSame ==
  ASSUME Dashboard, UNCHANGED <<command, results, screen>>, at'.dashboard = at.dashboard
  PROVE  Dashboard'
<1>1. Blocks' = Blocks
  BY DEF Blocks
<1>2. \A k: StatusBlock(results[k])' = StatusBlock(results[k])
  BY DEF StatusBlock, ShowErrors
<1>3. Filled(screen, OnScreen(at.dashboard), BlocksMade)'
  BY MadeSame DEF Dashboard, Filled, Rank
<1> DEFINE n == at.dashboard
<1>4. Statuses(n)' = Statuses(n) /\ n' = n
  BY MadeSame
<1>5. Aligned(Statuses(n))'
  <2>1. \A k: Rank(Statuses(n), k)' = Rank(Statuses(n), k) /\ Rank(Blocks, k)' = Rank(Blocks, k)
    BY <1>1, <1>4 DEF Rank
  <2>2. Aligned(Statuses(n))
    BY DEF Dashboard
  <2> HIDE DEF n
  <2>3. QED
    BY <1>1, <1>2, <1>4, <2>1, <2>2 DEF Aligned
<1>6. QED
  BY <1>3, <1>5 DEF Dashboard

LEMMA ViewsSame ==
  ASSUME Views, UNCHANGED <<command, results, diagnosis, provenance>>,
         at'.doctor = at.doctor, at'.sources = at.sources
  PROVE  Views'
BY MadeSame DEF Views, Follows

LEMMA DetectKeeps == Inv /\ DetectAll => Inv'
<1> SUFFICES ASSUME Inv, DetectAll PROVE Inv'
  OBVIOUS
<1>1. Stages' /\ UNCHANGED results
  BY StagesDetect DEF Inv
<1>2. UNCHANGED <<command, at, tools, unavailable, screen, diagnosis, provenance>>
  BY DEF DetectAll, views
<1>3. QED
  BY <1>1, <1>2, DocumentSame, DashboardSame, ViewsSame DEF Inv

\* Until then no view has looked at a result.
LEMMA CollectKeeps == Inv /\ Collect => Inv'
<1> SUFFICES ASSUME Inv, Collect PROVE Inv'
  OBVIOUS
<1>1. Stages' /\ \A view \in DOMAIN at: at[view] = 0
  BY StagesCollect DEF Inv
<1>2. UNCHANGED <<command, at, tools, unavailable, screen, diagnosis, provenance>>
  BY DEF Collect, views
<1>3. at.json = 0 /\ at.dashboard = 0 /\ at.doctor = 0 /\ at.sources = 0
  <2>1. DOMAIN at = {"json", "dashboard", "doctor", "sources"}
    BY DEF Inv, Stages
  <2>2. QED
    BY <1>1, <2>1
<1>4. /\ InDocument(0) = {} /\ OffDocument(0) = {} /\ OnScreen(0) = {} /\ Statuses(0) = {}
      /\ InDocument(0)' = {} /\ OffDocument(0)' = {} /\ OnScreen(0)' = {} /\ Statuses(0)' = {}
  BY DEF InDocument, OffDocument, OnScreen, Statuses
<1>5. Document'
  <2>1. Filled(tools, {}, ToolsMade) /\ Filled(unavailable, {}, UnavailableMade)
    BY <1>3, <1>4 DEF Inv, Document
  <2>2. tools = <<>> /\ unavailable = <<>>
    BY <2>1, FS_EmptySet DEF Filled
  <2>3. QED
    BY <1>2, <1>3, <1>4, <2>2, FilledNone DEF Document
<1>6. Dashboard'
  <2>1. Filled(screen, {}, BlocksMade)
    BY <1>3, <1>4 DEF Inv, Dashboard
  <2>2. screen = <<>>
    BY <2>1, FS_EmptySet DEF Filled
  <2>3. Blocks' = {}
    BY <1>2, <2>2 DEF Blocks
  <2>4. QED
    BY <1>2, <1>3, <1>4, <2>2, <2>3, FilledNone, FS_EmptySet DEF Dashboard, Aligned
<1>7. Views'
  <2>1. diagnosis = <<>> /\ provenance = <<>>
    BY <1>3 DEF Inv, Views, Follows
  <2>2. QED
    BY <1>2, <1>3, <2>1 DEF Views, Follows
<1>8. QED
  BY <1>1, <1>5, <1>6, <1>7 DEF Inv

LEMMA ListKeeps == Inv /\ ListResult => Inv'
<1> SUFFICES ASSUME Inv, ListResult PROVE Inv'
  OBVIOUS
<1> DEFINE n == at.json
           r == results[n + 1]
<1>1. /\ Stages' /\ UNCHANGED <<command, setup, detections, results>>
      /\ at'.json = n + 1 /\ n \in Nat /\ n + 1 \in DOMAIN results
      /\ at'.dashboard = at.dashboard /\ at'.doctor = at.doctor /\ at'.sources = at.sources
  <2>1. Looks("json", {}) /\ Stages
    BY DEF ListResult, Inv
  <2>2. DOMAIN at = {"json", "dashboard", "doctor", "sources"}
    BY <2>1 DEF Stages
  <2>3. QED
    BY <2>1, <2>2, StagesLooks
<1>2. /\ tools' = IF Kept(r) /\ InTools(r) THEN Append(tools, ToolFromStatus(r)) ELSE tools
      /\ unavailable' = IF Kept(r) /\ InUnavailable(r)
                        THEN Append(unavailable, ToolFromDetection(r)) ELSE unavailable
      /\ UNCHANGED <<screen, diagnosis, provenance>>
  BY DEF ListResult
<1> HIDE DEF n, r
<1>3. ToolsMade[n + 1] = ToolFromStatus(r) /\ UnavailableMade[n + 1] = ToolFromDetection(r)
  BY <1>1 DEF ToolsMade, UnavailableMade, r
<1>4. Filled(tools', InDocument(n + 1), ToolsMade)
  <2>1. Filled(tools, InDocument(n), ToolsMade) /\ InDocument(n) \subseteq 1..n
    BY DEF Inv, Document, InDocument, n
  <2>2. CASE Kept(r) /\ InTools(r)
    <3>1. InDocument(n + 1) = InDocument(n) \cup {n + 1}
      BY <1>1, <2>2 DEF InDocument, r
    <3>2. QED
      BY <1>1, <1>2, <1>3, <2>1, <2>2, <3>1, FilledNext
  <2>3. CASE ~(Kept(r) /\ InTools(r))
    <3>1. InDocument(n + 1) = InDocument(n)
      BY <1>1, <2>3 DEF InDocument, r
    <3>2. QED
      BY <1>2, <2>1, <2>3, <3>1
  <2>4. QED
    BY <2>2, <2>3
<1>5. Filled(unavailable', OffDocument(n + 1), UnavailableMade)
  <2>1. Filled(unavailable, OffDocument(n), UnavailableMade) /\ OffDocument(n) \subseteq 1..n
    BY DEF Inv, Document, OffDocument, n
  <2>2. CASE Kept(r) /\ InUnavailable(r)
    <3>1. OffDocument(n + 1) = OffDocument(n) \cup {n + 1}
      BY <1>1, <2>2 DEF OffDocument, r
    <3>2. QED
      BY <1>1, <1>2, <1>3, <2>1, <2>2, <3>1, FilledNext
  <2>3. CASE ~(Kept(r) /\ InUnavailable(r))
    <3>1. OffDocument(n + 1) = OffDocument(n)
      BY <1>1, <2>3 DEF OffDocument, r
    <3>2. QED
      BY <1>2, <2>1, <2>3, <3>1
  <2>4. QED
    BY <2>2, <2>3
<1>6. Document'
  BY <1>1, <1>4, <1>5, MadeSame DEF Document
<1>7. Dashboard' /\ Views'
  BY <1>1, <1>2, DashboardSame, ViewsSame DEF Inv
<1>8. QED
  BY <1>1, <1>6, <1>7 DEF Inv

LEMMA DiagnoseKeeps == Inv /\ DiagnoseResult => Inv'
<1> SUFFICES ASSUME Inv, DiagnoseResult PROVE Inv'
  OBVIOUS
<1> DEFINE n == at.doctor
<1>1. /\ Stages' /\ UNCHANGED <<command, setup, detections, results>>
      /\ at'.doctor = n + 1 /\ n \in Nat /\ n + 1 \in DOMAIN results
      /\ at'.json = at.json /\ at'.dashboard = at.dashboard /\ at'.sources = at.sources
  <2>1. Looks("doctor", {"json", "dashboard"}) /\ Stages
    BY DEF DiagnoseResult, Inv
  <2>2. DOMAIN at = {"json", "dashboard", "doctor", "sources"}
    BY <2>1 DEF Stages
  <2>3. QED
    BY <2>1, <2>2, StagesLooks
<1>2. /\ diagnosis' = Append(diagnosis, DoctorBlock(results[n + 1]))
      /\ UNCHANGED <<tools, unavailable, screen, provenance>>
  BY DEF DiagnoseResult
<1>3. Follows(diagnosis, n, DoctorMade) /\ Follows(provenance, at.sources, SourcesMade)
  BY DEF Inv, Views
<1> HIDE DEF n
<1>4. DoctorMade[n + 1] = DoctorBlock(results[n + 1])
  BY <1>1 DEF DoctorMade
<1>5. Follows(diagnosis', n + 1, DoctorMade)
  BY <1>1, <1>2, <1>3, <1>4, FollowsNext
<1>6. Views'
  BY <1>1, <1>2, <1>3, <1>5, MadeSame DEF Views
<1>7. Document' /\ Dashboard'
  BY <1>1, <1>2, DocumentSame, DashboardSame DEF Inv
<1>8. QED
  BY <1>1, <1>6, <1>7 DEF Inv

LEMMA TraceKeeps == Inv /\ TraceResult => Inv'
<1> SUFFICES ASSUME Inv, TraceResult PROVE Inv'
  OBVIOUS
<1> DEFINE n == at.sources
<1>1. /\ Stages' /\ UNCHANGED <<command, setup, detections, results>>
      /\ at'.sources = n + 1 /\ n \in Nat /\ n + 1 \in DOMAIN results
      /\ at'.json = at.json /\ at'.dashboard = at.dashboard /\ at'.doctor = at.doctor
  <2>1. Looks("sources", {"json", "dashboard", "doctor"}) /\ Stages
    BY DEF TraceResult, Inv
  <2>2. DOMAIN at = {"json", "dashboard", "doctor", "sources"}
    BY <2>1 DEF Stages
  <2>3. QED
    BY <2>1, <2>2, StagesLooks
<1>2. /\ provenance' = Append(provenance, SourcesBlock(results[n + 1]))
      /\ UNCHANGED <<tools, unavailable, screen, diagnosis>>
  BY DEF TraceResult
<1>3. Follows(provenance, n, SourcesMade) /\ Follows(diagnosis, at.doctor, DoctorMade)
  BY DEF Inv, Views
<1> HIDE DEF n
<1>4. SourcesMade[n + 1] = SourcesBlock(results[n + 1])
  BY <1>1 DEF SourcesMade
<1>5. Follows(provenance', n + 1, SourcesMade)
  BY <1>1, <1>2, <1>3, <1>4, FollowsNext
<1>6. Views'
  BY <1>1, <1>2, <1>3, <1>5, MadeSame DEF Views
<1>7. Document' /\ Dashboard'
  BY <1>1, <1>2, DocumentSame, DashboardSame DEF Inv
<1>8. QED
  BY <1>1, <1>6, <1>7 DEF Inv

LEMMA AppendIs ==
  ASSUME NEW S, NEW list \in Seq(S), NEW x
  PROVE  /\ Len(list) \in Nat /\ DOMAIN list = 1..Len(list)
         /\ DOMAIN Append(list, x) = 1..(Len(list) + 1)
         /\ Append(list, x)[Len(list) + 1] = x
         /\ \A i \in 1..Len(list): Append(list, x)[i] = list[i]
<1> DEFINE T == S \cup {x}
<1>1. S \subseteq T /\ x \in T
  OBVIOUS
<1> HIDE DEF T
<1>2. list \in Seq(T)
  BY <1>1
<1>3. QED
  BY <1>1, <1>2, AppendProperties

LEMMA DrawKeeps == Inv /\ DrawResult => Inv'
<1> SUFFICES ASSUME Inv, DrawResult PROVE Inv'
  OBVIOUS
<1>13. PICK n: n = at.dashboard
  OBVIOUS
<1>14. PICK r: r = results[n + 1]
  OBVIOUS
<1>15. PICK m: m = Len(screen)
  OBVIOUS
<1>1. /\ Stages' /\ UNCHANGED <<command, setup, detections, results>>
      /\ at'.dashboard = n + 1 /\ n \in Nat /\ n + 1 \in DOMAIN results
      /\ at'.json = at.json /\ at'.doctor = at.doctor /\ at'.sources = at.sources
  <2>1. Looks("dashboard", {"json"}) /\ Stages
    BY DEF DrawResult, Inv
  <2>2. DOMAIN at = {"json", "dashboard", "doctor", "sources"}
    BY <2>1 DEF Stages
  <2>3. QED
    BY <1>13, <2>1, <2>2, StagesLooks
<1>2. /\ screen' = IF Kept(r) /\ Exists(r.status) THEN Append(screen, StatusBlock(r))
                   ELSE IF Kept(r) /\ ShowErrors THEN Append(screen, RenderUnavailable(r))
                   ELSE screen
      /\ UNCHANGED <<tools, unavailable, diagnosis, provenance>>
  BY <1>13, <1>14 DEF DrawResult
<1>3. /\ Filled(screen, OnScreen(n), BlocksMade) /\ OnScreen(n) \subseteq 1..n
      /\ Statuses(n) \subseteq 1..n /\ Aligned(Statuses(n))
  BY <1>13 DEF Inv, Dashboard, OnScreen, Statuses
<1>4. /\ m \in Nat /\ DOMAIN screen = 1..m
      /\ \A x: /\ DOMAIN Append(screen, x) = 1..(m + 1) /\ Append(screen, x)[m + 1] = x
               /\ \A i \in 1..m: Append(screen, x)[i] = screen[i]
  BY <1>3, <1>15, AppendIs DEF Filled
<1>5. Blocks \subseteq 1..m
  BY <1>4 DEF Blocks
<1>6. /\ BlocksMade[n + 1] = IF Exists(r.status) THEN StatusBlock(r) ELSE RenderUnavailable(r)
      /\ StatusBlock(r).shows = "status" /\ RenderUnavailable(r).shows # "status"
  <2>1. BlocksMade[n + 1] = IF Exists(r.status) THEN StatusBlock(r) ELSE RenderUnavailable(r)
    BY <1>1, <1>14 DEF BlocksMade
  <2>2. StatusBlock(r).shows = "status"
    BY DEF StatusBlock
  <2>3. RenderUnavailable(r).shows \in {"error", "unavailable"}
    BY DEF RenderUnavailable
  <2>4. QED
    BY <2>1, <2>2, <2>3
<1>7. \A k \in 1..n: StatusBlock(results[k])' = StatusBlock(results[k])
  BY <1>1 DEF StatusBlock, ShowErrors
<1>8. ASSUME Kept(r) /\ Exists(r.status) PROVE Dashboard'
  <2>1. /\ OnScreen(n + 1) = OnScreen(n) \cup {n + 1}
        /\ Statuses(n + 1) = Statuses(n) \cup {n + 1}
    BY <1>1, <1>14, <1>8 DEF OnScreen, Statuses
  <2>2. screen' = Append(screen, StatusBlock(r)) /\ BlocksMade[n + 1] = StatusBlock(r)
    BY <1>2, <1>6, <1>8
  <2>3. Filled(screen', OnScreen(n + 1), BlocksMade)
    BY <1>1, <1>3, <2>1, <2>2, FilledNext
  <2>4. /\ DOMAIN screen' = 1..(m + 1) /\ screen'[m + 1] = StatusBlock(r)
        /\ \A i \in 1..m: screen'[i] = screen[i]
    BY <1>4, <2>2
  <2>5. Blocks' = Blocks \cup {m + 1}
    <3>1. \A i \in 1..(m + 1): i = m + 1 \/ i \in 1..m
      BY <1>4
    <3>2. QED
      BY <1>4, <1>6, <2>4, <3>1 DEF Blocks
  <2>6. /\ IsFiniteSet(Blocks') /\ Cardinality(Blocks') = Cardinality(Blocks) + 1
        /\ Rank(Blocks', m + 1) = Cardinality(Blocks) + 1
        /\ \A i \in Blocks: Rank(Blocks', i) = Rank(Blocks, i)
    BY <1>4, <1>5, <2>5, RankNext
  <2>7. /\ Cardinality(Statuses(n + 1)) = Cardinality(Statuses(n)) + 1
        /\ Rank(Statuses(n + 1), n + 1) = Cardinality(Statuses(n)) + 1
        /\ \A k \in Statuses(n): Rank(Statuses(n + 1), k) = Rank(Statuses(n), k)
    <3> DEFINE places == Statuses(n)
    <3>1. places \subseteq 1..n /\ Statuses(n + 1) = places \cup {n + 1}
      BY <1>3, <2>1
    <3> HIDE DEF places
    <3> DEFINE more == places \cup {n + 1}
    <3>2. /\ Cardinality(more) = Cardinality(places) + 1
          /\ Rank(more, n + 1) = Cardinality(places) + 1
          /\ \A k \in places: Rank(more, k) = Rank(places, k)
      BY <1>1, <3>1, RankNext
    <3> HIDE DEF more
    <3>3. QED
      BY <3>1, <3>2 DEF places, more
  <2>8. Cardinality(Blocks) = Cardinality(Statuses(n))
    BY <1>3 DEF Aligned
  <2>9. StatusBlock(r)' = StatusBlock(results[n + 1])' /\ StatusBlock(results[n + 1])' = StatusBlock(r)
    BY <1>1, <1>14 DEF StatusBlock, ShowErrors
  <2>10. ASSUME NEW i \in Blocks'
         PROVE  \E k \in Statuses(n + 1): Rank(Statuses(n + 1), k) = Rank(Blocks', i)
                                            /\ screen'[i] = StatusBlock(results[k])'
    <3>1. CASE i = m + 1
      BY <2>1, <2>4, <2>6, <2>7, <2>8, <2>9, <3>1
    <3>2. CASE i # m + 1
      <4>1. i \in Blocks /\ i \in 1..m
        BY <1>5, <2>5, <3>2
      <4>2. PICK k \in Statuses(n): Rank(Statuses(n), k) = Rank(Blocks, i) /\ screen[i] = StatusBlock(results[k])
        BY <1>3, <4>1 DEF Aligned
      <4>3. k \in 1..n
        BY <1>3
      <4>4. QED
        BY <1>7, <2>1, <2>4, <2>6, <2>7, <4>1, <4>2, <4>3
    <3>3. QED
      BY <3>1, <3>2
  <2>11. Statuses(n + 1)' = Statuses(n + 1)
    BY <1>1, MadeSame
  <2>12. Aligned(Statuses(at.dashboard))'
    <3>1. Statuses(at.dashboard)' = Statuses(n + 1)
      BY <1>1, <2>11
    <3>2. QED
      BY <2>6, <2>7, <2>8, <2>10, <3>1 DEF Aligned, Rank
  <2>13. Filled(screen, OnScreen(at.dashboard), BlocksMade)'
    <3>1. OnScreen(at.dashboard)' = OnScreen(n + 1) /\ BlocksMade' = BlocksMade
      BY <1>1, MadeSame
    <3>2. QED
      BY <2>3, <3>1 DEF Filled, Rank
  <2>14. QED
    BY <2>12, <2>13 DEF Dashboard
<1>9. ASSUME ~(Kept(r) /\ Exists(r.status)) PROVE Dashboard'
  <2>1. Statuses(n + 1) = Statuses(n)
    BY <1>1, <1>14, <1>9 DEF Statuses
  <2>2. Filled(screen', OnScreen(n + 1), BlocksMade)
    <3>1. CASE Kept(r) /\ ShowErrors
      <4>1. OnScreen(n + 1) = OnScreen(n) \cup {n + 1}
        BY <1>1, <1>14, <3>1 DEF OnScreen
      <4>2. screen' = Append(screen, BlocksMade[n + 1])
        BY <1>2, <1>6, <1>9, <3>1
      <4>3. QED
        BY <1>1, <1>3, <4>1, <4>2, FilledNext
    <3>2. CASE ~(Kept(r) /\ ShowErrors)
      <4>1. OnScreen(n + 1) = OnScreen(n)
        BY <1>1, <1>14, <1>9, <3>2 DEF OnScreen
      <4>2. screen' = screen
        BY <1>2, <1>9, <3>2
      <4>3. QED
        BY <1>3, <4>1, <4>2
    <3>3. QED
      BY <3>1, <3>2
  <2>3. Blocks' = Blocks /\ \A i \in 1..m: screen'[i] = screen[i]
    <3>1. CASE screen' = screen
      BY <3>1 DEF Blocks
    <3>2. CASE screen' # screen
      <4>1. screen' = Append(screen, RenderUnavailable(r))
        BY <1>2, <1>9, <3>2
      <4>2. /\ DOMAIN screen' = 1..(m + 1) /\ screen'[m + 1] = RenderUnavailable(r)
            /\ \A i \in 1..m: screen'[i] = screen[i]
        BY <1>4, <4>1
      <4>3. \A i \in 1..(m + 1): i = m + 1 \/ i \in 1..m
        BY <1>4
      <4>4. QED
        BY <1>4, <1>6, <4>2, <4>3 DEF Blocks
    <3>3. QED
      BY <3>1, <3>2
  <2>4. Statuses(n + 1)' = Statuses(n)
    BY <1>1, <2>1, MadeSame
  <2>5. ASSUME NEW i \in Blocks
        PROVE  \E k \in Statuses(n): Rank(Statuses(n), k) = Rank(Blocks, i)
                                       /\ screen'[i] = StatusBlock(results[k])'
    <3>1. PICK k \in Statuses(n): Rank(Statuses(n), k) = Rank(Blocks, i) /\ screen[i] = StatusBlock(results[k])
      BY <1>3 DEF Aligned
    <3>2. k \in 1..n /\ i \in 1..m
      BY <1>3, <1>5
    <3>3. QED
      BY <1>7, <2>3, <3>1, <3>2
  <2>6. Aligned(Statuses(at.dashboard))'
    <3>1. Statuses(at.dashboard)' = Statuses(n)
      BY <1>1, <2>4
    <3>2. IsFiniteSet(Blocks) /\ Cardinality(Blocks) = Cardinality(Statuses(n))
      BY <1>3 DEF Aligned
    <3>3. QED
      BY <2>3, <2>5, <3>1, <3>2 DEF Aligned, Rank
  <2>7. Filled(screen, OnScreen(at.dashboard), BlocksMade)'
    <3>1. OnScreen(at.dashboard)' = OnScreen(n + 1) /\ BlocksMade' = BlocksMade
      BY <1>1, MadeSame
    <3>2. QED
      BY <2>2, <3>1 DEF Filled, Rank
  <2>8. QED
    BY <2>6, <2>7 DEF Dashboard
<1>10. Dashboard'
  <2>1. (Kept(r) /\ Exists(r.status)) \/ ~(Kept(r) /\ Exists(r.status))
    OBVIOUS
  <2>2. QED
    BY <1>8, <1>9, <2>1
<1>11. Document' /\ Views'
  BY <1>1, <1>2, DocumentSame, ViewsSame DEF Inv
<1>12. QED
  BY <1>1, <1>10, <1>11 DEF Inv

LEMMA InvStep == Inv /\ [Next]_vars => Inv'
<1> SUFFICES ASSUME Inv, [Next]_vars PROVE Inv'
  OBVIOUS
<1>1. CASE DetectAll
  BY <1>1, DetectKeeps
<1>2. CASE Collect
  BY <1>2, CollectKeeps
<1>3. CASE ListResult
  BY <1>3, ListKeeps
<1>4. CASE DrawResult
  BY <1>4, DrawKeeps
<1>5. CASE DiagnoseResult
  BY <1>5, DiagnoseKeeps
<1>6. CASE TraceResult
  BY <1>6, TraceKeeps
<1>7. CASE UNCHANGED vars
  <2>1. UNCHANGED <<command, setup, detections, results, at, tools, unavailable, screen, diagnosis, provenance>>
    BY <1>7 DEF vars, views
  <2>2. Stages'
    BY <2>1 DEF Inv, Stages, Found, Outcome, Result, registry
  <2>3. QED
    BY <2>1, <2>2, DocumentSame, DashboardSame, ViewsSame DEF Inv
<1>8. QED
  BY <1>1, <1>2, <1>3, <1>4, <1>5, <1>6, <1>7 DEF Next

LEMMA InvHolds == Spec => []Inv
<1>1. QED
  BY InvInit, InvStep, PTL DEF Spec

(***************************************************************************)
(* Nothing disappears                                                      *)
(***************************************************************************)

\* What a list holds is made of a result at one of its places.
LEMMA FilledFrom ==
  ASSUME NEW list, NEW places, NEW f, Filled(list, places, f), NEW x \in ToSet(list)
  PROVE  \E k \in places: x = f[k]
<1> DEFINE S == {f[k]: k \in places}
<1>1. list \in Seq(S)
  BY DEF Filled
<1> HIDE DEF S
<1>2. x \in S
  BY <1>1 DEF ToSet
<1>3. QED
  BY <1>2 DEF S

LEMMA NothingDisappearsFollows == Inv => NothingDisappears
<1> SUFFICES ASSUME Inv, Collected, Done("json"), command.all
             PROVE  /\ Lists(tools, {k \in DOMAIN results: Exists(results[k].status)})
                    /\ Lists(unavailable, {k \in DOMAIN results: ~Exists(results[k].status)})
                    /\ \A u \in ToSet(unavailable), r \in ToSet(results):
                         u.tool = r.tool =>
                           /\ u.reason # ""
                           /\ u.reason = "fetch error" <=> Available(r.detection)
  BY DEF NothingDisappears
<1> DEFINE with == {k \in DOMAIN results: Exists(results[k].status)}
           without == {k \in DOMAIN results: ~Exists(results[k].status)}
<1>1. Stages /\ setup \in Setups /\ at.json = Len(results) /\ DOMAIN results = 1..Len(results)
  BY ResultsAre DEF Inv, Stages, Done
<1>2. \A k \in DOMAIN results: /\ Kept(results[k]) /\ (InTools(results[k]) <=> Exists(results[k].status))
                               /\ (InUnavailable(results[k]) <=> ~Exists(results[k].status))
  BY <1>1, ResultIs DEF Kept, InTools, InUnavailable
<1>3. InDocument(at.json) = with /\ OffDocument(at.json) = without
  BY <1>1, <1>2 DEF InDocument, OffDocument
<1>4. Filled(tools, with, ToolsMade) /\ Filled(unavailable, without, UnavailableMade)
  BY <1>3 DEF Inv, Document
<1>5. \A k \in DOMAIN results:
        /\ ToolsMade[k].tool = results[k].tool
        /\ UnavailableMade[k].tool = results[k].tool
        /\ UnavailableMade[k].reason = IF results[k].failed THEN "fetch error" ELSE results[k].detection.reason
  BY DEF ToolsMade, UnavailableMade, ToolFromStatus, ToolFromDetection
<1>6. Lists(tools, with) /\ Lists(unavailable, without)
  BY <1>4, <1>5 DEF Filled, Lists
<1>7. ASSUME NEW u \in ToSet(unavailable), NEW r \in ToSet(results), u.tool = r.tool
      PROVE  u.reason # "" /\ (u.reason = "fetch error" <=> Available(r.detection))
  <2>1. PICK k \in without: u = UnavailableMade[k]
    BY <1>4, FilledFrom
  <2>2. PICK j \in DOMAIN results: r = results[j]
    BY DEF ToSet
  <2>3. results[k].tool = registry[k] /\ results[j].tool = registry[j] /\ k \in DOMAIN registry /\ j \in DOMAIN registry
    BY <1>1, <2>1, <2>2, ResultIs
  <2>4. k = j
    BY <1>1, <1>5, <1>7, <2>1, <2>2, <2>3, SetupIs
  <2>5. /\ Tells(r.detection) /\ ~Exists(r.status)
        /\ (r.failed <=> Available(r.detection) /\ ~Exists(r.status))
    BY <1>1, <2>1, <2>2, <2>4, ResultIs
  <2>6. u.reason = IF r.failed THEN "fetch error" ELSE r.detection.reason
    BY <1>5, <2>1, <2>2, <2>4
  <2>7. CASE Available(r.detection)
    BY <2>5, <2>6, <2>7
  <2>8. CASE ~Available(r.detection)
    <3>1. r.detection.reason \in Reasons
      BY <2>5, <2>8 DEF Tells
    <3>2. r.detection.reason # "" /\ r.detection.reason # "fetch error"
      BY <3>1 DEF Reasons
    <3>3. QED
      BY <2>5, <2>6, <2>8, <3>2
  <2>9. QED
    BY <2>7, <2>8
<1>8. QED
  BY <1>6, <1>7

\* No adapter is missing from the document of --all --json, and none of those
\* that are not among its tools is without a reason (json.go, run in main.go).
THEOREM NothingDisappearsHolds == Spec => []NothingDisappears
BY InvHolds, NothingDisappearsFollows, PTL

(***************************************************************************)
(* The two renderings                                                      *)
(***************************************************************************)
LEMMA SameLimitIs ==
  ASSUME NEW tool, NEW e, NEW l \in LimitsOf(tool, e)
  PROVE  SameLimit(JsonLimit(l), RenderLimit(l))
<1> DEFINE j == JsonLimit(l)
           line == RenderLimit(l)
<1>1. /\ l.used \in Int /\ l.total \in Nat /\ l.percent \in Int /\ l.unlimited \in BOOLEAN
      /\ l.sessions \in BOOLEAN /\ (l.sessions = TRUE => l.unlimited \/ l.total > 0)
  <2>1. l \in AnyLimit /\ (l.sessions = TRUE => l.unlimited \/ l.total > 0)
    BY DEF LimitsOf
  <2>2. QED
    BY <2>1 DEF AnyLimit
<1>2. /\ j.used = Reported(l.used) /\ j.total = {l.total} \ {0} /\ j.percent = Reported(l.percent)
      /\ (j.unlimited <=> l.unlimited)
  BY DEF JsonLimit
<1>3. (j.unlimited = l.unlimited)
  BY DEF JsonLimit
<1>4. CASE l.unlimited
  <2>1. line = [Blank EXCEPT !.unlimited = TRUE]
    BY <1>4 DEF RenderLimit
  <2>2. line.unlimited = TRUE
    BY <2>1 DEF Blank
  <2>3. l.unlimited = TRUE
    BY <1>1, <1>4
  <2> HIDE DEF j, line
  <2>4. line.unlimited = j.unlimited /\ j.unlimited
    BY <1>3, <2>2, <2>3
  <2>5. QED
    BY <2>4 DEF SameLimit, j, line
<1>5. CASE ~l.unlimited /\ (l.sessions \/ PercentLeft(l) < 0)
  <2>1. line = [Blank EXCEPT !.used = UsedShown(l), !.total = TotalShown(l)]
    BY <1>5 DEF RenderLimit
  <2>2. line.used = UsedShown(l) /\ line.total = TotalShown(l) /\ line.left = {} /\ line.unlimited = FALSE
    BY <2>1 DEF Blank
  <2>3. l.unlimited = FALSE
    BY <1>1, <1>5
  <2> HIDE DEF j, line
  <2>4. line.used = {x \div One: x \in j.used}
    <3>1. CASE l.used >= 0
      <4>1. j.used = {l.used} /\ line.used = {FormatCount(l.used)}
        BY <1>2, <2>2, <3>1 DEF Reported, UsedShown, Known
      <4>2. FormatCount(l.used) = l.used \div One
        BY <1>1, <3>1 DEF FormatCount, One
      <4>3. QED
        BY <4>1, <4>2
    <3>2. CASE ~ l.used >= 0
      <4>1. j.used = {} /\ line.used = {}
        BY <1>2, <2>2, <3>2 DEF Reported, UsedShown, Known
      <4>2. QED
        BY <4>1
    <3>3. QED
      BY <3>1, <3>2
  <2>5. line.total = {x \div One: x \in j.total}
    <3>1. CASE l.total > 0
      <4>1. j.total = {l.total} /\ line.total = {FormatCount(l.total)}
        BY <1>1, <1>2, <2>2, <3>1 DEF TotalShown
      <4>2. FormatCount(l.total) = l.total \div One
        BY <1>1, <3>1 DEF FormatCount, One
      <4>3. QED
        BY <4>1, <4>2
    <3>2. CASE ~ l.total > 0
      <4>1. l.total = 0
        BY <1>1, <3>2
      <4>2. j.total = {} /\ line.total = {}
        BY <1>2, <2>2, <3>2, <4>1 DEF TotalShown
      <4>3. QED
        BY <4>2
    <3>3. QED
      BY <3>1, <3>2
  <2>6. ASSUME j.used = {}, j.total = {}, NEW p \in j.percent PROVE p > 1000
    <3>1. l.total = 0
      BY <1>2, <2>6
    <3>2. ~l.sessions
      BY <1>1, <1>5, <3>1
    <3>3. p = l.percent /\ l.percent >= 0
      BY <1>2, <2>6 DEF Reported
    <3>4. 100 * One - l.percent < 0
      BY <1>1, <1>5, <3>2, <3>3 DEF PercentLeft
    <3>5. QED
      BY <1>1, <3>3, <3>4 DEF One
  <2>7. line.unlimited = j.unlimited
    BY <1>3, <2>2, <2>3
  <2>8. QED
    BY <2>2, <2>4, <2>5, <2>6, <2>7 DEF SameLimit, j, line
<1>6. CASE ~l.unlimited /\ ~(l.sessions \/ PercentLeft(l) < 0)
  <2> DEFINE n == FormatPercentLeft(PercentLeft(l))
             p == l.percent
  <2>1. line = [Blank EXCEPT !.left = {n}]
    BY <1>6 DEF RenderLimit
  <2>2. line.left = {n} /\ line.unlimited = FALSE
    BY <2>1 DEF Blank
  <2>3. l.unlimited = FALSE
    BY <1>1, <1>6
  <2>4. p >= 0 /\ PercentLeft(l) = 1000 - p
    BY <1>1, <1>6 DEF PercentLeft, One
  <2>5. n = (1000 - p + 5) \div 10
    BY <1>1, <2>4 DEF FormatPercentLeft, One
  <2> HIDE DEF j, line, n, p
  <2>6. j.percent = {p}
    BY <1>2, <2>4 DEF Reported, p
  <2>7. p \in Int
    BY <1>1 DEF p
  <2>8. 10 * n - (1000 - p) <= 5 /\ (1000 - p) - 10 * n <= 5
    BY <2>5, <2>7
  <2>9. Near(One * n, 1000 - p, One \div 2)
    BY <2>8 DEF Near, One
  <2>10. line.unlimited = j.unlimited
    BY <1>3, <2>2, <2>3
  <2>11. QED
    BY <2>2, <2>6, <2>9, <2>10 DEF SameLimit, j, line
<1>7. QED
  BY <1>4, <1>5, <1>6

\* A figure in tokens is rounded to its third digit or so.
LEMMA TokensShown ==
  ASSUME NEW n \in Nat
  PROVE  LET f == FormatTokens(One * n)
         IN  Near(f.tenths * f.of, One * n, f.of \div 2)
<1> DEFINE f == FormatTokens(One * n)
           of == CASE n >= 1000000000 -> 1000000000 [] n >= 1000000 /\ n < 1000000000 -> 1000000
                   [] n >= 1000 /\ n < 1000000 -> 1000 [] n < 1000 -> 1
<1> SUFFICES Near(f.tenths * f.of, One * n, f.of \div 2)
  OBVIOUS
<1>1. (One * n) \div One = n
  BY SMT DEF One
<1>2. f = [of |-> of, tenths |-> IF of = 1 THEN One * n ELSE (n + of \div 20) \div (of \div 10)]
  BY SMT, <1>1 DEF FormatTokens
<1> HIDE DEF f
<1>3. f.of = of /\ f.tenths = IF of = 1 THEN One * n ELSE (n + of \div 20) \div (of \div 10)
  BY SMT, <1>2
<1>4. CASE n >= 1000000000
  <2>1. f.of = 1000000000 /\ f.tenths = (n + 50000000) \div 100000000
    BY SMT, <1>3, <1>4
  <2> DEFINE q == f.tenths
  <2>2. q \in Int /\ 100000000 * q <= n + 50000000 /\ n + 50000000 < 100000000 * q + 100000000
    BY SMT, <2>1
  <2> HIDE DEF q
  <2>3. q * 1000000000 - 10 * n <= 500000000 /\ 10 * n - q * 1000000000 <= 500000000
    BY SMT, <2>2
  <2>4. QED
    BY SMT, <2>1, <2>3 DEF Near, One, q
<1>5. CASE n >= 1000000 /\ n < 1000000000
  <2>1. f.of = 1000000 /\ f.tenths = (n + 50000) \div 100000
    BY SMT, <1>3, <1>5
  <2> DEFINE q == f.tenths
  <2>2. q \in Int /\ 100000 * q <= n + 50000 /\ n + 50000 < 100000 * q + 100000
    BY SMT, <2>1
  <2> HIDE DEF q
  <2>3. q * 1000000 - 10 * n <= 500000 /\ 10 * n - q * 1000000 <= 500000
    BY SMT, <2>2
  <2>4. QED
    BY SMT, <2>1, <2>3 DEF Near, One, q
<1>6. CASE n >= 1000 /\ n < 1000000
  <2>1. f.of = 1000 /\ f.tenths = (n + 50) \div 100
    BY SMT, <1>3, <1>6
  <2> DEFINE q == f.tenths
  <2>2. q \in Int /\ 100 * q <= n + 50 /\ n + 50 < 100 * q + 100
    BY SMT, <2>1
  <2> HIDE DEF q
  <2>3. q * 1000 - 10 * n <= 500 /\ 10 * n - q * 1000 <= 500
    BY SMT, <2>2
  <2>4. QED
    BY SMT, <2>1, <2>3 DEF Near, One, q
<1>7. CASE n < 1000
  <2>1. of = 1
    BY SMT, <1>7
  <2>2. f.of = 1 /\ f.tenths = One * n
    BY SMT, <1>3, <2>1
  <2>3. QED
    BY SMT, <2>2 DEF Near, One
<1>8. QED
  BY SMT, <1>4, <1>5, <1>6, <1>7

LEMMA SameMetricIs ==
  ASSUME NEW m \in AnyMetric
  PROVE  SameMetric(m, RenderMetric(m))
<1> DEFINE line == RenderMetric(m)
           figure == CASE m.unit = "cost" -> [of |-> 1, tenths |-> m.value]
                       [] m.unit = "tokens" -> FormatTokens(m.value)
                       [] OTHER -> [of |-> 1, tenths |-> One * FormatCount(m.value)]
           exact == IF m.value < 0 /\ m.unit \notin {"tokens", "cost"} THEN 0 ELSE m.value
           shown == line.figure.tenths * line.figure.of
<1>1. m.value \in Int /\ (m.unit = "tokens" => \E n \in Nat: m.value = One * n)
  BY DEF AnyMetric
<1>2. line.label = m.label /\ line.figure = figure
  BY DEF RenderMetric
<1> HIDE DEF line
<1>3. /\ Near(shown, exact, IF m.unit = "tokens" THEN line.figure.of \div 2 ELSE One - 1)
      /\ m.unit # "tokens" => shown <= exact
  <2>1. CASE m.unit = "cost"
    <3>1. line.figure = [of |-> 1, tenths |-> m.value]
      BY <1>2, <2>1
    <3>2. shown = m.value /\ exact = m.value
      BY <1>1, <2>1, <3>1
    <3>3. QED
      BY <1>1, <2>1, <3>2 DEF Near, One
  <2>2. CASE m.unit = "tokens"
    <3>1. line.figure = FormatTokens(m.value)
      BY <1>2, <2>2
    <3>2. PICK n \in Nat: m.value = One * n
      BY <1>1, <2>2
    <3>3. exact = m.value
      BY <2>2
    <3>4. Near(FormatTokens(One * n).tenths * FormatTokens(One * n).of, One * n, FormatTokens(One * n).of \div 2)
      BY TokensShown
    <3>5. QED
      BY <2>2, <3>1, <3>2, <3>3, <3>4
  <2>3. CASE m.unit # "cost" /\ m.unit # "tokens"
    <3>1. line.figure = [of |-> 1, tenths |-> One * FormatCount(m.value)]
      BY <1>2, <2>3
    <3>2. CASE m.value <= 0
      <4>1. FormatCount(m.value) = 0 /\ exact = 0
        BY <1>1, <2>3, <3>2 DEF FormatCount
      <4>2. shown = 0
        BY <3>1, <4>1 DEF One
      <4>3. QED
        BY <2>3, <4>1, <4>2 DEF Near, One
    <3>3. CASE m.value > 0
      <4>1. exact = m.value /\ FormatCount(m.value) = m.value \div 10
        BY <1>1, <2>3, <3>3 DEF FormatCount, One
      <4>2. shown = 10 * (m.value \div 10)
        BY <1>1, <3>1, <4>1 DEF One
      <4> DEFINE v == m.value
      <4> HIDE DEF v
      <4>3. v \in Int /\ 10 * (v \div 10) <= v /\ v - 10 * (v \div 10) <= 9
        BY <1>1 DEF v
      <4>4. shown <= exact /\ exact - shown <= 9 /\ shown - exact <= 9
        BY <4>1, <4>2, <4>3 DEF v
      <4>5. QED
        BY <2>3, <4>4 DEF Near, One
    <3>4. QED
      BY <1>1, <3>2, <3>3
  <2>4. QED
    BY <2>1, <2>2, <2>3
<1>4. QED
  BY <1>2, <1>3 DEF SameMetric, line

LEMMA SameToolIs ==
  ASSUME NEW r, Exists(r.status), NEW tool, NEW e, Sound(tool, e, The(r.status))
  PROVE  SameTool(ToolFromStatus(r), StatusBlock(r))
<1> DEFINE st == The(r.status)
           j == ToolFromStatus(r)
           b == StatusBlock(r)
           shown(l) == [label |-> l.label, shown |-> RenderLimit(l)]
<1>1. st.limits \in Seq(LimitsOf(tool, e)) /\ st.metrics \in Seq(AnyMetric)
  BY DEF Sound
<1>2. /\ j.tool = r.tool /\ j.plan = st.plan /\ j.tier = st.tier /\ j.multiplier = st.multiplier
      /\ j.provider = st.provider /\ j.model = st.model /\ j.metrics = st.metrics
      /\ j.limits = [k \in DOMAIN st.limits |-> JsonLimit(st.limits[k])]
  BY DEF ToolFromStatus
<1>3. /\ b.tool = r.tool /\ b.plan = st.plan /\ b.multiplier = st.multiplier
      /\ b.tier \in {st.tier, ""} /\ b.provider = st.provider /\ b.model = st.model
      /\ b.limits = [k \in DOMAIN st.limits |-> shown(st.limits[k])]
      /\ b.metrics = [k \in DOMAIN st.metrics |-> RenderMetric(st.metrics[k])]
  BY DEF StatusBlock
<1> HIDE DEF j, b
<1>4. ASSUME NEW k \in DOMAIN st.limits PROVE SameLimit(j.limits[k], b.limits[k].shown)
  <2>1. st.limits[k] \in LimitsOf(tool, e)
    BY <1>1
  <2> DEFINE l == st.limits[k]
  <2>2. j.limits[k] = JsonLimit(l) /\ b.limits[k] = shown(l)
    BY <1>2, <1>3
  <2>4. b.limits[k].shown = RenderLimit(l)
    BY <2>2
  <2>3. QED
    BY <2>1, <2>2, <2>4, SameLimitIs
<1>5. ASSUME NEW k \in DOMAIN st.metrics PROVE SameMetric(j.metrics[k], b.metrics[k])
  <2>1. st.metrics[k] \in AnyMetric
    BY <1>1
  <2>2. j.metrics[k] = st.metrics[k] /\ b.metrics[k] = RenderMetric(st.metrics[k])
    BY <1>2, <1>3
  <2>3. QED
    BY <2>1, <2>2, SameMetricIs
<1>6. DOMAIN j.limits = DOMAIN st.limits /\ Len(j.limits) = Len(st.limits) /\ Len(b.limits) = Len(st.limits)
  <2> DEFINE n == Len(st.limits)
  <2>1. n \in Nat /\ DOMAIN st.limits = 1..n
    BY <1>1
  <2>2. DOMAIN j.limits = 1..n /\ j.limits = [k \in 1..n |-> j.limits[k]]
    BY <1>2, <2>1
  <2>3. DOMAIN b.limits = 1..n /\ b.limits = [k \in 1..n |-> b.limits[k]]
    BY <1>3, <2>1
  <2> HIDE DEF n
  <2>4. Len(j.limits) = n /\ Len(b.limits) = n
    BY <2>1, <2>2, <2>3, LenIs
  <2>5. QED
    BY <2>1, <2>2, <2>4 DEF n
<1>7. DOMAIN j.metrics = DOMAIN st.metrics /\ Len(b.metrics) = Len(j.metrics)
  <2> DEFINE n == Len(st.metrics)
  <2>1. n \in Nat /\ DOMAIN st.metrics = 1..n
    BY <1>1
  <2>2. DOMAIN b.metrics = 1..n /\ b.metrics = [k \in 1..n |-> b.metrics[k]]
    BY <1>3, <2>1
  <2> HIDE DEF n
  <2>3. Len(b.metrics) = n
    BY <2>1, <2>2, LenIs
  <2>4. QED
    BY <1>2, <2>1, <2>3 DEF n
<1>8. SameTool(j, b)
  BY <1>2, <1>3, <1>4, <1>5, <1>6, <1>7 DEF SameTool
<1>9. QED
  BY <1>8 DEF j, b

LEMMA SameFiguresFollows == Inv => SameFigures
<1> SUFFICES ASSUME Inv, Collected, Done("json"), Done("dashboard")
             PROVE  /\ Len(tools) = Cardinality(Blocks)
                    /\ \A i \in Blocks: SameTool(tools[Rank(Blocks, i)], screen[i])
  BY DEF SameFigures, Blocks
<1> DEFINE n == Len(results)
<1>1. /\ Stages /\ at.json = n /\ at.dashboard = n /\ DOMAIN results = 1..n
      /\ Filled(tools, InDocument(n), ToolsMade) /\ Aligned(Statuses(n))
  BY ResultsAre DEF Inv, Document, Dashboard, Done
<1> HIDE DEF n
<1>2. \A k \in 1..n: InTools(results[k]) <=> Exists(results[k].status)
  BY <1>1, ResultIs DEF InTools
<1>3. InDocument(n) = Statuses(n)
  BY <1>2 DEF InDocument, Statuses
<1>4. Len(tools) = Cardinality(Blocks)
  BY <1>1, <1>3 DEF Filled, Aligned
<1>5. ASSUME NEW i \in Blocks PROVE SameTool(tools[Rank(Blocks, i)], screen[i])
  <2>1. PICK k \in Statuses(n): Rank(Statuses(n), k) = Rank(Blocks, i) /\ screen[i] = StatusBlock(results[k])
    BY <1>1 DEF Aligned
  <2>2. k \in DOMAIN results /\ Exists(results[k].status)
    BY <1>1 DEF Statuses
  <2>3. tools[Rank(Blocks, i)] = ToolFromStatus(results[k])
    BY <1>1, <1>3, <2>1, <2>2 DEF Filled, ToolsMade
  <2>4. Sound(registry[k], setup.after[registry[k]], The(results[k].status))
    BY <1>1, <2>2, ResultIs, TheIn
  <2>5. SameTool(ToolFromStatus(results[k]), StatusBlock(results[k]))
    BY <2>2, <2>4, SameToolIs
  <2>6. QED
    BY <2>1, <2>3, <2>5
<1>6. QED
  BY <1>4, <1>5

\* What the dashboard shows of a tool is what the document says of it, as
\* precisely as its line shows it (json.go, terminal.go, format.go).
THEOREM SameFiguresHolds == Spec => []SameFigures
BY InvHolds, SameFiguresFollows, PTL

(***************************************************************************)
(* Nothing is invented                                                     *)
(***************************************************************************)
\* The line of a limit shows no more than is said of it.
LEMMA LineSays ==
  ASSUME NEW l \in AnyLimit, NEW s, Says(s, l)
  PROVE  /\ RenderLimit(l).unlimited => s.unlimited
         /\ RenderLimit(l).left \subseteq {(1000 + One \div 2 - p) \div One: p \in s.percent}
         /\ RenderLimit(l).used \subseteq {x \div One: x \in s.used}
         /\ RenderLimit(l).total \subseteq {x \div One: x \in s.total}
<1> DEFINE line == RenderLimit(l)
           used == {x \div One: x \in s.used}
           total == {x \div One: x \in s.total}
           left == {(1000 + One \div 2 - p) \div One: p \in s.percent}
<1>1. /\ l.used \in Int /\ l.total \in Nat /\ l.percent \in Int /\ l.unlimited \in BOOLEAN
      /\ l.sessions \in BOOLEAN
  BY DEF AnyLimit
<1>2. CASE l.unlimited
  <2>1. line = [Blank EXCEPT !.unlimited = TRUE]
    BY <1>2 DEF RenderLimit
  <2>2. line.used = {} /\ line.left = {} /\ line.total = {}
    BY <2>1 DEF Blank
  <2>3. s.unlimited
    BY <1>1, <1>2 DEF Says
  <2>4. QED
    BY <2>2, <2>3
<1>3. CASE ~l.unlimited /\ (l.sessions \/ PercentLeft(l) < 0)
  <2>1. line = [Blank EXCEPT !.used = UsedShown(l), !.total = TotalShown(l)]
    BY <1>3 DEF RenderLimit
  <2>2. line.used = UsedShown(l) /\ line.total = TotalShown(l) /\ line.left = {} /\ ~line.unlimited
    BY <2>1 DEF Blank
  <2>3. l.used >= 0 => FormatCount(l.used) \in used
    <3>1. l.used >= 0 => FormatCount(l.used) = l.used \div One
      BY <1>1 DEF FormatCount, One
    <3>2. QED
      BY <3>1 DEF Says
  <2>4. l.total > 0 => FormatCount(l.total) \in total
    <3>1. l.total > 0 => FormatCount(l.total) = l.total \div One
      BY <1>1 DEF FormatCount, One
    <3>2. QED
      BY <3>1 DEF Says
  <2> HIDE DEF used, total, left, line
  <2>5. UsedShown(l) \subseteq used /\ TotalShown(l) \subseteq total
    BY <2>3, <2>4 DEF UsedShown, Known, TotalShown
  <2>6. QED
    BY <2>2, <2>5 DEF used, total, left, line
<1>4. CASE ~l.unlimited /\ ~(l.sessions \/ PercentLeft(l) < 0)
  <2> DEFINE n == FormatPercentLeft(PercentLeft(l))
             p == l.percent
  <2>1. line = [Blank EXCEPT !.left = {n}]
    BY <1>4 DEF RenderLimit
  <2>2. line.left = {n} /\ line.used = {} /\ line.total = {} /\ ~line.unlimited
    BY <2>1 DEF Blank
  <2>3. p >= 0 /\ PercentLeft(l) = 1000 - p
    BY <1>1, <1>4 DEF PercentLeft, One
  <2>4. n = (1000 + One \div 2 - p) \div One
    <3>1. 1000 - p + 5 = 1000 + 5 - p
      BY <1>1
    <3>2. One = 10 /\ One \div 2 = 5
      BY DEF One
    <3>3. QED
      BY <2>3, <3>1, <3>2 DEF FormatPercentLeft
  <2>5. l.sessions = FALSE
    BY <1>1, <1>4
  <2>6. p \in s.percent
    BY <2>5 DEF Says
  <2> HIDE DEF n, p
  <2>7. n \in left
    BY <2>4, <2>6
  <2>8. QED
    BY <2>2, <2>7
<1>5. QED
  BY <1>2, <1>3, <1>4

\* Neither does its entry in the document.
LEMMA EntrySays ==
  ASSUME NEW l \in AnyLimit, NEW s, Says(s, l)
  PROVE  /\ JsonLimit(l).label = s.label
         /\ JsonLimit(l).unlimited => s.unlimited
         /\ JsonLimit(l).percent \subseteq IF s.percent = {} THEN {0} ELSE s.percent
         /\ JsonLimit(l).used \subseteq s.used
         /\ JsonLimit(l).total \subseteq s.total
<1> DEFINE j == JsonLimit(l)
           percents == IF s.percent = {} THEN {0} ELSE s.percent
<1>1. l.total \in Nat /\ l.unlimited \in BOOLEAN
  BY DEF AnyLimit
<1>2. /\ j.label = l.label /\ j.used = Reported(l.used) /\ j.total = {l.total} \ {0}
      /\ j.percent = Reported(l.percent) /\ (j.unlimited <=> l.unlimited)
  BY DEF JsonLimit
<1>3. /\ l.label = s.label /\ (l.used >= 0 => l.used \in s.used)
      /\ (l.total > 0 => l.total \in s.total) /\ l.percent \in percents
  BY DEF Says
<1>4. l.unlimited => s.unlimited
  BY <1>1 DEF Says
<1> HIDE DEF j, percents
<1>5. j.used \subseteq s.used /\ j.percent \subseteq percents
  BY <1>2, <1>3 DEF Reported
<1>6. j.total \subseteq s.total
  BY <1>1, <1>2, <1>3
<1>7. j.unlimited => s.unlimited
  BY <1>2, <1>4
<1>8. QED
  BY <1>2, <1>3, <1>5, <1>6, <1>7 DEF j, percents

LEMMA BalanceShown ==
  ASSUME NEW m, m.unit = "credits"
  PROVE  RenderMetric(m).figure = [of |-> 1, tenths |-> One * FormatCount(m.value)]
BY DEF RenderMetric

\* On the dashboard.
LEMMA DashboardInvents ==
  ASSUME Inv, NEW b \in ToSet(screen), b.shows = "status"
  PROVE  LET e == setup.after[b.tool]
         IN  /\ b.multiplier > 0 =>
                  b.plan = "Pro" /\ \E r \in e.reply: b.multiplier \in r.multiplier
             /\ \A l \in ToSet(b.limits): \E s \in SaidBy(b.tool, e):
                  /\ l.label = s.label
                  /\ l.shown.unlimited => s.unlimited
                  /\ l.shown.left \subseteq {(1000 + One \div 2 - p) \div One: p \in s.percent}
                  /\ l.shown.used \subseteq {x \div One: x \in s.used}
                  /\ l.shown.total \subseteq {x \div One: x \in s.total}
             /\ \A m \in ToSet(b.metrics): b.tool = "codex" =>
                  \E r \in e.reply: \E c \in r.credits: \E x \in OrZero(c.balance):
                    c.has /\ m.figure.of = 1 /\ m.figure.tenths = One * FormatCount(x)
<1>1. PICK i \in Blocks: b = screen[i]
  BY DEF Blocks, ToSet
<1>2. PICK k \in Statuses(at.dashboard): b = StatusBlock(results[k])
  BY <1>1 DEF Inv, Dashboard, Aligned
<1>3. k \in DOMAIN results /\ Exists(results[k].status) /\ Stages
  <2>1. at.dashboard \in Nat /\ at.dashboard <= Len(results) /\ Stages
    BY DEF Inv, Stages
  <2>2. k \in 1..at.dashboard /\ Exists(results[k].status)
    BY DEF Statuses
  <2>3. QED
    BY <2>1, <2>2, ResultsAre
<1> DEFINE tool == registry[k]
           e == setup.after[tool]
           st == The(results[k].status)
<1>4. results[k].tool = tool /\ Sound(tool, e, st)
  BY <1>3, ResultIs, TheIn
<1>5. /\ b.tool = results[k].tool /\ b.plan = st.plan /\ b.multiplier = st.multiplier
      /\ b.limits = [n \in DOMAIN st.limits |-> [label |-> st.limits[n].label, shown |-> RenderLimit(st.limits[n])]]
      /\ b.metrics = [n \in DOMAIN st.metrics |-> RenderMetric(st.metrics[n])]
  BY <1>2 DEF StatusBlock
<1> HIDE DEF tool, st
<1>6. b.tool = tool
  BY <1>4, <1>5
<1>7. b.multiplier > 0 => b.plan = "Pro" /\ \E r \in e.reply: b.multiplier \in r.multiplier
  BY <1>4, <1>5 DEF Sound
<1>8. ASSUME NEW l \in ToSet(b.limits)
      PROVE  \E s \in SaidBy(tool, e):
               /\ l.label = s.label
               /\ l.shown.unlimited => s.unlimited
               /\ l.shown.left \subseteq {(1000 + One \div 2 - p) \div One: p \in s.percent}
               /\ l.shown.used \subseteq {x \div One: x \in s.used}
               /\ l.shown.total \subseteq {x \div One: x \in s.total}
  <2>1. PICK n \in DOMAIN st.limits: l = [label |-> st.limits[n].label, shown |-> RenderLimit(st.limits[n])]
    BY <1>5 DEF ToSet
  <2> DEFINE a == st.limits[n]
  <2>2. a \in LimitsOf(tool, e)
    BY <1>4 DEF Sound
  <2>3. l.label = a.label /\ l.shown = RenderLimit(a)
    BY <2>1
  <2> HIDE DEF a, e
  <2>4. PICK s \in SaidBy(tool, e): Says(s, a)
    BY <2>2 DEF LimitsOf
  <2>5. a \in AnyLimit /\ a.label = s.label
    BY <2>2, <2>4 DEF LimitsOf, Says
  <2>6. /\ RenderLimit(a).unlimited => s.unlimited
        /\ RenderLimit(a).left \subseteq {(1000 + One \div 2 - p) \div One: p \in s.percent}
        /\ RenderLimit(a).used \subseteq {x \div One: x \in s.used}
        /\ RenderLimit(a).total \subseteq {x \div One: x \in s.total}
    BY <2>4, <2>5, LineSays
  <2>7. QED
    BY <2>3, <2>5, <2>6
<1>9. ASSUME NEW m \in ToSet(b.metrics), tool = "codex"
      PROVE  \E r \in e.reply: \E c \in r.credits: \E x \in OrZero(c.balance):
               c.has /\ m.figure.of = 1 /\ m.figure.tenths = One * FormatCount(x)
  <2>1. PICK n \in DOMAIN st.metrics: m = RenderMetric(st.metrics[n])
    BY <1>5 DEF ToSet
  <2> DEFINE a == st.metrics[n]
  <2>2. Balances(e, st.metrics)
    BY <1>4, <1>9 DEF Sound
  <2>3. PICK r \in e.reply: \E c \in r.credits: c.has /\ a.unit = "credits" /\ a.value \in OrZero(c.balance)
    BY <2>2 DEF Balances
  <2> HIDE DEF a, e
  <2>4. PICK c \in r.credits: c.has /\ a.unit = "credits" /\ a.value \in OrZero(c.balance)
    BY <2>3
  <2>5. m.figure = [of |-> 1, tenths |-> One * FormatCount(a.value)]
    BY <2>1, <2>4, BalanceShown DEF a
  <2>6. m.figure.of = 1 /\ m.figure.tenths = One * FormatCount(a.value)
    BY <2>5
  <2>7. QED
    BY <2>4, <2>6
<1>10. QED
  BY <1>6, <1>7, <1>8, <1>9

\* In the document.
LEMMA DocumentInvents ==
  ASSUME Inv, NEW t \in ToSet(tools), NEW j \in ToSet(t.limits)
  PROVE  \E s \in SaidBy(t.tool, setup.after[t.tool]):
           /\ j.label = s.label
           /\ j.unlimited => s.unlimited
           /\ j.percent \subseteq IF s.percent = {} THEN {0} ELSE s.percent
           /\ j.used \subseteq s.used
           /\ j.total \subseteq s.total
<1>1. PICK k \in InDocument(at.json): t = ToolsMade[k]
  <2>1. tools \in Seq({ToolsMade[k]: k \in InDocument(at.json)})
    BY DEF Inv, Document, Filled
  <2>2. PICK i \in DOMAIN tools: t = tools[i]
    BY DEF ToSet
  <2>3. t \in {ToolsMade[k]: k \in InDocument(at.json)}
    BY <2>1, <2>2
  <2>4. QED
    BY <2>3
<1>2. k \in DOMAIN results /\ Exists(results[k].status) /\ Stages
  <2>1. at.json \in Nat /\ at.json <= Len(results) /\ Stages
    BY DEF Inv, Stages
  <2>2. k \in 1..at.json /\ Exists(results[k].status)
    BY DEF InDocument, InTools
  <2>3. QED
    BY <2>1, <2>2, ResultsAre
<1> DEFINE tool == registry[k]
           e == setup.after[tool]
           st == The(results[k].status)
<1>3. results[k].tool = tool /\ Sound(tool, e, st)
  BY <1>2, ResultIs, TheIn
<1>4. t.tool = results[k].tool /\ t.limits = [n \in DOMAIN st.limits |-> JsonLimit(st.limits[n])]
  BY <1>1, <1>2 DEF ToolsMade, ToolFromStatus
<1> HIDE DEF tool, st
<1>5. PICK n \in DOMAIN st.limits: j = JsonLimit(st.limits[n])
  BY <1>4 DEF ToSet
<1> DEFINE a == st.limits[n]
<1>6. a \in LimitsOf(tool, e)
  BY <1>3 DEF Sound
<1>7. j = JsonLimit(a)
  BY <1>5
<1> HIDE DEF a
<1>8. PICK s \in SaidBy(tool, e): Says(s, a)
  BY <1>6 DEF LimitsOf
<1>9. a \in AnyLimit
  BY <1>6 DEF LimitsOf
<1>10. /\ j.label = s.label
       /\ j.unlimited => s.unlimited
       /\ j.percent \subseteq IF s.percent = {} THEN {0} ELSE s.percent
       /\ j.used \subseteq s.used
       /\ j.total \subseteq s.total
  BY <1>7, <1>8, <1>9, EntrySays
<1>11. t.tool = tool
  BY <1>3, <1>4
<1>12. QED
  BY <1>10, <1>11

LEMMA NothingInventedFollows == Inv => NothingInvented
<1> SUFFICES ASSUME Inv PROVE NothingInvented
  OBVIOUS
<1>1. QED
  BY DashboardInvents, DocumentInvents DEF NothingInvented

\* Every limit on the dashboard or in the document is one of which the answer
\* speaks, with its figures, and codex's credits are its balance, but for the
\* zeros of fields that are left out; and multipliers are those of Pro that were
\* reported (terminal.go, json.go, codex.go, claude.go, freebuff.go).
THEOREM NothingInventedHolds == Spec => []NothingInvented
BY InvHolds, NothingInventedFollows, PTL

(***************************************************************************)
(* Doctor and sources explain                                              *)
(***************************************************************************)
LEMMA FunctionIsSeq ==
  ASSUME NEW S, NEW n \in Nat, NEW f \in [1..n -> S]
  PROVE  f \in Seq(S) /\ Len(f) = n
OBVIOUS

LEMMA ConcatHas ==
  ASSUME NEW S, NEW s \in Seq(S), NEW t \in Seq(S)
  PROVE  s \o t \in Seq(S) /\ ToSet(s \o t) = ToSet(s) \cup ToSet(t)
<1> DEFINE st == s \o t
           m == Len(s)
           n == Len(t)
<1>1. m \in Nat /\ n \in Nat /\ DOMAIN s = 1..m /\ DOMAIN t = 1..n
  OBVIOUS
<1>2. /\ st \in Seq(S) /\ Len(st) = m + n
      /\ \A i \in 1..(m + n): st[i] = IF i <= m THEN s[i] ELSE t[i - m]
  BY ConcatProperties
<1> HIDE DEF st, m, n
<1>3. DOMAIN st = 1..(m + n)
  BY <1>2
<1>4. ASSUME NEW i \in 1..m PROVE s[i] \in ToSet(st)
  <2>1. i \in DOMAIN st /\ st[i] = s[i]
    BY <1>1, <1>2, <1>3
  <2>2. QED
    BY <2>1 DEF ToSet
<1>5. ASSUME NEW i \in 1..n PROVE t[i] \in ToSet(st)
  <2>1. m + i \in DOMAIN st /\ st[m + i] = t[i]
    <3>1. m + i \in 1..(m + n) /\ ~ m + i <= m /\ (m + i) - m = i
      BY <1>1
    <3>2. QED
      BY <1>2, <1>3, <3>1
  <2>2. QED
    BY <2>1 DEF ToSet
<1>6. ASSUME NEW i \in 1..(m + n) PROVE st[i] \in ToSet(s) \cup ToSet(t)
  <2>1. CASE i <= m
    <3>1. i \in DOMAIN s /\ st[i] = s[i]
      BY <1>1, <1>2, <2>1
    <3>2. QED
      BY <3>1 DEF ToSet
  <2>2. CASE ~ i <= m
    <3>1. i - m \in DOMAIN t /\ st[i] = t[i - m]
      BY <1>1, <1>2, <2>2
    <3>2. QED
      BY <3>1 DEF ToSet
  <2>3. QED
    BY <2>1, <2>2
<1>7. ToSet(st) = ToSet(s) \cup ToSet(t)
  <2>1. ToSet(st) \subseteq ToSet(s) \cup ToSet(t)
    BY <1>3, <1>6 DEF ToSet
  <2>2. ToSet(s) \subseteq ToSet(st)
    BY <1>1, <1>4 DEF ToSet
  <2>3. ToSet(t) \subseteq ToSet(st)
    BY <1>1, <1>5 DEF ToSet
  <2>4. QED
    BY <2>1, <2>2, <2>3
<1>8. QED
  BY <1>2, <1>7 DEF st

\* A sequence that agrees with the end of another is a suffix of it.
LEMMA SuffixIs ==
  ASSUME NEW S, NEW s \in Seq(S), NEW t \in Seq(S), NEW m \in Nat,
         Len(t) = m + Len(s), \A i \in 1..Len(s): t[m + i] = s[i]
  PROVE  IsSuffix(s, t)
<1> DEFINE n == Len(s)
           rs == Reverse(s)
           rt == Reverse(t)
<1>1. n \in Nat /\ Len(t) = m + n
  OBVIOUS
<1>2. /\ rs = [i \in 1..n |-> s[(n - i) + 1]]
      /\ rt = [i \in 1..(m + n) |-> t[((m + n) - i) + 1]]
  BY DEF Reverse
<1> HIDE DEF n
<1>3. rs \in Seq(S) /\ Len(rs) = n
  <2>1. \A i \in 1..n: (n - i) + 1 \in 1..n
    BY <1>1
  <2>2. \A i \in 1..n: s[(n - i) + 1] \in S
    BY <2>1 DEF n
  <2>3. rs \in [1..n -> S]
    BY <1>2, <2>2
  <2> HIDE DEF rs
  <2>4. QED
    BY <1>1, <2>3
<1>4. rt \in Seq(S) /\ Len(rt) = m + n
  <2>1. \A i \in 1..(m + n): ((m + n) - i) + 1 \in 1..(m + n)
    BY <1>1
  <2>2. \A i \in 1..(m + n): t[((m + n) - i) + 1] \in S
    BY <1>1, <2>1
  <2>3. rt \in [1..(m + n) -> S] /\ m + n \in Nat
    BY <1>1, <1>2, <2>2
  <2> HIDE DEF rt
  <2>4. QED
    BY <2>3
<1>5. \A i \in 1..n: rs[i] = rt[i]
  <2> TAKE i \in 1..n
  <2>1. i \in 1..(m + n) /\ (n - i) + 1 \in 1..n /\ ((m + n) - i) + 1 = m + ((n - i) + 1)
    BY <1>1
  <2>2. t[m + ((n - i) + 1)] = s[(n - i) + 1]
    BY <2>1 DEF n
  <2>3. rs[i] = s[(n - i) + 1] /\ rt[i] = t[((m + n) - i) + 1]
    BY <1>2, <2>1
  <2>4. QED
    BY <2>1, <2>2, <2>3
<1> HIDE DEF rs, rt
<1>6. SubSeq(rs, 1, n) = [i \in 1..n |-> rs[i]] /\ SubSeq(rt, 1, n) = [i \in 1..n |-> rt[i]]
  <2>1. \A x \in Seq(S): n <= Len(x) => SubSeq(x, 1, n) = [i \in 1..n |-> x[i]]
    BY <1>1
  <2>2. QED
    BY <1>1, <1>3, <1>4, <2>1
<1>7. IsPrefix(rs, rt)
  BY <1>1, <1>3, <1>4, <1>5, <1>6 DEF IsPrefix
<1>8. QED
  BY <1>7 DEF IsSuffix, rs, rt

Headings == Texts \cup {"Plan", "Tier", "Provider", "Model"}
Traced == Headings \X SourceNames

\* A source is never unknown.
LEMMA SourceIs ==
  ASSUME NEW own \in SourceNames \cup {""}, NEW st, st.source \in SourceNames
  PROVE  SourceOf(own, st) \in SourceNames
<1>1. st.source # ""
  BY DEF SourceNames
<1>2. Either(own, st.source) \in SourceNames
  BY DEF Either
<1>3. Either(own, st.source) # ""
  BY <1>2 DEF SourceNames
<1>4. QED
  BY <1>2, <1>3 DEF SourceOf, Either

LEMMA LineIs ==
  ASSUME NEW label \in Headings, NEW text, NEW st, st.source \in SourceNames
  PROVE  /\ Line(label, text, st) \in Seq(Traced)
         /\ text # "" => \E line \in ToSet(Line(label, text, st)): line[1] = label
<1> DEFINE line == <<label, SourceOf("", st)>>
<1>1. line \in Traced /\ line[1] = label
  BY SourceIs DEF Traced
<1> HIDE DEF line
<1>2. CASE text = ""
  <2>1. Line(label, text, st) = <<>>
    BY <1>2 DEF Line
  <2>2. <<>> \in Seq(Traced)
    OBVIOUS
  <2>3. QED
    BY <1>2, <2>1, <2>2
<1>3. CASE text # ""
  <2>1. Line(label, text, st) = <<line>>
    BY <1>3 DEF Line, line
  <2>2. <<line>> \in Seq(Traced) /\ line \in ToSet(<<line>>)
    <3>1. 1 \in DOMAIN <<line>> /\ <<line>>[1] = line
      OBVIOUS
    <3>2. QED
      BY <1>1, <3>1 DEF ToSet
  <2>3. QED
    BY <1>1, <2>1, <2>2
<1>4. QED
  BY <1>2, <1>3

LEMMA EachIs ==
  ASSUME NEW n \in Nat, NEW figures, DOMAIN figures = 1..n,
         NEW st, st.source \in SourceNames,
         \A k \in 1..n: figures[k].label \in Texts /\ figures[k].source \in SourceNames \cup {""}
  PROVE  /\ Each(figures, st) \in Seq(Traced) /\ Len(Each(figures, st)) = n
         /\ \A k \in 1..n: Each(figures, st)[k][1] = figures[k].label
<1> DEFINE each == Each(figures, st)
<1>1. each = [k \in 1..n |-> <<figures[k].label, SourceOf(figures[k].source, st)>>]
  BY DEF Each
<1>2. \A k \in 1..n: <<figures[k].label, SourceOf(figures[k].source, st)>> \in Traced
  BY SourceIs DEF Traced, Headings
<1> HIDE DEF each
<1>3. each \in [1..n -> Traced]
  BY <1>1, <1>2
<1>4. each \in Seq(Traced) /\ Len(each) = n
  BY <1>3, FunctionIsSeq
<1>5. \A k \in 1..n: each[k][1] = figures[k].label
  BY <1>1
<1>6. QED
  BY <1>4, <1>5 DEF each

\* The lines that sources gives to a status.
Traces(st) ==
  Line("Plan", st.plan, st) \o Line("Tier", st.tier, st)
    \o Line("Provider", st.provider, st) \o Line("Model", st.model, st)
    \o Each(st.limits, st) \o Each(st.metrics, st)

LEMMA TracesAre ==
  ASSUME NEW tool, NEW e, NEW st, Sound(tool, e, st)
  PROVE  LET lines == Traces(st)
             labels == [k \in DOMAIN lines |-> lines[k][1]]
             figures == [k \in DOMAIN st.limits |-> st.limits[k].label]
                          \o [k \in DOMAIN st.metrics |-> st.metrics[k].label]
         IN  /\ st.plan # "" => "Plan" \in ToSet(labels)
             /\ st.tier # "" => "Tier" \in ToSet(labels)
             /\ st.provider # "" => "Provider" \in ToSet(labels)
             /\ st.model # "" => "Model" \in ToSet(labels)
             /\ IsSuffix(figures, labels)
             /\ \A line \in ToSet(lines): line[2] # "unknown"
<1> DEFINE lines == Traces(st)
           labels == [k \in DOMAIN lines |-> lines[k][1]]
           a == Len(st.limits)
           c == Len(st.metrics)
           f1 == [k \in DOMAIN st.limits |-> st.limits[k].label]
           f2 == [k \in DOMAIN st.metrics |-> st.metrics[k].label]
           figures == f1 \o f2
           l1 == Line("Plan", st.plan, st)
           l2 == Line("Tier", st.tier, st)
           l3 == Line("Provider", st.provider, st)
           l4 == Line("Model", st.model, st)
           e1 == Each(st.limits, st)
           e2 == Each(st.metrics, st)
           head == l1 \o l2 \o l3 \o l4
<1>1. /\ st.source \in SourceNames /\ a \in Nat /\ c \in Nat
      /\ DOMAIN st.limits = 1..a /\ DOMAIN st.metrics = 1..c
      /\ \A k \in 1..a: st.limits[k] \in LimitsOf(tool, e)
      /\ \A k \in 1..c: st.metrics[k] \in AnyMetric
  BY DEF Sound
<1>2. /\ \A k \in 1..a: st.limits[k].label \in Texts /\ st.limits[k].source \in SourceNames \cup {""}
      /\ \A k \in 1..c: st.metrics[k].label \in Texts /\ st.metrics[k].source \in SourceNames \cup {""}
  BY <1>1 DEF LimitsOf, AnyLimit, AnyMetric
<1>17. l1 \in Seq(Traced) /\ l2 \in Seq(Traced) /\ l3 \in Seq(Traced) /\ l4 \in Seq(Traced)
  <2>1. "Plan" \in Headings /\ "Tier" \in Headings /\ "Provider" \in Headings /\ "Model" \in Headings
    BY DEF Headings
  <2>2. QED
    BY <1>1, <2>1, LineIs
<1>3. /\ st.plan # "" => \E line \in ToSet(l1): line[1] = "Plan"
      /\ st.tier # "" => \E line \in ToSet(l2): line[1] = "Tier"
      /\ st.provider # "" => \E line \in ToSet(l3): line[1] = "Provider"
      /\ st.model # "" => \E line \in ToSet(l4): line[1] = "Model"
  <2>1. "Plan" \in Headings /\ "Tier" \in Headings /\ "Provider" \in Headings /\ "Model" \in Headings
    BY DEF Headings
  <2>2. QED
    BY <1>1, <2>1, LineIs
<1> HIDE DEF a, c
<1>15. e1 \in Seq(Traced) /\ Len(e1) = a /\ \A k \in 1..a: e1[k][1] = st.limits[k].label
  <2>1. \A k \in 1..a: st.limits[k].label \in Texts /\ st.limits[k].source \in SourceNames \cup {""}
    BY <1>2
  <2> DEFINE figures1 == st.limits
  <2>2. /\ DOMAIN figures1 = 1..a
        /\ \A k \in 1..a: figures1[k].label \in Texts /\ figures1[k].source \in SourceNames \cup {""}
    BY <1>1, <2>1
  <2>5. st.source \in SourceNames /\ a \in Nat
    BY <1>1
  <2> HIDE DEF figures1
  <2>3. /\ Each(figures1, st) \in Seq(Traced) /\ Len(Each(figures1, st)) = a
        /\ \A k \in 1..a: Each(figures1, st)[k][1] = figures1[k].label
    BY <2>2, <2>5, EachIs
  <2>4. QED
    BY <2>3 DEF figures1
<1>16. e2 \in Seq(Traced) /\ Len(e2) = c /\ \A k \in 1..c: e2[k][1] = st.metrics[k].label
  BY <1>1, <1>2, EachIs
<1>4. e1 \in Seq(Traced) /\ e2 \in Seq(Traced) /\ Len(e1) = a /\ Len(e2) = c
  BY <1>15, <1>16
<1>5. lines = (head \o e1) \o e2
  BY DEF Traces
<1> HIDE DEF l1, l2, l3, l4, e1, e2, lines
<1>6. /\ head \in Seq(Traced)
      /\ ToSet(head) = ToSet(l1) \cup ToSet(l2) \cup ToSet(l3) \cup ToSet(l4)
  <2> DEFINE two == l1 \o l2
             three == two \o l3
  <2>1. two \in Seq(Traced) /\ ToSet(two) = ToSet(l1) \cup ToSet(l2)
    BY <1>17, ConcatHas
  <2>2. head = three \o l4
    OBVIOUS
  <2> HIDE DEF two, head
  <2>3. three \in Seq(Traced) /\ ToSet(three) = ToSet(two) \cup ToSet(l3)
    BY <1>17, <2>1, ConcatHas
  <2> HIDE DEF three
  <2>4. three \o l4 \in Seq(Traced) /\ ToSet(three \o l4) = ToSet(three) \cup ToSet(l4)
    BY <1>17, <2>3, ConcatHas
  <2>5. QED
    BY <2>1, <2>2, <2>3, <2>4
<1> HIDE DEF head
<1> DEFINE m == Len(head)
           first == head \o e1
<1>7. m \in Nat
  BY <1>6
<1>8. /\ first \in Seq(Traced) /\ Len(first) = m + a /\ ToSet(first) = ToSet(head) \cup ToSet(e1)
      /\ \A i \in 1..(m + a): first[i] = IF i <= m THEN head[i] ELSE e1[i - m]
  <2>1. first \in Seq(Traced) /\ ToSet(first) = ToSet(head) \cup ToSet(e1)
    BY <1>4, <1>6, ConcatHas
  <2>2. /\ Len(first) = m + Len(e1)
        /\ \A i \in 1..(m + Len(e1)): first[i] = IF i <= m THEN head[i] ELSE e1[i - m]
    BY <1>4, <1>6, ConcatProperties
  <2> HIDE DEF first, m
  <2>3. QED
    BY <1>4, <2>1, <2>2
<1>18. lines = first \o e2
  BY <1>5
<1> HIDE DEF first, m
<1>9. /\ lines \in Seq(Traced) /\ Len(lines) = (m + a) + c /\ ToSet(lines) = ToSet(first) \cup ToSet(e2)
      /\ \A i \in 1..((m + a) + c): lines[i] = IF i <= m + a THEN first[i] ELSE e2[i - (m + a)]
  <2>1. lines \in Seq(Traced) /\ ToSet(lines) = ToSet(first) \cup ToSet(e2)
    BY <1>4, <1>8, <1>18, ConcatHas
  <2>2. /\ Len(lines) = Len(first) + Len(e2)
        /\ \A i \in 1..(Len(first) + Len(e2)): lines[i] = IF i <= Len(first) THEN first[i] ELSE e2[i - Len(first)]
    BY <1>4, <1>8, <1>18, ConcatProperties
  <2>3. QED
    BY <1>4, <1>8, <2>1, <2>2
<1>10. ASSUME NEW label, \E line \in ToSet(head): line[1] = label
       PROVE  label \in ToSet(labels)
  <2>1. PICK line \in ToSet(lines): line[1] = label
    BY <1>8, <1>9, <1>10
  <2>2. PICK k \in DOMAIN lines: line = lines[k]
    BY DEF ToSet
  <2>3. k \in DOMAIN labels /\ labels[k] = label
    BY <2>1, <2>2
  <2>4. QED
    BY <2>3 DEF ToSet
<1>11. /\ st.plan # "" => "Plan" \in ToSet(labels)
       /\ st.tier # "" => "Tier" \in ToSet(labels)
       /\ st.provider # "" => "Provider" \in ToSet(labels)
       /\ st.model # "" => "Model" \in ToSet(labels)
  <2> HIDE DEF labels
  <2>1. QED
    BY <1>3, <1>6, <1>10
<1>12. \A line \in ToSet(lines): line[2] # "unknown"
  <2>1. \A line \in ToSet(lines): line[2] \in SourceNames
    BY <1>9 DEF ToSet, Traced
  <2>2. QED
    BY <2>1 DEF SourceNames
<1>13. IsSuffix(figures, labels)
  <2>1. DOMAIN lines = 1..((m + a) + c)
    BY <1>9
  <2>2. labels \in Seq(Headings) /\ Len(labels) = (m + a) + c
    <3>1. \A k \in 1..((m + a) + c): lines[k][1] \in Headings
      BY <1>9, <2>1 DEF Traced
    <3>2. labels \in [1..((m + a) + c) -> Headings] /\ (m + a) + c \in Nat
      BY <1>1, <1>7, <2>1, <3>1
    <3> HIDE DEF labels
    <3>3. QED
      BY <3>2
  <2>3. f1 \in Seq(Headings) /\ Len(f1) = a /\ f2 \in Seq(Headings) /\ Len(f2) = c
    <3>1. f1 \in [1..a -> Headings] /\ f2 \in [1..c -> Headings]
      BY <1>1, <1>2 DEF Headings
    <3> HIDE DEF f1, f2
    <3>2. QED
      BY <1>1, <3>1
  <2>4. \A k \in 1..a: f1[k] = st.limits[k].label
    BY <1>1
  <2>5. \A k \in 1..c: f2[k] = st.metrics[k].label
    BY <1>1
  <2>6. \A k \in 1..((m + a) + c): labels[k] = lines[k][1]
    BY <2>1
  <2> HIDE DEF f1, f2, labels
  <2>7. /\ figures \in Seq(Headings) /\ Len(figures) = a + c
        /\ \A i \in 1..(a + c): figures[i] = IF i <= a THEN f1[i] ELSE f2[i - a]
    BY <2>3, ConcatProperties
  <2> HIDE DEF figures
  <2>8. ASSUME NEW i \in 1..(a + c) PROVE labels[m + i] = figures[i]
    <3>1. m + i \in 1..((m + a) + c)
      BY <1>1, <1>7
    <3>2. CASE i <= a
      <4>1. m + i <= m + a /\ m + i \in 1..(m + a) /\ ~ m + i <= m /\ (m + i) - m = i /\ i \in 1..a
        BY <1>1, <1>7, <3>2
      <4>2. lines[m + i] = e1[i]
        BY <1>8, <1>9, <3>1, <4>1
      <4>3. QED
        BY <1>15, <2>4, <2>6, <2>7, <3>1, <3>2, <4>1, <4>2
    <3>3. CASE ~ i <= a
      <4>1. ~ m + i <= m + a /\ (m + i) - (m + a) = i - a /\ i - a \in 1..c
        BY <1>1, <1>7, <3>3
      <4>2. lines[m + i] = e2[i - a]
        BY <1>9, <3>1, <4>1
      <4>3. QED
        BY <1>16, <2>5, <2>6, <2>7, <3>1, <3>3, <4>1, <4>2
    <3>4. QED
      BY <3>2, <3>3
  <2>9. Len(labels) = m + Len(figures)
    BY <1>1, <1>7, <2>2, <2>7
  <2>10. QED
    BY <1>7, <2>2, <2>7, <2>8, <2>9, SuffixIs
<1>14. QED
  BY <1>11, <1>12, <1>13 DEF lines

LEMMA DoctorExplains ==
  ASSUME Inv, Collected, Done("doctor")
  PROVE  /\ Names(diagnosis) = registry
         /\ \A k \in DOMAIN registry:
              LET d == diagnosis[k] IN
                (d.reason # "" \/ d.failed) <=> ~Exists(results[k].status)
<1> DEFINE n == Len(results)
<1>1. /\ Stages /\ n = Len(registry) /\ DOMAIN results = 1..n /\ DOMAIN registry = 1..n
      /\ registry \in Seq(ToSet(Defaults))
  BY ResultsAre, SetupIs DEF Inv, Stages, Collected
<1>2. Follows(diagnosis, n, DoctorMade) /\ n \in Nat
  BY <1>1, ResultsAre DEF Inv, Views, Done
<1> HIDE DEF n
<1>3. DOMAIN diagnosis = 1..n
  <2> DEFINE S == {DoctorMade[k]: k \in 1..n}
  <2>1. diagnosis \in Seq(S) /\ Len(diagnosis) = n
    BY <1>2 DEF Follows
  <2> HIDE DEF S
  <2>2. QED
    BY <2>1
<1>4. ASSUME NEW k \in 1..n
      PROVE  /\ diagnosis[k].tool = registry[k]
             /\ (diagnosis[k].reason # "" \/ diagnosis[k].failed) <=> ~Exists(results[k].status)
  <2> DEFINE r == results[k]
             d == diagnosis[k]
  <2>1. d = DoctorBlock(r)
    BY <1>1, <1>2 DEF Follows, DoctorMade
  <2>2. d.tool = r.tool /\ d.reason = r.detection.reason /\ d.failed = r.failed
    <3> DEFINE column1 == Column("authenticated", r)
               column2 == Column("configured", r)
               plan == IF Exists(r.status) THEN The(r.status).plan ELSE ""
               notes == IF Exists(r.status) THEN The(r.status).notes ELSE 0
    <3>1. d = [tool |-> r.tool, installed |-> r.detection.installed,
               authenticated |-> column1, configured |-> column2,
               reason |-> r.detection.reason, failed |-> r.failed, plan |-> plan, notes |-> notes]
      BY <2>1 DEF DoctorBlock
    <3> HIDE DEF d, r, column1, column2, plan, notes
    <3>2. QED
      BY <3>1
  <2>3. /\ r.tool = registry[k] /\ Tells(r.detection)
        /\ Exists(r.status) => Available(r.detection)
        /\ r.failed <=> Available(r.detection) /\ ~Exists(r.status)
    BY <1>1, ResultIs
  <2> HIDE DEF r, d
  <2>4. (r.detection.reason # "" \/ r.failed) <=> ~Exists(r.status)
    BY <2>3 DEF Tells
  <2>5. (d.reason # "" \/ d.failed) <=> ~Exists(r.status)
    BY <2>2, <2>4
  <2>6. QED
    BY <2>2, <2>3, <2>5 DEF r, d
<1>5. \A k \in 1..n: diagnosis[k].tool = registry[k]
  BY <1>4
<1>6. Names(diagnosis) = registry
  BY <1>1, <1>3, <1>5 DEF Names
<1>7. QED
  BY <1>1, <1>4, <1>6

LEMMA SourcesExplain ==
  ASSUME Inv, Collected, Done("sources")
  PROVE  /\ Names(provenance) = registry
         /\ \A p \in ToSet(provenance), b \in ToSet(screen):
              p.tool = b.tool /\ b.shows = "status" =>
                \E st: /\ \E tool, e: Sound(tool, e, st)
                       /\ p.lines = Traces(st)
                       /\ b.plan = st.plan /\ b.tier \in {st.tier, ""}
                       /\ b.provider = st.provider /\ b.model = st.model
                       /\ b.limits = [k \in DOMAIN st.limits |->
                                        [label |-> st.limits[k].label, shown |-> RenderLimit(st.limits[k])]]
                       /\ b.metrics = [k \in DOMAIN st.metrics |-> RenderMetric(st.metrics[k])]
<1> DEFINE n == Len(results)
<1>1. /\ Stages /\ setup \in Setups /\ n = Len(registry) /\ DOMAIN results = 1..n /\ DOMAIN registry = 1..n
      /\ registry \in Seq(ToSet(Defaults)) /\ n \in Nat
  BY ResultsAre, SetupIs DEF Inv, Stages, Collected
<1>2. Follows(provenance, n, SourcesMade)
  BY <1>1, ResultsAre DEF Inv, Views, Done
<1> HIDE DEF n
<1>3. DOMAIN provenance = 1..n
  <2> DEFINE S == {SourcesMade[k]: k \in 1..n}
  <2>1. provenance \in Seq(S) /\ Len(provenance) = n
    BY <1>2 DEF Follows
  <2> HIDE DEF S
  <2>2. QED
    BY <2>1
<1>4. \A k \in 1..n: provenance[k] = SourcesBlock(results[k])
  BY <1>1, <1>2 DEF Follows, SourcesMade
<1>5. \A k \in 1..n: provenance[k].tool = registry[k]
  <2> TAKE k \in 1..n
  <2>1. SourcesBlock(results[k]).tool = results[k].tool
    BY DEF SourcesBlock
  <2>2. results[k].tool = registry[k]
    BY <1>1, ResultIs
  <2>3. QED
    BY <1>4, <2>1, <2>2
<1>6. Names(provenance) = registry
  BY <1>1, <1>3, <1>5 DEF Names
<1>7. ASSUME NEW p \in ToSet(provenance), NEW b \in ToSet(screen), p.tool = b.tool, b.shows = "status"
      PROVE  \E st: /\ \E tool, e: Sound(tool, e, st)
                    /\ p.lines = Traces(st)
                    /\ b.plan = st.plan /\ b.tier \in {st.tier, ""}
                    /\ b.provider = st.provider /\ b.model = st.model
                    /\ b.limits = [k \in DOMAIN st.limits |->
                                     [label |-> st.limits[k].label, shown |-> RenderLimit(st.limits[k])]]
                    /\ b.metrics = [k \in DOMAIN st.metrics |-> RenderMetric(st.metrics[k])]
  <2>1. PICK j \in 1..n: p = provenance[j]
    BY <1>3 DEF ToSet
  <2>2. PICK i \in Blocks: b = screen[i]
    BY <1>7 DEF Blocks, ToSet
  <2>3. PICK k \in Statuses(at.dashboard): b = StatusBlock(results[k])
    BY <2>2 DEF Inv, Dashboard, Aligned
  <2>4. k \in 1..n /\ Exists(results[k].status)
    <3>1. at.dashboard \in Nat /\ at.dashboard <= n
      BY <1>1 DEF Inv, Stages, n
    <3>2. k \in 1..at.dashboard /\ Exists(results[k].status)
      BY DEF Statuses
    <3>3. QED
      BY <1>1, <3>1, <3>2
  <2> DEFINE r == results[k]
             st == The(r.status)
  <2>5. /\ b.tool = r.tool /\ b.plan = st.plan /\ b.tier \in {st.tier, ""}
        /\ b.provider = st.provider /\ b.model = st.model
        /\ b.limits = [x \in DOMAIN st.limits |->
                         [label |-> st.limits[x].label, shown |-> RenderLimit(st.limits[x])]]
        /\ b.metrics = [x \in DOMAIN st.metrics |-> RenderMetric(st.metrics[x])]
    BY <2>3 DEF StatusBlock
  <2>6. r.tool = registry[k] /\ Sound(registry[k], setup.after[registry[k]], st)
    BY <1>1, <2>4, ResultIs, TheIn
  <2>7. j = k
    <3>1. registry[j] = registry[k]
      BY <1>5, <1>7, <2>1, <2>5, <2>6
    <3>2. QED
      BY <1>1, <2>4, <3>1, SetupIs
  <2>8. p = SourcesBlock(r)
    BY <1>4, <2>1, <2>7
  <2>9. p.lines = Traces(st)
    BY <2>4, <2>8 DEF SourcesBlock, Traces
  <2> HIDE DEF r, st
  <2>10. QED
    BY <2>5, <2>6, <2>9
<1>8. QED
  BY <1>6, <1>7

LEMMA ExplainedFollows == Inv => Explained
<1> SUFFICES ASSUME Inv PROVE Explained
  OBVIOUS
<1>1. ASSUME Collected, Done("sources"), NEW p \in ToSet(provenance), NEW b \in ToSet(screen),
             p.tool = b.tool, b.shows = "status"
      PROVE  LET labels == [k \in DOMAIN p.lines |-> p.lines[k][1]]
                 figures == [k \in DOMAIN b.limits |-> b.limits[k].label]
                              \o [k \in DOMAIN b.metrics |-> b.metrics[k].label]
             IN  /\ b.plan # "" => "Plan" \in ToSet(labels)
                 /\ b.tier # "" => "Tier" \in ToSet(labels)
                 /\ b.provider # "" => "Provider" \in ToSet(labels)
                 /\ b.model # "" => "Model" \in ToSet(labels)
                 /\ IsSuffix(figures, labels)
                 /\ \A line \in ToSet(p.lines): line[2] # "unknown"
  <2> DEFINE labels == [k \in DOMAIN p.lines |-> p.lines[k][1]]
             f1 == [k \in DOMAIN b.limits |-> b.limits[k].label]
             f2 == [k \in DOMAIN b.metrics |-> b.metrics[k].label]
  <2>1. PICK st: /\ \E tool, e: Sound(tool, e, st)
                 /\ p.lines = Traces(st)
                 /\ b.plan = st.plan /\ b.tier \in {st.tier, ""}
                 /\ b.provider = st.provider /\ b.model = st.model
                 /\ b.limits = [k \in DOMAIN st.limits |->
                                  [label |-> st.limits[k].label, shown |-> RenderLimit(st.limits[k])]]
                 /\ b.metrics = [k \in DOMAIN st.metrics |-> RenderMetric(st.metrics[k])]
    BY <1>1, SourcesExplain
  <2> DEFINE lines == Traces(st)
             marks == [k \in DOMAIN lines |-> lines[k][1]]
             g1 == [k \in DOMAIN st.limits |-> st.limits[k].label]
             g2 == [k \in DOMAIN st.metrics |-> st.metrics[k].label]
  <2>2. /\ st.plan # "" => "Plan" \in ToSet(marks)
        /\ st.tier # "" => "Tier" \in ToSet(marks)
        /\ st.provider # "" => "Provider" \in ToSet(marks)
        /\ st.model # "" => "Model" \in ToSet(marks)
        /\ IsSuffix(g1 \o g2, marks)
        /\ \A line \in ToSet(lines): line[2] # "unknown"
    <3>1. PICK tool, e: Sound(tool, e, st)
      BY <2>1
    <3>2. QED
      BY <3>1, TracesAre
  <2>3. p.lines = lines /\ labels = marks
    BY <2>1
  <2>4. f1 = g1
    <3> DEFINE drawn(l) == [label |-> l.label, shown |-> RenderLimit(l)]
    <3>1. \A l: drawn(l).label = l.label
      OBVIOUS
    <3>2. b.limits = [k \in DOMAIN st.limits |-> drawn(st.limits[k])]
      BY <2>1
    <3> HIDE DEF drawn
    <3>3. DOMAIN b.limits = DOMAIN st.limits /\ \A k \in DOMAIN st.limits: b.limits[k] = drawn(st.limits[k])
      BY <3>2
    <3>4. \A k \in DOMAIN st.limits: b.limits[k].label = st.limits[k].label
      BY <3>1, <3>3
    <3>5. QED
      BY <3>3, <3>4
  <2>5. f2 = g2
    <3>1. \A m: RenderMetric(m).label = m.label
      BY DEF RenderMetric
    <3>2. DOMAIN b.metrics = DOMAIN st.metrics
          /\ \A k \in DOMAIN st.metrics: b.metrics[k] = RenderMetric(st.metrics[k])
      BY <2>1
    <3>3. \A k \in DOMAIN st.metrics: b.metrics[k].label = st.metrics[k].label
      BY <3>1, <3>2
    <3>4. QED
      BY <3>2, <3>3
  <2>6. b.plan = st.plan /\ b.tier \in {st.tier, ""} /\ b.provider = st.provider /\ b.model = st.model
    BY <2>1
  <2> HIDE DEF labels, marks, f1, f2, g1, g2, lines
  <2>7. /\ b.plan # "" => "Plan" \in ToSet(labels)
        /\ b.tier # "" => "Tier" \in ToSet(labels)
        /\ b.provider # "" => "Provider" \in ToSet(labels)
        /\ b.model # "" => "Model" \in ToSet(labels)
        /\ IsSuffix(f1 \o f2, labels)
        /\ \A line \in ToSet(p.lines): line[2] # "unknown"
    BY <2>2, <2>3, <2>4, <2>5, <2>6
  <2>8. QED
    BY <2>7 DEF labels, f1, f2
<1>2. QED
  BY <1>1, DoctorExplains, SourcesExplain DEF Explained

\* Doctor and sources list every integration in order, doctor gives a reason
\* for what has no status, and sources names the source of every line of the
\* dashboard (doctor.go, sources.go).
THEOREM ExplainedHolds == Spec => []Explained
BY InvHolds, ExplainedFollows, PTL

(***************************************************************************)
(* What is told of today                                                   *)
(***************************************************************************)
Told(st, units) == {m.value: m \in {m \in ToSet(st.metrics): m.unit \in units}}
Is(values, figure) == values = {figure} \/ (values = {} /\ figure = 0)

\* What a status tells of the records in s is theirs.
Fits(tool, s, st) ==
  LET places == Usage(tool, s) \cap Reached(tool, s)
  IN  /\ Is(Told(st, {"", "sessions"}), One * Cardinality(places))
      /\ Is(Told(st, {"tokens"}), One * Total(s, places, "tokens"))

\* Of no records nothing need be told.
LEMMA NoneFit ==
  ASSUME NEW s
  PROVE  One * Cardinality({}) = 0 /\ One * Total(s, {}, "tokens") = 0
<1>1. IsFiniteSet({}) /\ Cardinality({}) = 0
  BY FS_EmptySet
<1>2. Units(s, "tokens", {}) = {}
  BY DEF Units
<1>3. Total(s, {}, "tokens") = Cardinality(Units(s, "tokens", {}))
  BY <1>1, TotalIsCount
<1>4. Total(s, {}, "tokens") = 0
  BY <1>1, <1>2, <1>3
<1>5. QED
  BY <1>1, <1>4 DEF One

\* How often, how many tokens, and something else.
LEMMA ThreeTold ==
  ASSUME NEW st, NEW a, NEW b, NEW c, ToSet(st.metrics) \subseteq {a, b, c},
         a \in ToSet(st.metrics), b \in ToSet(st.metrics),
         a.unit \in {"", "sessions"}, b.unit = "tokens", c.unit \notin {"", "sessions", "tokens"}
  PROVE  Told(st, {"", "sessions"}) = {a.value} /\ Told(st, {"tokens"}) = {b.value}
<1> DEFINE M == ToSet(st.metrics)
           counts == {m \in M: m.unit \in {"", "sessions"}}
           sums == {m \in M: m.unit \in {"tokens"}}
<1> HIDE DEF M
<1>1. M \subseteq {a, b, c} /\ a \in M /\ b \in M
  BY DEF M
<1>2. counts = {a} /\ sums = {b}
  BY <1>1
<1>3. Told(st, {"", "sessions"}) = {m.value: m \in counts} /\ Told(st, {"tokens"}) = {m.value: m \in sums}
  BY DEF Told, M
<1> HIDE DEF counts, sums
<1>4. QED
  BY <1>2, <1>3

LEMMA ThreeFit ==
  ASSUME NEW tool, NEW s, NEW today, today = Usage(tool, s) \cap Reached(tool, s),
         NEW st, NEW a, NEW b, NEW c, ToSet(st.metrics) \subseteq {a, b, c},
         a \in ToSet(st.metrics), b \in ToSet(st.metrics),
         a.unit \in {"", "sessions"}, b.unit = "tokens", c.unit \notin {"", "sessions", "tokens"},
         a.value = One * Cardinality(today), b.value = One * Total(s, today, "tokens")
  PROVE  Fits(tool, s, st)
<1> DEFINE counts == Told(st, {"", "sessions"})
           sums == Told(st, {"tokens"})
<1>1. counts = {a.value} /\ sums = {b.value}
  BY ThreeTold
<1> HIDE DEF counts, sums
<1>2. /\ Is(counts, One * Cardinality(today))
      /\ Is(sums, One * Total(s, today, "tokens"))
  BY <1>1 DEF Is
<1>3. QED
  BY <1>2 DEF Fits, counts, sums

LEMMA ThreeOf == ASSUME NEW a, NEW b, NEW c PROVE ToSet(<<a, b, c>>) = {a, b, c}
<1>1. DOMAIN <<a, b, c>> = {1, 2, 3}
  OBVIOUS
<1>2. QED
  BY <1>1 DEF ToSet

\* There is one history at most.
LEMMA HistoryAlone ==
  ASSUME NEW e \in Machine("cline"), NEW g \in TaskHistory(e), NEW h \in TaskHistory(e)
  PROVE  g = h
<1> DEFINE with == {k \in DOMAIN e.editors: Exists(e.editors[k].history)}
           Editor == [exists: BOOLEAN, history: Maybe([parses: BOOLEAN, tasks: Seq(Task)])]
<1>1. e.editors \in Seq(Editor)
  BY DEF Machine
<1>2. with # {} /\ g \in e.editors[Min(with)].history /\ h \in e.editors[Min(with)].history
  BY DEF TaskHistory
<1>3. with \subseteq Nat /\ with \subseteq DOMAIN e.editors
  BY <1>1
<1>4. Min(with) \in with
  BY <1>2, <1>3, MinIs
<1> HIDE DEF with, Editor
<1>5. PICK k \in DOMAIN e.editors: g \in e.editors[k].history /\ h \in e.editors[k].history
  BY <1>2, <1>3, <1>4
<1>6. e.editors[k] \in Editor
  BY <1>1
<1>7. QED
  BY <1>5, <1>6 DEF Editor, Maybe

\* Aider's events are scanned up to the first line that is too long.
LEMMA ScannedTells ==
  ASSUME NEW log \in Seq(LogLine)
  PROVE  /\ Scanned(log) \subseteq DOMAIN log
         /\ \A k \in Reached("aider", log): k \in Scanned(log)
         /\ \A k \in Scanned(log): k \in Reached("aider", log)
<1> DEFINE n == Len(log)
           long == {k \in DOMAIN log: log[k].kind = "oversized"}
           end == long \cup {n + 1}
<1>1. n \in Nat /\ DOMAIN log = 1..n
  OBVIOUS
<1>2. Scanned(log) \subseteq DOMAIN log
  BY <1>1, ScannedIs
<1>3. Scanned(log) = 1..(Min(end) - 1)
  BY DEF Scanned
<1>4. end \subseteq Nat /\ end # {}
  BY <1>1
<1>5. Min(end) \in end /\ \A x \in end: Min(end) <= x
  BY <1>4, MinIs
<1>6. ASSUME NEW k \in Reached("aider", log) PROVE k \in Scanned(log)
  <2>1. k \in 1..n /\ \A x \in 1..k: log[x].kind # "oversized"
    BY <1>1 DEF Reached
  <2>2. \A x \in end: k < x
    BY <1>1, <2>1
  <2> HIDE DEF end, n
  <2>3. k < Min(end) /\ Min(end) \in Nat
    BY <1>4, <1>5, <2>2
  <2>4. QED
    BY <1>3, <2>1, <2>3
<1>8. ASSUME NEW k \in Scanned(log) PROVE k \in Reached("aider", log)
  <2>1. k \in 1..n
    BY <1>1, <1>2
  <2>2. Min(end) \in Nat /\ k < Min(end)
    <3>1. Min(end) \in Nat
      BY <1>4, <1>5
    <3> HIDE DEF end
    <3>2. QED
      BY <1>3, <2>1, <3>1
  <2>3. ASSUME NEW x \in 1..k PROVE log[x].kind # "oversized"
    <3>1. x \in DOMAIN log /\ x <= k
      BY <1>1, <2>1
    <3>2. SUFFICES ASSUME log[x].kind = "oversized" PROVE FALSE
      OBVIOUS
    <3>3. Min(end) <= x
      BY <1>5, <3>1, <3>2
    <3> HIDE DEF end
    <3>4. QED
      BY <2>1, <2>2, <3>1, <3>3
  <2>4. QED
    BY <1>1, <2>1, <2>3 DEF Reached
<1>7. QED
  BY <1>2, <1>6, <1>8

LEMMA AiderFits ==
  ASSUME NEW e \in Machine("aider"), NEW s \in e.log, NEW st \in FetchAider(e)
  PROVE  Fits("aider", s, st)
<1> DEFINE today == Since(s, Events(s), localDayStartMs \div Millis)
           a == Metric("Requests", "", One * Cardinality(today), "local state")
           b == Metric("Today", "tokens", One * Total(s, today, "tokens"), "local state")
           c == Metric("Cost", "cost", Total(s, today, "cost"), "local state")
<1>1. e.log \in Maybe(Seq(LogLine))
  BY DEF Machine
<1>2. s \in Seq(LogLine) /\ st = AiderStatus(s)
  BY <1>1 DEF FetchAider, Maybe
<1>4. localDayStartMs \div Millis = DayStart
  BY DEF localDayStartMs, Millis, DayStart
<1>5. today = {k \in Scanned(s): s[k].kind = "message_send" /\ s[k].time >= DayStart}
  BY <1>4 DEF Since, Events
<1>6. Usage("aider", s) = {k \in DOMAIN s: s[k].kind = "message_send" /\ s[k].time >= DayStart}
  BY DEF Usage
<1>7. today = Usage("aider", s) \cap Reached("aider", s)
  BY <1>2, <1>5, <1>6, ScannedTells
<1>8. st.metrics = <<a, b, c>>
  BY <1>2 DEF AiderStatus, NoStatus
<1>9. /\ a.unit = "" /\ a.value = One * Cardinality(today) /\ b.unit = "tokens"
      /\ b.value = One * Total(s, today, "tokens") /\ c.unit = "cost"
  BY DEF Metric
<1> HIDE DEF today, a, b, c
<1>10. ToSet(st.metrics) = {a, b, c}
  BY <1>8, ThreeOf
<1>11. QED
  BY <1>7, <1>9, <1>10, ThreeFit

\* A log that has an event before any line that is too long is not refused.
LEMMA AiderReads ==
  ASSUME NEW e \in Machine("aider"), NEW s \in e.log,
         Usage("aider", s) \cap Reached("aider", s) # {}
  PROVE  Exists(FetchAider(e))
<1>1. e.log \in Maybe(Seq(LogLine))
  BY DEF Machine
<1>2. s \in Seq(LogLine)
  BY <1>1 DEF Maybe
<1>3. PICK k \in Usage("aider", s): k \in Scanned(s)
  BY <1>2, ScannedTells
<1>4. s[k].kind = "message_send"
  BY DEF Usage
<1>5. ~ParseFails(s)
  BY <1>3, <1>4 DEF ParseFails
<1>6. AiderStatus(s) \in FetchAider(e)
  BY <1>5 DEF FetchAider
<1>7. QED
  BY <1>6 DEF Exists

LEMMA ClineFits ==
  ASSUME NEW e \in Machine("cline"), NEW s \in {h.tasks: h \in TaskHistory(e)}, NEW st \in FetchCline(e)
  PROVE  Fits("cline", s, st)
<1> DEFINE today == Since(s, DOMAIN s, localDayStartMs)
           a == Metric("Tasks", "", One * Cardinality(today), "local state")
           b == Metric("Today", "tokens", One * Total(s, today, "tokens"), "local state")
           c == Metric("Cost", "cost", Total(s, today, "cost"), "local state")
<1>1. PICK h \in TaskHistory(e): s = h.tasks
  OBVIOUS
<1>2. PICK g \in TaskHistory(e): st = ClineStatus(g.tasks)
  BY DEF FetchCline
<1>3. s \in Seq(Task) /\ st = ClineStatus(s)
  BY <1>1, <1>2, HistoryIs, HistoryAlone
<1>5. today = Usage("cline", s) \cap Reached("cline", s)
  BY DEF Since, Usage, Reached
<1>6. st.metrics = <<a, b, c>>
  BY <1>3 DEF ClineStatus, NoStatus
<1>7. /\ a.unit = "" /\ a.value = One * Cardinality(today) /\ b.unit = "tokens"
      /\ b.value = One * Total(s, today, "tokens") /\ c.unit = "cost"
  BY DEF Metric
<1> HIDE DEF today, a, b, c
<1>8. ToSet(st.metrics) = {a, b, c}
  BY <1>6, ThreeOf
<1>9. QED
  BY <1>5, <1>7, <1>8, ThreeFit

LEMMA OpenCodeFits ==
  ASSUME NEW e \in Machine("opencode"), NEW s \in {db.sessions: db \in e.db}, NEW st \in FetchOpenCode(e)
  PROVE  Fits("opencode", s, st)
<1> DEFINE today == Since(s, DOMAIN s, localDayStartMs)
           b == Metric("Today", "tokens", One * Total(s, today, "tokens"), "local database")
           c == Metric("Cost", "cost", Total(s, today, "cost"), "local database")
           a == Metric("Sessions", "sessions", One * Cardinality(today), "local database")
<1>1. e.db \in Maybe([sessions: Seq(Session)])
  BY DEF Machine
<1>2. s \in Seq(Session) /\ st = OpenCodeStatus([sessions |-> s])
  <2>1. PICK db \in e.db: s = db.sessions
    OBVIOUS
  <2>2. st = OpenCodeStatus(db)
    BY <1>1 DEF FetchOpenCode, Maybe
  <2>3. s \in Seq(Session)
    BY <1>1, <2>1 DEF Maybe
  <2>4. OpenCodeStatus(db) = OpenCodeStatus([sessions |-> s])
    BY <2>1 DEF OpenCodeStatus
  <2>5. QED
    BY <2>2, <2>3, <2>4
<1>5. today = Usage("opencode", s) \cap Reached("opencode", s)
  BY DEF Since, Usage, Reached
<1>6. st.metrics = <<b, c, a>>
  BY <1>2 DEF OpenCodeStatus, NoStatus
<1>7. /\ a.unit = "sessions" /\ a.value = One * Cardinality(today) /\ b.unit = "tokens"
      /\ b.value = One * Total(s, today, "tokens") /\ c.unit = "cost"
  BY DEF Metric
<1> HIDE DEF today, a, b, c
<1>8. ToSet(st.metrics) = {b, c, a}
  BY <1>6, ThreeOf
<1>9. QED
  BY <1>5, <1>7, <1>8, ThreeFit

\* Copilot tells nothing of a day without a session.
LEMMA CopilotFits ==
  ASSUME NEW e \in Machine("copilot"), NEW s \in {db.sessions: db \in e.db}, NEW st \in FetchCopilot(e)
  PROVE  Fits("copilot", s, st)
<1> DEFINE today == Since(s, DOMAIN s, localDayStartMs)
           a == Metric("Today", "sessions", One * Cardinality(today), "local database")
           b == Metric("Tokens", "tokens", One * Total(s, today, "tokens"), "local database")
           c == Metric("AI credits", "credits", Total(s, today, "credits"), "local database")
<1>1. e.db \in Maybe([accounts: Seq([login: STRING, default: BOOLEAN]), sessions: Seq(Session)])
  BY DEF Machine
<1>2. s \in Seq(Session)
  BY <1>1 DEF Maybe
<1>3. st.metrics = IF today = {} THEN <<>> ELSE <<a, b>> \o Positive(c)
  <2>1. PICK db \in e.db: s = db.sessions
    OBVIOUS
  <2>2. st = CopilotStatus(db)
    BY <1>1 DEF FetchCopilot, Maybe
  <2>3. QED
    BY <2>1, <2>2 DEF CopilotStatus, NoStatus
<1>5. today = Usage("copilot", s) \cap Reached("copilot", s)
  BY DEF Since, Usage, Reached
<1>6. /\ a.unit = "sessions" /\ a.value = One * Cardinality(today) /\ b.unit = "tokens"
      /\ b.value = One * Total(s, today, "tokens") /\ c.unit = "credits"
  BY DEF Metric
<1> HIDE DEF today, a, b, c
<1>7. CASE today # {}
  <2> DEFINE T == {a, b, c}
             two == <<a, b>>
             last == Positive(c)
             d == two \o last
  <2>1. a \in T /\ b \in T /\ c \in T
    OBVIOUS
  <2> HIDE DEF T
  <2>2. two \in Seq(T) /\ Len(two) = 2 /\ two[1] = a /\ two[2] = b /\ last \in Seq(T)
    BY <2>1 DEF Positive
  <2> HIDE DEF two, last
  <2>3. d \in Seq(T) /\ Len(d) = 2 + Len(last) /\ d[1] = a /\ d[2] = b /\ Len(last) \in Nat
    <3>1. Len(last) \in Nat
      BY <2>2
    <3>2. d \in Seq(T) /\ Len(d) = Len(two) + Len(last)
      BY <2>2, ConcatProperties
    <3>3. \A i \in 1..(Len(two) + Len(last)): d[i] = IF i <= Len(two) THEN two[i] ELSE last[i - Len(two)]
      BY <2>2, ConcatProperties
    <3> HIDE DEF d
    <3>4. d[1] = two[1] /\ d[2] = two[2]
      <4> DEFINE x == Len(last)
                 y == Len(two)
      <4>1. x \in Nat /\ y = 2 /\ \A i \in 1..(y + x): d[i] = IF i <= y THEN two[i] ELSE last[i - y]
        BY <2>2, <3>1, <3>3
      <4> HIDE DEF x, y
      <4>2. QED
        BY <4>1
    <3>5. QED
      BY <2>2, <3>1, <3>2, <3>4
  <2>4. st.metrics = d
    BY <1>3, <1>7 DEF two, last
  <2> HIDE DEF d
  <2>5. DOMAIN d = 1..Len(d) /\ 1 \in DOMAIN d /\ 2 \in DOMAIN d /\ \A k \in DOMAIN d: d[k] \in T
    BY <2>3
  <2>6. ToSet(st.metrics) \subseteq {a, b, c} /\ a \in ToSet(st.metrics) /\ b \in ToSet(st.metrics)
    BY <2>3, <2>4, <2>5 DEF ToSet, T
  <2>7. QED
    BY <1>5, <1>6, <2>6, ThreeFit
<1>8. CASE today = {}
  <2> DEFINE counts == Told(st, {"", "sessions"})
             sums == Told(st, {"tokens"})
  <2>1. ToSet(st.metrics) = {}
    BY <1>3, <1>8 DEF ToSet
  <2>2. counts = {} /\ sums = {}
    BY <2>1 DEF Told
  <2> HIDE DEF counts, sums
  <2>3. /\ Is(counts, One * Cardinality(today))
        /\ Is(sums, One * Total(s, today, "tokens"))
    BY <1>8, <2>2, NoneFit DEF Is
  <2>4. QED
    BY <1>5, <2>3 DEF Fits, counts, sums
<1>9. QED
  BY <1>7, <1>8

LEMMA FetchFits ==
  ASSUME NEW tool, NEW e \in Machine(tool), NEW s \in Recorded(tool, e), NEW st \in Fetch(tool, e)
  PROVE  Fits(tool, s, st)
<1>1. CASE tool = "aider"
  BY <1>1, AiderFits DEF Recorded, Fetch
<1>2. CASE tool = "cline"
  BY <1>2, ClineFits DEF Recorded, Fetch
<1>3. CASE tool = "copilot"
  BY <1>3, CopilotFits DEF Recorded, Fetch
<1>4. CASE tool = "opencode"
  BY <1>4, OpenCodeFits DEF Recorded, Fetch
<1>5. QED
  BY <1>1, <1>2, <1>3, <1>4 DEF Recorded

LEMMA TodaysFiguresFollows == Inv => TodaysFigures
<1> SUFFICES ASSUME Inv, NEW k \in DOMAIN results,
                    NEW s \in Recorded(registry[k], setup.after[registry[k]])
             PROVE  /\ \A st \in results[k].status: Fits(registry[k], s, st)
                    /\ registry[k] = "aider" /\ Usage(registry[k], s) \cap Reached(registry[k], s) # {}
                         => ~results[k].failed
  BY DEF TodaysFigures, Fits, Is, Told, Total, Shows, ShowsUsage
<1> DEFINE tool == registry[k]
           e == setup.after[tool]
           r == results[k]
<1>1. Stages /\ setup \in Setups /\ k \in DOMAIN registry
  BY ResultIs DEF Inv, Stages
<1>2. e \in Machine(tool)
  BY <1>1, SetupIs
<1>3. /\ r.status \subseteq Fetch(tool, e)
      /\ Available(r.detection) => r.status = Fetch(tool, e)
      /\ r.failed <=> Available(r.detection) /\ ~Exists(r.status)
  BY <1>1, ResultIs
<1>4. s \in Recorded(tool, e)
  OBVIOUS
<1> HIDE DEF tool, e, r
<1>5. \A st \in r.status: Fits(tool, s, st)
  BY <1>2, <1>3, <1>4, FetchFits
<1>6. ASSUME tool = "aider", Usage(tool, s) \cap Reached(tool, s) # {} PROVE ~r.failed
  <2>1. e \in Machine("aider") /\ s \in e.log
    BY <1>2, <1>4, <1>6 DEF Recorded
  <2>2. Exists(FetchAider(e))
    BY <1>6, <2>1, AiderReads
  <2>3. Fetch(tool, e) = FetchAider(e)
    BY <1>6 DEF Fetch
  <2>4. QED
    BY <1>3, <2>2, <2>3
<1>7. QED
  BY <1>5, <1>6 DEF tool, e, r

\* What is told of today is the number and the sum of today's records, of
\* aider's those before a line that is too long, whatever cannot be parsed; and
\* a log with an event before that is not refused (aider.go, cline.go,
\* copilot.go, opencode.go).
THEOREM TodaysFiguresHolds == Spec => []TodaysFigures
BY InvHolds, TodaysFiguresFollows, PTL
=============================================================================
