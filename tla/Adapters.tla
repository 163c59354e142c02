------------------------------ MODULE Adapters ------------------------------
(***************************************************************************)
(* The eleven adapters of internal/adapters as functions of the machine    *)
(* they look at: what Detect finds, and the status that Fetch makes of     *)
(* files, databases and answers.  What can be absent or fail to be read is *)
(* a set of at most one value, a text that is not there is "", and Fetch   *)
(* yields at most one status, none if it returns an error.  How an answer  *)
(* is obtained, and when, is in RpcClient, FreebuffGuard, Transcripts and  *)
(* RaceDialer.  Amounts that may have a fraction are in tenths.            *)
(***************************************************************************)
EXTENDS Integers, Sequences, FiniteSets, SequencesExt, FiniteSetsExt

One == 10               \* 1.0 in tenths
Millis == 10            \* bound: the milliseconds of a second
DayStart == 2           \* today's local midnight, in seconds
localDayStartMs == DayStart * Millis

Exists(s) == s # {}
The(s) == CHOOSE x \in s: TRUE
Either(text, otherwise) == IF text # "" THEN text ELSE otherwise
Title(s) == CASE s = "plus" -> "Plus" [] s = "pro" -> "Pro" [] s = "free" -> "Free"
              [] OTHER -> s
\* The sum of one field over some of the records.
Total(s, places, field) == MapThenSumSet(LAMBDA k: s[k][field], places)
Optional(make(_), s) == IF Exists(s) THEN <<make(The(s))>> ELSE <<>>
\* A number that an answer leaves out, or that cannot be read, is 0 in Go.
Decoded(number) == IF Exists(number) THEN The(number) ELSE 0

(***************************************************************************)
(* What they find on the machine                                           *)
(***************************************************************************)
Session == [time: Int, tokens: Nat, cost: Nat, credits: Nat, model: STRING]
Task == [time: Int, tokens: Nat, cost: Nat]
LogLine == [kind: STRING, time: Int, tokens: Nat, cost: Nat, model: STRING, provider: STRING]

\* What is there or is not.  Other numbers than these show nothing if they are
\* left out, as if they were 0.
Maybe(S) == {found \in SUBSET S: \A x, y \in found: x = y}
Window == [percent: Maybe(Int), mins: Int]
Credits == [has: BOOLEAN, balance: Maybe(Int)]
Utilization == [utilization: Maybe(Int)]
Quota == [provider: STRING, recent: Maybe(Int), limit: Maybe(Int), unlimited: BOOLEAN]

Machine(tool) ==
  CASE tool = "codex" ->
         [onPath: BOOLEAN, auth: BOOLEAN,
          reply: Maybe([plan: STRING, multiplier: Maybe(Int), primary: Maybe(Window),
                        secondary: Maybe(Window), credits: Maybe(Credits)])]
    [] tool = "claude" ->
         [onPath: BOOLEAN, projects: BOOLEAN, state: BOOLEAN, transcripts: Nat,
          account: Maybe([email: STRING, type: STRING, tier: STRING]),
          tally: Maybe([records: Nat, tokens: Nat, sessions: Nat, model: STRING]),
          usage: Maybe([fiveHour: Maybe(Utilization), sevenDay: Maybe(Utilization)])]
    [] tool = "gemini" -> [onPath: BOOLEAN, accounts: Maybe([active: Maybe(STRING)])]
    [] tool = "qwen" ->
         [onPath: BOOLEAN,
          settings: Maybe([authType: STRING, provider: STRING, model: STRING, modelId: STRING])]
    [] tool = "droid" ->
         [onPath: BOOLEAN, file: BOOLEAN, key: BOOLEAN, settings: Maybe([model: STRING])]
    [] tool = "openrouter" ->
         [key: BOOLEAN,
          reply: Maybe([free: BOOLEAN, usage: Int, monthly: Int, daily: Int,
                        limit: Maybe(Int), remaining: Maybe(Int)])]
    [] tool = "aider" -> [onPath: BOOLEAN, log: Maybe(Seq(LogLine))]
    [] tool = "cline" ->
         [editors: Seq([exists: BOOLEAN, history: Maybe([parses: BOOLEAN, tasks: Seq(Task)])])]
    [] tool = "copilot" ->
         [onPath: BOOLEAN, file: BOOLEAN,
          db: Maybe([accounts: Seq([login: STRING, default: BOOLEAN]), sessions: Seq(Session)])]
    [] tool = "opencode" -> [file: BOOLEAN, db: Maybe([sessions: Seq(Session)])]
    [] tool = "freebuff" ->
         [dir: BOOLEAN, file: BOOLEAN, token: BOOLEAN, running: BOOLEAN,
          reply: Maybe([tier: STRING, message: BOOLEAN, models: Seq(Maybe(Quota)),
                        promo: Maybe(Int), perDay: Int, per5Hours: Int])]

(***************************************************************************)
(* What they return                                                        *)
(***************************************************************************)
NoStatus == [plan |-> "", tier |-> "", multiplier |-> 0, provider |-> "", model |-> "",
             account |-> "", limits |-> <<>>, metrics |-> <<>>, notes |-> 0, source |-> ""]

\* Every Detect looks at one thing after another, the first being what tells
\* that the tool is installed, and gives the first that is missing as reason.
Detected(checks, authenticated, configured) ==
  LET missing == {k \in DOMAIN checks: ~checks[k][1]}
      there == missing = {}
  IN  [installed |-> there \/ Min(missing) > 1,
       authenticated |-> there /\ authenticated, configured |-> there /\ configured,
       reason |-> IF there THEN "" ELSE checks[Min(missing)][2]]

Unknown == -1
Percentage(label, tenths) ==
  [label |-> label, used |-> Unknown, total |-> 0, percent |-> tenths,
   unlimited |-> FALSE, sessions |-> FALSE, source |-> "official API"]
Sessions(label, used, total, unlimited) ==
  [label |-> label, used |-> used, total |-> total, percent |-> 0,
   unlimited |-> unlimited, sessions |-> TRUE, source |-> "internal API"]
Metric(label, unit, value, source) ==
  [label |-> label, unit |-> unit, value |-> value, source |-> source]
Positive(m) == IF m.value > 0 THEN <<m>> ELSE <<>>

(***************************************************************************)
(* Codex: the app-server's rate limits                                     *)
(***************************************************************************)
DetectCodex(e) ==
  Detected(<< <<e.onPath, "binary_missing">>, <<e.auth, "authentication_missing">> >>, TRUE, FALSE)

ClassifyWindow(mins) ==
  CASE mins = 300 -> "5h" [] mins = 1440 -> "Daily" [] mins = 10080 -> "Weekly"
    [] mins <= 0 -> "" [] OTHER -> "hours"

AddWindow(w) == Percentage(ClassifyWindow(w.mins), One * Decoded(w.percent))

\* Mutant of HonoredMultiplier: whatever the plan is.
HonoredMultiplierMutant(r) ==
  IF Exists(r.multiplier) /\ The(r.multiplier) > 0 THEN The(r.multiplier) ELSE 0
HonoredMultiplier(r) ==
  IF Exists(r.multiplier) /\ Title(r.plan) = "Pro" /\ The(r.multiplier) > 0
  THEN The(r.multiplier) ELSE 0

\* A balance that is not a number is 0 as well.
Balance(credits) == Metric("Credits", "credits", Decoded(credits.balance), "")

ParseRateLimits(r) ==
  [NoStatus EXCEPT
     !.source = "official API", !.plan = Title(r.plan), !.multiplier = HonoredMultiplier(r),
     !.limits = Optional(AddWindow, r.primary) \o Optional(AddWindow, r.secondary),
     !.metrics = Optional(Balance, {c \in r.credits: c.has})]

FetchCodex(e) == {ParseRateLimits(r): r \in e.reply}

(***************************************************************************)
(* Claude: the account, the usage windows and the transcripts' tally       *)
(***************************************************************************)
\* Mutant of ReasonClaude: a directory of transcripts is taken for transcripts.
ReasonClaudeMutant(e) == IF ~Exists(e.account) /\ ~e.projects THEN "local_state_unavailable" ELSE ""
ReasonClaude(e) ==
  IF ~Exists(e.account) /\ e.transcripts = 0 THEN "local_state_unavailable" ELSE ""

DetectClaude(e) ==
  IF ~(e.onPath \/ e.projects \/ e.state)
  THEN Detected(<< <<FALSE, "binary_missing">> >>, FALSE, FALSE)
  ELSE [installed |-> TRUE, authenticated |-> Exists(e.account),
        configured |-> e.transcripts > 0, reason |-> ReasonClaude(e)]

PlanFromOrganizationType(t) ==
  CASE t \in {"claude_free", "free"} -> "Free" [] t \in {"claude_pro", "pro"} -> "Pro"
    [] t \in {"claude_max", "max"} -> "Max" [] t \in {"claude_business", "business"} -> "Business"
    [] t \in {"claude_enterprise", "enterprise"} -> "Enterprise" [] OTHER -> ""

\* The utilization is in thousandths.
UsageWindow(label, w) == Percentage(label, (Decoded(w.utilization) * 100 * One) \div 1000)
UsageLimits(windows) ==
  Optional(LAMBDA w: UsageWindow("5h", w), windows.fiveHour)
    \o Optional(LAMBDA w: UsageWindow("Weekly", w), windows.sevenDay)

TranscriptMetrics(tally) ==
  <<Metric("Today", "tokens", One * tally.tokens, "local state"),
    Metric("Sessions", "", One * tally.sessions, "local state")>>

\* Where there are no projects no transcript is looked for; a tally that fails
\* leaves a note, and one of nothing leaves no trace.
ClaudeStatus(e) ==
  LET acct == IF Exists(e.account) THEN The(e.account) ELSE [email |-> "", type |-> "", tier |-> ""]
      used == {t \in e.tally: e.projects /\ t.records > 0}
  IN  [NoStatus EXCEPT
         !.source = "local state", !.account = acct.email,
         !.plan = PlanFromOrganizationType(acct.type),
         !.tier = IF acct.tier = "default_claude_ai" THEN "" ELSE acct.tier,
         !.limits = IF Exists(e.usage) THEN UsageLimits(The(e.usage)) ELSE <<>>,
         !.metrics = IF Exists(used) THEN TranscriptMetrics(The(used)) ELSE <<>>,
         !.model = IF Exists(used) THEN The(used).model ELSE "",
         !.notes = IF e.projects /\ ~Exists(e.tally) THEN 1 ELSE 0]

Usable(st) == st.plan # "" \/ st.tier # "" \/ st.limits # <<>> \/ st.metrics # <<>>
FetchClaude(e) == {st \in {ClaudeStatus(e)}: Usable(st)}

(***************************************************************************)
(* Gemini, Qwen Code and Droid: a settings file                            *)
(***************************************************************************)
DetectGemini(e) ==
  Detected(<< <<e.onPath, "binary_missing">>, <<Exists(e.accounts), "authentication_missing">>,
              <<\E a \in e.accounts: Exists(a.active), "authentication_missing">> >>, TRUE, FALSE)
FetchGemini(e) ==
  {[NoStatus EXCEPT !.source = "local state",
                    !.account = IF Exists(a.active) THEN The(a.active) ELSE ""]: a \in e.accounts}

DetectQwen(e) ==
  Detected(<< <<e.onPath, "binary_missing">>, <<Exists(e.settings), "configuration_missing">>,
              <<\E s \in e.settings: s.authType # "", "authentication_missing">> >>, TRUE, TRUE)
QwenStatus(s) ==
  LET model == Either(s.model, s.modelId)
  IN  [NoStatus EXCEPT !.source = "config", !.model = model,
                       !.provider = IF model # "" THEN Either(s.provider, "Qwen") ELSE s.provider]
FetchQwen(e) == {QwenStatus(s): s \in e.settings}

DetectDroid(e) ==
  Detected(<< <<e.onPath, "binary_missing">>, <<e.file, "configuration_missing">> >>, e.key, TRUE)
FetchDroid(e) == {[NoStatus EXCEPT !.source = "config", !.model = s.model]: s \in e.settings}

(***************************************************************************)
(* OpenRouter: the figures of the key, those that are positive             *)
(***************************************************************************)
DetectOpenRouter(e) == Detected(<< <<e.key, "authentication_missing">> >>, TRUE, FALSE)

KeyMetrics(d) ==
  LET cost(label, v) == Positive(Metric(label, "cost", v, "official API"))
      given(label, s) == IF Exists(s) THEN cost(label, The(s)) ELSE <<>>
  IN  cost("Usage", d.usage) \o cost("Monthly", d.monthly) \o cost("Daily", d.daily)
        \o given("Limit", d.limit) \o given("Remaining", d.remaining)
KeyStatus(d) ==
  [NoStatus EXCEPT !.source = "official API", !.plan = IF d.free THEN "Free" ELSE "",
                   !.metrics = KeyMetrics(d)]
FetchOpenRouter(e) == IF e.key THEN {KeyStatus(d): d \in e.reply} ELSE {}

(***************************************************************************)
(* The local tallies of today: Aider, Cline, Copilot and OpenCode          *)
(***************************************************************************)
\* Mutant of Since: midnight itself is yesterday.
SinceMutant(s, places, start) == {k \in places: s[k].time > start}
Since(s, places, start) == {k \in places: s[k].time >= start}
LastModel(s, places) ==
  LET named == {k \in places: s[k].model # ""}
  IN  IF named = {} THEN [model |-> "", provider |-> ""] ELSE s[Max(named)]

DetectAider(e) ==
  Detected(<< <<e.onPath, "binary_missing">>, <<Exists(e.log), "local_state_unavailable">> >>, FALSE, TRUE)

\* bufio.Scanner ends at a line that is longer than its buffer.
Scanned(log) ==
  LET long == {k \in DOMAIN log: log[k].kind = "oversized"}
  IN  1..Min(long \cup {Len(log) + 1}) - 1

ParseFails(log) ==
  LET kinds == {log[k].kind: k \in Scanned(log)}
  IN  kinds \cap {"message_send", "other"} = {} /\ ("garbage" \in kinds \/ Scanned(log) # DOMAIN log)
Events(log) == {k \in Scanned(log): log[k].kind = "message_send"}

\* The events carry seconds; a model is recorded with the prefix before its "/".
AiderStatus(log) ==
  LET today == Since(log, Events(log), localDayStartMs \div Millis)
  IN  [NoStatus EXCEPT
         !.source = "local state",
         !.model = LastModel(log, today).model, !.provider = LastModel(log, today).provider,
         !.metrics = <<Metric("Requests", "", One * Cardinality(today), "local state"),
                       Metric("Today", "tokens", One * Total(log, today, "tokens"), "local state"),
                       Metric("Cost", "cost", Total(log, today, "cost"), "local state")>>]
FetchAider(e) == {AiderStatus(log): log \in {l \in e.log: ~ParseFails(l)}}

\* That of the first editor that has one.
TaskHistory(e) ==
  LET with == {k \in DOMAIN e.editors: Exists(e.editors[k].history)}
  IN  IF with = {} THEN {} ELSE e.editors[Min(with)].history
DetectCline(e) ==
  Detected(<< <<\E d \in ToSet(e.editors): d.exists, "binary_missing">>,
              <<Exists(TaskHistory(e)), "local_state_unavailable">> >>, FALSE, TRUE)
ClineStatus(tasks) ==
  LET today == Since(tasks, DOMAIN tasks, localDayStartMs)
  IN  [NoStatus EXCEPT
         !.source = "local state",
         !.metrics = <<Metric("Tasks", "", One * Cardinality(today), "local state"),
                       Metric("Today", "tokens", One * Total(tasks, today, "tokens"), "local state"),
                       Metric("Cost", "cost", Total(tasks, today, "cost"), "local state")>>]
FetchCline(e) == {ClineStatus(h.tasks): h \in {h \in TaskHistory(e): h.parses}}

\* The default account of github.com, or else the oldest.
ActiveAccount(accounts) ==
  LET default == {k \in DOMAIN accounts: accounts[k].default}
  IN  IF default # {} THEN {accounts[Min(default)].login}
      ELSE IF accounts # <<>> THEN {Head(accounts).login} ELSE {}
DetectCopilot(e) ==
  Detected(<< <<e.onPath, "binary_missing">>, <<e.file, "local_state_unavailable">>,
              <<\E db \in e.db: Exists(ActiveAccount(db.accounts)), "authentication_missing">> >>,
           TRUE, FALSE)
\* The sessions are in the order in which they were last updated.
CopilotStatus(db) ==
  LET today == Since(db.sessions, DOMAIN db.sessions, localDayStartMs)
      last == LastModel(db.sessions, DOMAIN db.sessions).model
  IN  [NoStatus EXCEPT
         !.source = "local database", !.account = The(ActiveAccount(db.accounts)),
         !.model = IF last = "auto" THEN "" ELSE last,
         !.metrics = IF today = {} THEN <<>>
           ELSE <<Metric("Today", "sessions", One * Cardinality(today), "local database"),
                  Metric("Tokens", "tokens", One * Total(db.sessions, today, "tokens"), "local database")>>
                \o Positive(Metric("AI credits", "credits", Total(db.sessions, today, "credits"),
                                   "local database"))]
FetchCopilot(e) ==
  {CopilotStatus(db): db \in {d \in e.db: Exists(ActiveAccount(d.accounts))}}

DetectOpenCode(e) == Detected(<< <<e.file, "local_state_unavailable">> >>, FALSE, TRUE)
OpenCodeStatus(db) ==
  LET today == Since(db.sessions, DOMAIN db.sessions, localDayStartMs)
  IN  [NoStatus EXCEPT
         !.source = "local database",
         !.metrics = <<Metric("Today", "tokens", One * Total(db.sessions, today, "tokens"), "local database"),
                       Metric("Cost", "cost", Total(db.sessions, today, "cost"), "local database"),
                       Metric("Sessions", "sessions", One * Cardinality(today), "local database")>>]
FetchOpenCode(e) == {OpenCodeStatus(db): db \in e.db}

(***************************************************************************)
(* Freebuff: the session endpoint, unless an instance is running           *)
(***************************************************************************)
DetectFreebuff(e) ==
  Detected(<< <<e.dir, "configuration_missing">>, <<e.file, "configuration_missing">>,
              <<e.token, "authentication_missing">> >>, TRUE, TRUE)

Boundless(q) == q.unlimited \/ Decoded(q.limit) <= 0
SessionLimit(q) ==
  Sessions(Either(q.provider, "Model"), Decoded(q.recent),
           IF Boundless(q) THEN 0 ELSE One * Decoded(q.limit), Boundless(q))
PromoLimit(sessions) == Sessions("GLM", Unknown, One * sessions, FALSE)

SessionStatus(s) ==
  [NoStatus EXCEPT
     !.source = "internal API",
     !.tier = IF s.tier = "none" THEN "" ELSE Title(s.tier),
     !.notes = IF s.message THEN 1 ELSE 0,
     !.limits = FlattenSeq([k \in DOMAIN s.models |-> Optional(SessionLimit, s.models[k])])
                  \o Optional(PromoLimit, {n \in s.promo: n > 0}),
     !.metrics = Positive(Metric("Daily msgs", "msgs", One * s.perDay, ""))
                   \o Positive(Metric("5h msgs", "msgs", One * s.per5Hours, ""))]
GuardStatus == [NoStatus EXCEPT !.source = "local state", !.notes = 1]
FetchFreebuff(e) ==
  IF e.running THEN {GuardStatus}
  ELSE IF e.token THEN {SessionStatus(s): s \in e.reply} ELSE {}

(***************************************************************************)
(* The adapters by name                                                    *)
(***************************************************************************)
Defaults == <<"codex", "claude", "gemini", "copilot", "qwen", "openrouter", "cline", "aider",
              "droid", "opencode", "freebuff">>

Detect(tool, e) ==
  CASE tool = "codex" -> DetectCodex(e) [] tool = "claude" -> DetectClaude(e)
    [] tool = "gemini" -> DetectGemini(e) [] tool = "qwen" -> DetectQwen(e)
    [] tool = "droid" -> DetectDroid(e) [] tool = "openrouter" -> DetectOpenRouter(e)
    [] tool = "aider" -> DetectAider(e) [] tool = "cline" -> DetectCline(e)
    [] tool = "copilot" -> DetectCopilot(e) [] tool = "opencode" -> DetectOpenCode(e)
    [] tool = "freebuff" -> DetectFreebuff(e)

Fetch(tool, e) ==
  CASE tool = "codex" -> FetchCodex(e) [] tool = "claude" -> FetchClaude(e)
    [] tool = "gemini" -> FetchGemini(e) [] tool = "qwen" -> FetchQwen(e)
    [] tool = "droid" -> FetchDroid(e) [] tool = "openrouter" -> FetchOpenRouter(e)
    [] tool = "aider" -> FetchAider(e) [] tool = "cline" -> FetchCline(e)
    [] tool = "copilot" -> FetchCopilot(e) [] tool = "opencode" -> FetchOpenCode(e)
    [] tool = "freebuff" -> FetchFreebuff(e)
=============================================================================
