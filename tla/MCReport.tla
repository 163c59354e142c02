------------------------------ MODULE MCReport ------------------------------
(* A small instance of Report for TLC: machines on which each adapter finds *)
(* everything, misses one thing after another, and reads figures at the     *)
(* edges: unused, part used, used up and used by more than all, fractions,  *)
(* the moments about midnight, and what cannot be parsed.                   *)
EXTENDS Report

Used(percent, mins) == {[percent |-> percent, mins |-> mins]}
Balances(balance) == {[has |-> TRUE, balance |-> balance]}
Limits(plan, multiplier, first, second, credits) ==
  {[plan |-> plan, multiplier |-> multiplier, primary |-> first, secondary |-> second,
    credits |-> credits]}
Codex ==
  [onPath: {TRUE}, auth: {TRUE},
   reply: {{}, Limits("plus", {5}, {}, Used({40}, 300), Balances({7})),
           Limits("pro", {20}, Used({100}, 60), Used({0}, 10080), {[has |-> FALSE, balance |-> {9}]}),
           Limits("pro", {0}, Used({120}, 1440), {}, Balances({-7})),
           Limits("", {}, Used({}, 0), {}, Balances({})), Limits("", {}, {}, {}, {})}]
  \cup [onPath: {TRUE, FALSE}, auth: {FALSE}, reply: {{}}]

Account(type, tier) == {[email |-> "a", type |-> type, tier |-> tier]}
Tally(n) == {[records |-> n, tokens |-> 1250 * n, sessions |-> n, model |-> IF n = 0 THEN "" ELSE "opus"]}
Use(n) == {[utilization |-> n]}
Uses(a, b) == {[fiveHour |-> a, sevenDay |-> b]}
Claude ==
  [onPath: {TRUE}, projects: {TRUE}, state: {TRUE}, transcripts: {1},
   account: {{}, Account("max", "x20"), Account("enterprise", ""), Account("other", "default_claude_ai")},
   tally: {{}, Tally(0), Tally(2)},
   usage: {{}, Uses(Use({4}), Use({1100})), Uses({}, Use({996})), Uses(Use({}), {})}]
  \cup [onPath: BOOLEAN, projects: BOOLEAN, state: {FALSE}, transcripts: {0},
        account: {{}}, tally: {Tally(0)}, usage: {{}}]

Gemini ==
  [onPath: {TRUE}, accounts: {{}, {[active |-> {}]}, {[active |-> {"a"}]}}]
  \cup [onPath: {FALSE}, accounts: {{}}]
Qwen ==
  [onPath: {TRUE},
   settings: {{}} \cup {{s}: s \in [authType: {"", "oauth"}, provider: {"", "other"},
                                    model: {""}, modelId: {"", "coder"}]}]
  \cup [onPath: {FALSE}, settings: {{}}]
Droid ==
  [onPath: BOOLEAN, file: {TRUE}, key: BOOLEAN, settings: {{}, {[model |-> ""]}, {[model |-> "opus"]}}]
  \cup [onPath: {TRUE}, file: {FALSE}, key: BOOLEAN, settings: {{}}]
OpenRouter ==
  [key: BOOLEAN,
   reply: {{}} \cup {{r}: r \in [free: BOOLEAN, usage: {0, 271}, monthly: {3}, daily: {0},
                                limit: {{}, {50}}, remaining: {{}, {0}}]}]

Event(kind, time, model) ==
  [kind |-> kind, time |-> time, tokens |-> 600, cost |-> 4, model |-> model,
   provider |-> IF model = "" THEN "" ELSE "openai"]
Lines ==
  {Event("message_send", DayStart - 1, ""), Event("message_send", DayStart, "gpt"),
   Event("message_send", DayStart + 1, ""), Event("other", DayStart, ""),
   Event("garbage", 0, ""), Event("oversized", DayStart, "")}
Aider ==
  [onPath: {TRUE}, log: {{}} \cup {{log}: log \in UNION {[1..n -> Lines]: n \in 0..3}}]

Tasks == {[time |-> t, tokens |-> 600, cost |-> 4]: t \in {localDayStartMs - 1, localDayStartMs}}
Histories ==
  {{}, {[parses |-> FALSE, tasks |-> <<>>]}}
  \cup {{[parses |-> TRUE, tasks |-> s]}: s \in UNION {[1..n -> Tasks]: n \in {0, 2}}}
Cline ==
  [editors: {<<a, b>>: a \in [exists: {TRUE}, history: Histories],
                       b \in [exists: {TRUE}, history: {{}, {[parses |-> FALSE, tasks |-> <<>>]}}]}
            \cup {<<[exists |-> FALSE, history |-> {}]>>}]

Worked(model, nano) ==
  {[time |-> t, tokens |-> 400, cost |-> 4, credits |-> nano, model |-> model]:
     t \in {localDayStartMs - 1, localDayStartMs}}
Sessions2 == UNION {[1..n -> Worked("auto", 0) \cup Worked("gpt", 7)]: n \in 0..2}
Users == {<<>>, <<[login |-> "b", default |-> FALSE], [login |-> "a", default |-> TRUE]>>,
          <<[login |-> "b", default |-> FALSE]>>}
Copilot ==
  [onPath: {TRUE}, file: {TRUE}, db: {{[accounts |-> u, sessions |-> s]}: u \in Users, s \in Sessions2}]
  \cup [onPath: BOOLEAN, file: BOOLEAN, db: {{}}]
OpenCode == [file: {TRUE}, db: {{}} \cup {{[sessions |-> s]}: s \in Sessions2}]
            \cup [file: {FALSE}, db: {{}}]

Model(recent, limit, unlimited) ==
  {[provider |-> "deepseek", recent |-> recent, limit |-> limit, unlimited |-> unlimited]}
Quotas ==
  {<<Model({0}, {5}, FALSE), Model({27}, {0}, FALSE)>>, <<Model({50}, {5}, TRUE), {}>>,
   <<Model({7}, {5}, FALSE), Model({}, {9}, FALSE)>>, <<Model({8}, {}, FALSE)>>, <<>>}
Freebuff ==
  [dir: {TRUE}, file: {TRUE}, token: {TRUE}, running: BOOLEAN,
   reply: {{}} \cup {{r}: r \in [tier: {"", "none", "free"}, message: {TRUE}, models: Quotas,
                                promo: {{}, {0}, {2}}, perDay: {0, 30}, per5Hours: {0}]}]
  \cup [dir: {TRUE}, file: BOOLEAN, token: {FALSE}, running: BOOLEAN, reply: {{}}]
  \cup [dir: {FALSE}, file: {FALSE}, token: {FALSE}, running: {FALSE}, reply: {{}}]

Machines ==
  [codex |-> Codex, claude |-> Claude, gemini |-> Gemini, copilot |-> Copilot, qwen |-> Qwen,
   openrouter |-> OpenRouter, cline |-> Cline, aider |-> Aider, droid |-> Droid,
   opencode |-> OpenCode, freebuff |-> Freebuff]

\* What is found before: something that is available, or any one that is not.
Found(t) ==
  LET yes == {e \in Machines[t]: Available(Detect(t, e))}
  IN  {The(yes)} \cup (Machines[t] \ yes)
Alone ==
  UNION {{[registry |-> <<t>>, before |-> [x \in {t} |-> b], after |-> [x \in {t} |-> a]]:
            b \in Found(t), a \in Machines[t]}: t \in ToSet(Defaults)}

\* Three together, of which each has a status, fails or is not there.
Few(t) ==
  LET yes == {e \in Machines[t]: Available(Detect(t, e))}
      good == {e \in yes: Exists(Fetch(t, e))}
  IN  {The(good), The(yes \ good), The(Machines[t] \ yes)}
Together ==
  LET three == {"codex", "claude", "freebuff"}
  IN  {[registry |-> <<"codex", "claude", "freebuff">>, before |-> m, after |-> m]:
         m \in {f \in [three -> UNION {Few(t): t \in three}]: \A t \in three: f[t] \in Few(t)}}
\* All of them, as they come.
Whole ==
  {[registry |-> Defaults, before |-> m, after |-> m]:
     m \in {[t \in ToSet(Defaults) |-> The({e \in Machines[t]: Available(Detect(t, e))})],
            [t \in ToSet(Defaults) |-> The({e \in Machines[t]: ~Available(Detect(t, e))})]}}
AiderAlone == {s \in Alone: s.registry = <<"aider">>}
AllSetups == Alone \cup Together \cup Whole
=============================================================================
