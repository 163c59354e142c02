------------------------------- MODULE Report -------------------------------
(***************************************************************************)
(* From a machine to what the user reads of it: the adapters detect and    *)
(* fetch (Adapters), Collect puts the results together, and one of four    *)
(* views shows them: the JSON document (render/json.go), the dashboard     *)
(* (render/terminal.go), doctor (render/doctor.go) and sources             *)
(* (render/sources.go).  One command uses one view; here all are made of   *)
(* the same results, one after the other, so that they can be compared.    *)
(***************************************************************************)
EXTENDS Adapters

CONSTANTS
  Setups        \* bound: the registry, and the machine when its adapters
                \* detect and, possibly changed, when they fetch

ASSUME SetupsAssumption ==
  \A s \in Setups:
    /\ s.registry \in Seq(ToSet(Defaults)) /\ IsInjective(s.registry)
    /\ DOMAIN s.before = ToSet(s.registry) /\ DOMAIN s.after = ToSet(s.registry)
    /\ \A tool \in ToSet(s.registry): s.before[tool] \in Machine(tool) /\ s.after[tool] \in Machine(tool)

VARIABLES
  command,      \* the flags that matter here
  setup,        \* the registry and the machine
  detections,   \* what DetectAll found, <<>> before
  results,      \* what Collect returned, <<>> before
  at,           \* how many results each view has looked at
  tools, unavailable,   \* the lists of the document
  screen,       \* the blocks of the dashboard
  diagnosis,    \* the blocks of doctor
  provenance    \* the blocks of sources

views == <<tools, unavailable, screen, diagnosis, provenance>>
vars == <<command, setup, detections, results, at, views>>

registry == setup.registry

\* A command that names a tool has a registry of that one.
Init ==
  /\ command \in [all: BOOLEAN, single: BOOLEAN]
  /\ setup \in {s \in Setups: command.single => Len(s.registry) = 1}
  /\ detections = <<>> /\ results = <<>>
  /\ at = [json |-> 0, dashboard |-> 0, doctor |-> 0, sources |-> 0]
  /\ tools = <<>> /\ unavailable = <<>> /\ screen = <<>>
  /\ diagnosis = <<>> /\ provenance = <<>>

(***************************************************************************)
(* The results                                                             *)
(***************************************************************************)
Available(d) == d.installed /\ (d.authenticated \/ d.configured)

DetectAll ==
  /\ Len(detections) < Len(registry)
  /\ detections' = [k \in DOMAIN registry |-> Detect(registry[k], setup.before[registry[k]])]
  /\ UNCHANGED <<command, setup, results, at, views>>

\* An adapter is fetched if, and only if, it was found to be available.
Result(k) ==
  LET tool == registry[k]
      fetches == Available(detections[k])
      status == IF fetches THEN Fetch(tool, setup.after[tool]) ELSE {}
  IN  [tool |-> tool, detection |-> detections[k], status |-> status,
       failed |-> fetches /\ ~Exists(status)]

Collect ==
  /\ Len(detections) = Len(registry) /\ Len(results) < Len(registry)
  /\ results' = [k \in DOMAIN registry |-> Result(k)]
  /\ UNCHANGED <<command, setup, detections, at, views>>

\* What run passes on to the document and the dashboard; they look at the
\* rest here too and leave it out.
FilterAvailable(r) == Available(r.detection)
Kept(r) == command.single \/ command.all \/ FilterAvailable(r)
ShowErrors == command.all \/ command.single

\* A view looks at its next result, once the views before it are done.
Done(view) == at[view] = Len(results)
Looks(view, earlier) ==
  /\ Len(results) = Len(registry)
  /\ \A v \in earlier: Done(v)
  /\ ~Done(view)
  /\ at' = [at EXCEPT ![view] = @ + 1]
  /\ UNCHANGED <<command, setup, detections, results>>

(***************************************************************************)
(* JSONDocFromResults: an optional field is a set of at most one value     *)
(***************************************************************************)
\* Mutant of Reported: a usage of zero is taken for one that is not known.
ReportedMutant(v) == IF v > 0 THEN {v} ELSE {}
Reported(v) == IF v >= 0 THEN {v} ELSE {}

JsonLimit(l) ==
  [label |-> l.label, used |-> Reported(l.used), total |-> {l.total} \ {0},
   percent |-> Reported(l.percent), unlimited |-> l.unlimited]

ToolFromStatus(r) ==
  LET st == The(r.status)
  IN  [tool |-> r.tool, plan |-> st.plan, tier |-> st.tier, multiplier |-> st.multiplier,
       provider |-> st.provider, model |-> st.model, metrics |-> st.metrics, notes |-> st.notes,
       limits |-> [k \in DOMAIN st.limits |-> JsonLimit(st.limits[k])]]
ToolFromDetection(r) ==
  [tool |-> r.tool, reason |-> IF r.failed THEN "fetch error" ELSE r.detection.reason]

InTools(r) == Exists(r.status) /\ Available(r.detection)

\* Mutant of InUnavailable: only what was not detected.
InUnavailableMutant(r) == command.all /\ ~Available(r.detection)
InUnavailable(r) == command.all /\ ~InTools(r)

ListResult ==
  /\ Looks("json", {})
  /\ LET r == results[at.json + 1]
     IN  /\ tools' = IF Kept(r) /\ InTools(r) THEN Append(tools, ToolFromStatus(r)) ELSE tools
         /\ unavailable' = IF Kept(r) /\ InUnavailable(r)
                           THEN Append(unavailable, ToolFromDetection(r)) ELSE unavailable
  /\ UNCHANGED <<screen, diagnosis, provenance>>

(***************************************************************************)
(* DashboardBody: the figures that a line shows, each a set of at most one *)
(***************************************************************************)
Known(l) == l.used >= 0
PercentLeft(l) == IF l.percent < 0 THEN -1 ELSE 100 * One - l.percent

FormatCount(v) == IF v <= 0 THEN 0 ELSE v \div One
FormatPercentLeft(tenths) == (tenths + One \div 2) \div One

\* Three digits or so, and one after the point: tenths of a multiple of "of".
FormatTokens(v) ==
  LET n == v \div One
      of == CASE n >= 1000000000 -> 1000000000 [] n >= 1000000 /\ n < 1000000000 -> 1000000
              [] n >= 1000 /\ n < 1000000 -> 1000 [] n < 1000 -> 1
  IN  [of |-> of, tenths |-> IF of = 1 THEN One * n ELSE (n + of \div 20) \div (of \div 10)]

Blank == [left |-> {}, used |-> {}, total |-> {}, unlimited |-> FALSE]

\* formatSessions and formatUsedTotal show the same figures.
UsedShown(l) == IF Known(l) THEN {FormatCount(l.used)} ELSE {}
TotalShown(l) == IF l.total > 0 THEN {FormatCount(l.total)} ELSE {}

RenderLimit(l) ==
  CASE l.unlimited -> [Blank EXCEPT !.unlimited = TRUE]
    [] ~l.unlimited /\ (l.sessions \/ PercentLeft(l) < 0) ->
         [Blank EXCEPT !.used = UsedShown(l), !.total = TotalShown(l)]
    [] OTHER -> [Blank EXCEPT !.left = {FormatPercentLeft(PercentLeft(l))}]

RenderMetric(m) ==
  [label |-> m.label, unit |-> m.unit,
   figure |-> CASE m.unit = "cost" -> [of |-> 1, tenths |-> m.value]
                [] m.unit = "tokens" -> FormatTokens(m.value)
                [] OTHER -> [of |-> 1, tenths |-> One * FormatCount(m.value)]]

StatusBlock(r) ==
  LET st == The(r.status)
  IN  [tool |-> r.tool, shows |-> "status", plan |-> st.plan, multiplier |-> st.multiplier,
       tier |-> IF st.multiplier > 0 THEN "" ELSE st.tier,
       provider |-> st.provider, model |-> st.model,
       limits |-> [k \in DOMAIN st.limits |->
                     [label |-> st.limits[k].label, shown |-> RenderLimit(st.limits[k])]],
       metrics |-> [k \in DOMAIN st.metrics |-> RenderMetric(st.metrics[k])],
       notes |-> IF ShowErrors THEN st.notes ELSE 0]

RenderUnavailable(r) ==
  [tool |-> r.tool, shows |-> IF r.failed THEN "error" ELSE "unavailable",
   reason |-> IF r.failed THEN "fetch error" ELSE Either(r.detection.reason, "not available")]

DrawResult ==
  /\ Looks("dashboard", {"json"})
  /\ LET r == results[at.dashboard + 1]
     IN  screen' = IF Kept(r) /\ Exists(r.status) THEN Append(screen, StatusBlock(r))
                   ELSE IF Kept(r) /\ ShowErrors THEN Append(screen, RenderUnavailable(r))
                   ELSE screen
  /\ UNCHANGED <<tools, unavailable, diagnosis, provenance>>

(***************************************************************************)
(* Doctor and Sources                                                      *)
(***************************************************************************)
\* A column is left out if it says no of every adapter.
Column(field, r) == {r.detection[field]: x \in {y \in ToSet(results): y.detection[field]}}

DoctorBlock(r) ==
  [tool |-> r.tool, installed |-> r.detection.installed,
   authenticated |-> Column("authenticated", r), configured |-> Column("configured", r),
   reason |-> r.detection.reason, failed |-> r.failed,
   plan |-> IF Exists(r.status) THEN The(r.status).plan ELSE "",
   notes |-> IF Exists(r.status) THEN The(r.status).notes ELSE 0]

DiagnoseResult ==
  /\ Looks("doctor", {"json", "dashboard"})
  /\ diagnosis' = Append(diagnosis, DoctorBlock(results[at.doctor + 1]))
  /\ UNCHANGED <<tools, unavailable, screen, provenance>>

SourceOf(own, st) == Either(Either(own, st.source), "unknown")

Line(label, text, st) == IF text = "" THEN <<>> ELSE << <<label, SourceOf("", st)>> >>
Each(figures, st) ==
  [k \in DOMAIN figures |-> <<figures[k].label, SourceOf(figures[k].source, st)>>]

SourcesBlock(r) ==
  LET st == The(r.status)
  IN  IF ~Exists(r.status)
      THEN [tool |-> r.tool, reason |-> r.detection.reason, lines |-> <<>>, none |-> FALSE]
      ELSE [tool |-> r.tool, reason |-> "",
            lines |-> Line("Plan", st.plan, st) \o Line("Tier", st.tier, st)
                        \o Line("Provider", st.provider, st) \o Line("Model", st.model, st)
                        \o Each(st.limits, st) \o Each(st.metrics, st),
            none |-> st.limits = <<>> /\ st.metrics = <<>> /\ st.plan = "" /\ st.tier = ""]

TraceResult ==
  /\ Looks("sources", {"json", "dashboard", "doctor"})
  /\ provenance' = Append(provenance, SourcesBlock(results[at.sources + 1]))
  /\ UNCHANGED <<tools, unavailable, screen, diagnosis>>

Next == DetectAll \/ Collect \/ ListResult \/ DrawResult \/ DiagnoseResult \/ TraceResult
Spec == Init /\ [][Next]_vars

(***************************************************************************)
(* Properties                                                              *)
(***************************************************************************)
Collected == Len(results) = Len(registry)
Names(s) == [k \in DOMAIN s |-> s[k].tool]

\* The list names, in their order, the results at these places and no other.
Rank(places, k) == Cardinality({i \in places: i <= k})
Lists(list, places) ==
  /\ Len(list) = Cardinality(places)
  /\ \A k \in places: list[Rank(places, k)].tool = results[k].tool

\* "they must never silently disappear from --all --json" (json.go:89-90):
\* every adapter is in the document once, in the order of the registry within
\* its list, and one that is not among the tools says why: that its fetch
\* failed, if it was found, or else what is missing.
NothingDisappears ==
  Collected /\ Done("json") /\ command.all =>
    /\ Lists(tools, {k \in DOMAIN results: Exists(results[k].status)})
    /\ Lists(unavailable, {k \in DOMAIN results: ~Exists(results[k].status)})
    /\ \A u \in ToSet(unavailable), r \in ToSet(results):
         u.tool = r.tool =>
           /\ u.reason # ""
           /\ u.reason = "fetch error" <=> Available(r.detection)

Near(x, y, error) == x - y <= error /\ y - x <= error

\* The two renderings agree: the n-th tool of the document is the n-th status
\* of the dashboard, and each line of it shows, as precisely as it does, what
\* the document says: that a limit has no bound, how much of it is left, or how
\* much is used of how much, and nothing at all only of a limit that is used by
\* more than all, or of which the document says nothing either; a balance below
\* zero is shown as zero.
SameLimit(j, line) ==
  /\ line.unlimited = j.unlimited
  /\ \/ j.unlimited
     \/ \E p \in j.percent, n \in line.left: Near(One * n, 1000 - p, One \div 2)
     \/ /\ line.left = {}
        /\ line.used = {x \div One: x \in j.used} /\ line.total = {x \div One: x \in j.total}
        /\ j.used = {} /\ j.total = {} => \A p \in j.percent: p > 1000
SameMetric(j, line) ==
  LET exact == IF j.value < 0 /\ j.unit \notin {"tokens", "cost"} THEN 0 ELSE j.value
      shown == line.figure.tenths * line.figure.of
  IN  /\ line.label = j.label
      /\ Near(shown, exact, IF j.unit = "tokens" THEN line.figure.of \div 2 ELSE One - 1)
      /\ j.unit # "tokens" => shown <= exact
SameTool(j, b) ==
  /\ b.tool = j.tool /\ b.plan = j.plan /\ b.provider = j.provider /\ b.model = j.model
  /\ b.multiplier = j.multiplier /\ b.tier \in {j.tier, ""}
  /\ Len(b.limits) = Len(j.limits)
  /\ \A k \in DOMAIN j.limits: SameLimit(j.limits[k], b.limits[k].shown)
  /\ Len(b.metrics) = Len(j.metrics)
  /\ \A k \in DOMAIN j.metrics: SameMetric(j.metrics[k], b.metrics[k])
SameFigures ==
  Collected /\ Done("json") /\ Done("dashboard") =>
    LET blocks == {k \in DOMAIN screen: screen[k].shows = "status"}
    IN  /\ Len(tools) = Cardinality(blocks)
        /\ \A k \in blocks: SameTool(tools[Rank(blocks, k)], screen[k])

\* What an answer says of one limit, where it says it: a field that is left out
\* says 0, as Go decodes it.
OrZero(field) == IF field = {} THEN {0} ELSE field
Said(label, percent, used, total, unlimited) ==
  [label |-> label, percent |-> percent, used |-> used, total |-> total, unlimited |-> unlimited]
SaidBy(tool, e) ==
  CASE tool = "codex" ->
         {Said(ClassifyWindow(w.mins), {One * p: p \in OrZero(w.percent)}, {}, {}, FALSE):
            w \in UNION {r.primary \cup r.secondary: r \in e.reply}}
    [] tool = "claude" ->
         {Said("5h", OrZero(w.utilization), {}, {}, FALSE): w \in UNION {u.fiveHour: u \in e.usage}}
           \cup {Said("Weekly", OrZero(w.utilization), {}, {}, FALSE):
                   w \in UNION {u.sevenDay: u \in e.usage}}
    [] tool = "freebuff" ->
         {Said(Either(q.provider, "Model"), {}, OrZero(q.recent), {One * n: n \in q.limit},
               q.unlimited \/ ~\E n \in q.limit: n > 0):
            q \in UNION {UNION ToSet(r.models): r \in e.reply}}
           \cup {Said("GLM", {}, {}, {One * n}, FALSE): n \in UNION {r.promo: r \in e.reply}}
    [] OTHER -> {}

\* No view makes up a figure: every limit of the dashboard, and of the document,
\* has its label, the share or the amount that is used, the total and whether
\* it has a bound from one and the same limit of the answer, and shows no figure
\* of which the answer does not speak; codex's credits are its balance, none if
\* that is negative.  Two zeros are made up, and the property says so: a field
\* that the answer leaves out, or a balance that is not a number, is shown as
\* the 0 it is decoded to (codex.go:59, 136, claude.go:187, freebuff.go:109),
\* and the document gives limits of sessions a share of 0 (json.go:78).  And 5x
\* and 20x, variants of Pro that "must never appear next to Plus"
\* (codex.go:126-129), are shown only of Pro, and only if they were reported.
NothingInvented ==
  /\ \A b \in {x \in ToSet(screen): x.shows = "status"}:
       LET e == setup.after[b.tool]
       IN  /\ b.multiplier > 0 =>
                b.plan = "Pro" /\ \E r \in e.reply: b.multiplier \in r.multiplier
           /\ \A l \in ToSet(b.limits): \E s \in SaidBy(b.tool, e):
                /\ l.label = s.label
                /\ l.shown.unlimited => s.unlimited
                /\ l.shown.left \subseteq {(1000 + One \div 2 - p) \div One: p \in s.percent}
                /\ l.shown.used \subseteq {x \div One: x \in s.used}
                /\ l.shown.total \subseteq {x \div One: x \in s.total}
           /\ \A m \in ToSet(b.metrics): b.tool = "codex" =>
                \E r \in e.reply: \E c \in r.credits: \E x \in OrZero(c.balance):
                  c.has /\ m.figure.of = 1 /\ m.figure.tenths = One * FormatCount(x)
  /\ \A t \in ToSet(tools): \A j \in ToSet(t.limits): \E s \in SaidBy(t.tool, setup.after[t.tool]):
       /\ j.label = s.label
       /\ j.unlimited => s.unlimited
       /\ j.percent \subseteq IF s.percent = {} THEN {0} ELSE s.percent
       /\ j.used \subseteq s.used
       /\ j.total \subseteq s.total

\* Doctor "explains why each is or is not available" (doctor.go:11-13) and
\* sources shows "where each value came from" (sources.go:33-35): both list
\* every integration in order; one without a status has a reason or a failed
\* fetch, and one with a status neither; and each line of the dashboard has a
\* line in sources that names a source.
Explained ==
  /\ Collected /\ Done("doctor") =>
       /\ Names(diagnosis) = registry
       /\ \A k \in DOMAIN registry:
            LET d == diagnosis[k] IN
              (d.reason # "" \/ d.failed) <=> ~Exists(results[k].status)
  /\ Collected /\ Done("sources") =>
       /\ Names(provenance) = registry
       /\ \A p \in ToSet(provenance), b \in ToSet(screen):
            p.tool = b.tool /\ b.shows = "status" =>
              LET labels == [k \in DOMAIN p.lines |-> p.lines[k][1]]
                  shows(label, text) == text # "" => label \in ToSet(labels)
                  figures == [k \in DOMAIN b.limits |-> b.limits[k].label]
                               \o [k \in DOMAIN b.metrics |-> b.metrics[k].label]
              IN  /\ shows("Plan", b.plan) /\ shows("Tier", b.tier)
                  /\ shows("Provider", b.provider) /\ shows("Model", b.model)
                  /\ IsSuffix(figures, labels)
                  /\ \A line \in ToSet(p.lines): line[2] # "unknown"

\* The usage that a tool has recorded on this machine: its event log, the task
\* history of the first editor that has one, or its sessions.
Recorded(tool, e) ==
  CASE tool = "aider" -> e.log
    [] tool = "cline" -> {h.tasks: h \in TaskHistory(e)}
    [] tool \in {"copilot", "opencode"} -> {db.sessions: db \in e.db}
    [] OTHER -> {}
Usage(tool, s) ==
  {k \in DOMAIN s: IF tool = "aider" THEN s[k].kind = "message_send" /\ s[k].time >= DayStart
                   ELSE s[k].time >= localDayStartMs}
Reached(tool, s) == {k \in DOMAIN s: tool = "aider" => \A n \in 1..k: s[n].kind # "oversized"}

\* What a status tells in some units: the one figure, or nothing if that is 0.
Shows(st, units, figure) ==
  LET told == {m.value: m \in {x \in ToSet(st.metrics): x.unit \in units}}
  IN  told = {figure} \/ (told = {} /\ figure = 0)
\* How often a tool was used and with how many tokens.
ShowsUsage(st, s, places) ==
  /\ Shows(st, {"", "sessions"}, One * Cardinality(places))
  /\ Shows(st, {"tokens"}, One * MapThenSumSet(LAMBDA n: s[n].tokens, places))

\* All that is told of today is today's: how often a tool was used, and with
\* how many tokens, is the number and the sum of its records since midnight,
\* whatever cannot be parsed between them, and of aider's log of those before
\* the first line that is too long to be scanned (aider.go:90, see
\* OneBadEventBreaksNothing); and no log is refused that has one of these.
TodaysFigures ==
  \A k \in DOMAIN results: \A s \in Recorded(registry[k], setup.after[registry[k]]):
    LET places == Usage(registry[k], s) \cap Reached(registry[k], s)
    IN  /\ \A st \in results[k].status: ShowsUsage(st, s, places)
        /\ registry[k] = "aider" /\ places # {} => ~results[k].failed

\* "Unparseable lines are skipped so one bad event never breaks the whole log"
\* (aider.go:29-30): what is told of aider's log of today is the number and the
\* sum of all its events of today, whatever else is in it.
OneBadEventBreaksNothing ==
  \A k \in DOMAIN results: registry[k] = "aider" =>
    \A s \in Recorded("aider", setup.after["aider"]), st \in results[k].status:
      ShowsUsage(st, s, Usage("aider", s))
=============================================================================
