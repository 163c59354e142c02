------------------------------- MODULE Command -------------------------------
(***************************************************************************)
(* One statisfy command up to the point where it collects: run() of        *)
(* cmd/statisfy/main.go orders and parses the arguments, picks the command *)
(* and loads the config file (internal/config/config.go), and from both    *)
(* makes the registry of the adapters it will detect and fetch, with what  *)
(* times and through which cache.                                          *)
(*                                                                         *)
(* An argument begins with a dash or is a word; "none" is the empty word,  *)
(* which run() takes for no tool at all.  Of those with a dash, a switch   *)
(* stands for its spellings (-json, --json, --json=true), as does its      *)
(* denial (--json=false); --config and -config take the next argument as   *)
(* their value (--config=F, which holds it, is left out); "-" and "--" are *)
(* no flags; any other is not defined.  A duration is a number of seconds, *)
(* Unset or Bad.                                                           *)
(***************************************************************************)
EXTENDS Integers, Sequences, FiniteSets, SequencesExt, FiniteSetsExt

CONSTANTS
  Tools,        \* the ids of adapters.Defaults()
  Paths,        \* bound: where a config file may be
  Lines,        \* bound: the argument lists
  FilesFor(_)   \* bound: the files that an argument list may meet

VARIABLES
  args,         \* os.Args[1:]
  files,        \* the config file at each path
  pc,           \* where run() is
  parsed,       \* what flag.Parse made of the arguments
  command,      \* the command that was dispatched
  tool,         \* the tool that was named
  cfg,          \* the configuration
  warned,       \* a diagnostic about the config file has been printed
  registry,     \* the adapters that are detected and fetched
  used,         \* the settings they are fetched with
  exit          \* the exit code

vars == <<args, files, pc, parsed, command, tool, cfg, warned, registry, used, exit>>

Switches == {"--json", "--refresh", "--all", "--version", "--watch"}
Denied(switch) ==
  CASE switch = "--json" -> "--json=false" [] switch = "--refresh" -> "--refresh=false"
    [] switch = "--all" -> "--all=false" [] switch = "--version" -> "--version=false"
    [] switch = "--watch" -> "--watch=false"
TakesNext == {"--config", "-config"}
NoFlag == {"-", "--"}
Undefined == {"--help", "--bogus"}
Dashed(a) ==
  a \in Switches \cup {Denied(s): s \in Switches} \cup TakesNext \cup NoFlag \cup Undefined

Unset == 1000
Bad == 1001
Valid(d) == d # Bad
Given(d) == d \notin {Unset, Bad}

\* A file, and what the toml decoder makes of one that can be read.
Raw(durations) ==
  [state: {"missing", "unreadable", "malformed", "decoded"},
   cache: durations, timeout: durations, watch: durations,
   adapters: [Tools -> [enabled: {"unset", "true", "false"}, ttl: durations]]]
Missing ==
  [state |-> "missing", cache |-> Unset, timeout |-> Unset, watch |-> Unset,
   adapters |-> [t \in Tools |-> [enabled |-> "unset", ttl |-> Unset]]]

ASSUME ToolsAssumption == Tools \cap {"doctor", "sources", "watch"} = {}
ASSUME InputsAssumption ==
  /\ Lines \subseteq Seq(STRING)
  /\ \A a \in Lines: \A f \in FilesFor(a):
       /\ f \in [Paths -> Raw(Int)]
       /\ \A p \in Paths: f[p].state = "missing" => f[p] = Missing

Default == [cache |-> 60, timeout |-> 30, watch |-> 10, disabled |-> {},
            ttl |-> [t \in Tools |-> Unset]]

Nothing == [on |-> {}, config |-> "default", rest |-> <<>>]
NotUsed == [refresh |-> FALSE, timeout |-> 0, interval |-> 1, ttl |-> [t \in Tools |-> 0]]

Init ==
  /\ args \in Lines /\ files \in FilesFor(args)
  /\ pc = "parse" /\ parsed = Nothing
  /\ command = "none" /\ tool = "none"
  /\ cfg = Default /\ warned = FALSE
  /\ registry = {} /\ used = NotUsed
  /\ exit = 0

(***************************************************************************)
(* The arguments                                                           *)
(***************************************************************************)

\* The arguments that are the value of one of the takers before them.
ValuesOf(a, takers) ==
  LET taken[i \in 0..Len(a)] == i > 1 /\ a[i - 1] \in takers /\ ~taken[i - 1]
  IN  {i \in 1..Len(a): taken[i]}

\* The arguments at some positions, in their order.
Nth(positions, k) == CHOOSE i \in positions: Cardinality({j \in positions: j <= i}) = k
At(a, positions) == [k \in 1..Cardinality(positions) |-> a[Nth(positions, k)]]

\* reorderArgs: whatever has a dash first, with what follows a --config, but
\* not what follows a -config; the words after that.
\* Mutant of GoesFirst: the value of --config stays behind.
GoesFirstMutant(a, i) == Dashed(a[i]) /\ i \notin ValuesOf(a, {"--config"})
GoesFirst(a, i) == Dashed(a[i]) \/ i \in ValuesOf(a, {"--config"})

ReorderArgs(a) ==
  LET first == {i \in 1..Len(a): GoesFirst(a, i)}
  IN  At(a, first) \o At(a, (1..Len(a)) \ first)

\* The package flag stops at the first argument that is neither a flag nor
\* the value of one, and drops it if it is "--".
FlagsOf(a) ==
  LET values == ValuesOf(a, TakesNext)
      others == {i \in 1..Len(a): i \notin values /\ (~Dashed(a[i]) \/ a[i] \in NoFlag)}
      stop == Min(others \cup {Len(a) + 1})
      from == IF stop <= Len(a) /\ a[stop] = "--" THEN stop + 1 ELSE stop
  IN  [flags |-> {i \in 1..stop - 1: i \notin values},
       values |-> values \cap 1..stop - 1,
       rest |-> SubSeq(a, from, Len(a))]

ParseFails(a) ==
  \E i \in FlagsOf(a).flags: a[i] \in Undefined \/ (a[i] \in TakesNext /\ i = Len(a))

\* The switches that are on: the last word on each counts.
TurnedOn(a, positions) ==
  {s \in Switches: \E i \in positions:
     a[i] = s /\ \A j \in positions: j > i => a[j] # Denied(s)}

Parsed(a) ==
  LET f == FlagsOf(a)
  IN  [on |-> TurnedOn(a, f.flags),
       config |-> IF f.values = {} THEN "default" ELSE a[Max(f.values)],
       rest |-> f.rest]

\* run() returns without collecting anything.
Leave(code) ==
  /\ pc' = "left"
  /\ exit' = code
  /\ UNCHANGED <<args, files, command, tool, cfg, warned, registry, used>>

Parse ==
  /\ pc = "parse"
  /\ LET a == ReorderArgs(args)
     IN  IF ParseFails(a)
         THEN Leave(2) /\ UNCHANGED parsed
         ELSE /\ parsed' = Parsed(a)
              /\ pc' = "dispatch"
              /\ UNCHANGED <<args, files, command, tool, cfg, warned, registry, used, exit>>

(***************************************************************************)
(* The command                                                             *)
(***************************************************************************)
First(s, otherwise) == IF s = <<>> THEN otherwise ELSE Head(s)
Word == First(parsed.rest, "none")

OnlyText == "--version" \in parsed.on \/ Word \in {"version", "help", "--help"}

ShowText ==
  /\ pc = "dispatch" /\ OnlyText
  /\ Leave(0)
  /\ UNCHANGED parsed

Dispatch ==
  /\ pc = "dispatch" /\ ~OnlyText
  /\ command' = IF Word \in {"doctor", "sources"} THEN Word
                ELSE IF Word = "watch" \/ "--watch" \in parsed.on THEN "watch"
                ELSE "dashboard"
  /\ tool' = IF Word \in {"doctor", "sources"} THEN "none"
             ELSE IF Word = "watch" THEN First(Tail(parsed.rest), "none")
             ELSE Word
  /\ pc' = "load"
  /\ UNCHANGED <<args, files, parsed, cfg, warned, registry, used, exit>>

(***************************************************************************)
(* The configuration                                                       *)
(***************************************************************************)
File(path) == IF path \in Paths THEN files[path] ELSE Missing

\* applyRaw: what a file gives takes the place of the default.
Or(d, default) == IF Given(d) THEN d ELSE default

ApplyRaw(f) ==
  [cache |-> Or(f.cache, Default.cache),
   timeout |-> Or(f.timeout, Default.timeout),
   watch |-> Or(f.watch, Default.watch),
   disabled |-> {t \in Tools: f.adapters[t].enabled = "false"},
   ttl |-> [t \in Tools |-> Or(f.adapters[t].ttl, Unset)]]

Invalid(f) ==
  \/ f.state \in {"unreadable", "malformed"}
  \/ f.state = "decoded" /\ ~(/\ Valid(f.cache) /\ Valid(f.timeout) /\ Valid(f.watch)
                               /\ \A t \in Tools: Valid(f.adapters[t].ttl))

\* Load and loadConfigOrWarn: a missing file gives nothing, and an invalid one
\* the defaults, not the fields that were valid.
\* Mutant of OnError: what has been applied of the file is kept.
OnErrorMutant(f) == ApplyRaw(f)
OnError(f) == Default

Load ==
  /\ pc = "load"
  /\ LET f == File(parsed.config)
     IN  /\ cfg' = IF Invalid(f) THEN OnError(f) ELSE ApplyRaw(f)
         /\ warned' = Invalid(f)
  /\ pc' = "registry"
  /\ UNCHANGED <<args, files, parsed, command, tool, registry, used, exit>>

AdapterEnabled(t) == t \notin cfg.disabled
TTLFor(t) == Or(cfg.ttl[t], cfg.cache)

(***************************************************************************)
(* The registry                                                            *)
(***************************************************************************)
Enabled == {t \in Tools: AdapterEnabled(t)}

\* runWatch has an interval of its own for one that is no interval.
Interval == IF cfg.watch <= 0 THEN Default.watch ELSE cfg.watch

Settings ==
  [refresh |-> "--refresh" \in parsed.on, timeout |-> cfg.timeout,
   interval |-> Interval, ttl |-> [t \in Tools |-> TTLFor(t)]]

Collect(adapters) ==
  /\ registry' = adapters
  /\ used' = Settings
  /\ pc' = "collected"
  /\ UNCHANGED <<args, files, parsed, command, tool, cfg, warned, exit>>

\* runDoctor and runSources.
Diagnose ==
  /\ pc = "registry" /\ command \in {"doctor", "sources"}
  /\ Collect(Tools)

\* Mutant of Known: a tool is looked up among all there are.
KnownMutant == Tools
Known == Enabled

Single ==
  /\ pc = "registry" /\ command \in {"dashboard", "watch"} /\ tool # "none"
  /\ IF tool \in Known THEN Collect({tool}) ELSE Leave(2) /\ UNCHANGED parsed

All ==
  /\ pc = "registry" /\ command \in {"dashboard", "watch"} /\ tool = "none"
  /\ Collect(Enabled)

Next == Parse \/ ShowText \/ Dispatch \/ Load \/ Diagnose \/ Single \/ All
Spec == Init /\ [][Next]_vars

(***************************************************************************)
(* Properties                                                              *)
(***************************************************************************)

\* Only what is asked for is detected and fetched (main.go:75-95), for good
\* times: an adapter that the file disables by doctor and sources alone, a tool
\* that is named alone and otherwise (or if an empty word hides the name) all,
\* or all that are enabled; no time that the file gives is left to a ticker
\* that would panic on it (watch.go:32-35).  A command that is refused was
\* misspelt or names what cannot be collected.
CollectsAsTold ==
  LET f == File(parsed.config)
      off == {t \in Tools: ~Invalid(f) /\ f.adapters[t].enabled = "false"}
      words == ToSet(parsed.rest)
  IN  /\ pc = "collected" =>
           /\ registry \subseteq Tools
           /\ words \cap {"doctor", "sources"} = {} => registry \cap off = {}
           /\ \/ /\ registry \in {Tools, Tools \ off}
                 /\ words \cap Tools = {} \/ "none" \in words \/ Word \in {"doctor", "sources"}
              \/ \E w \in words: registry = {w}
           /\ used.interval > 0
      /\ pc = "left" /\ exit = 2 =>
           \/ ParseFails(ReorderArgs(args))
           \/ \E k \in DOMAIN parsed.rest:
                /\ parsed.rest[k] \notin Tools \ off
                /\ k = 1 => parsed.rest[k] # "watch"

\* What is written after a command means what it means before it: every flag
\* anywhere counts, with its value, and the words keep their order.  This is so
\* of arguments that are spelt as reorderArgs expects them, and not of a
\* -config with its value in the next argument, which reorderArgs takes from
\* it, nor of "-" and "--", which it puts before the flags that follow them,
\* nor of a --config that ends the arguments, which takes the first word.
FlagsAnywhere ==
  LET values == ValuesOf(args, {"--config"})
      free == (1..Len(args)) \ values
      expected == \A i \in free:
                    /\ args[i] \notin {"-config"} \cup NoFlag
                    /\ args[i] = "--config" => i < Len(args)
  IN  pc \notin {"parse", "left"} /\ expected =>
        /\ parsed.on = TurnedOn(args, free)
        /\ parsed.config = IF values = {} THEN "default" ELSE args[Max(values)]
        /\ parsed.rest = At(args, {i \in free: ~Dashed(args[i])})

\* A config file counts as a whole or not at all: a command runs with all that
\* a valid file says, or, with a diagnostic, with nothing of an invalid one.
\* One thing a valid file says is passed over without a word: a watch_interval
\* that is not positive, for which the default of 10 seconds is taken.
WholeOrDefault ==
  LET f == File(parsed.config)
      says(d, v, default) == v = IF d = Unset THEN default ELSE d
  IN  pc = "collected" =>
        /\ warned <=> Invalid(f)
        /\ Invalid(f) => cfg = Default /\ used.interval = 10
        /\ ~Invalid(f) =>
             /\ says(f.timeout, used.timeout, 30)
             /\ \A t \in Tools:
                  says(f.adapters[t].ttl, used.ttl[t], IF f.cache = Unset THEN 60 ELSE f.cache)
             /\ f.watch > 0 => says(f.watch, used.interval, 10)
             /\ f.watch <= 0 => used.interval = 10
=============================================================================
