# statisfy in TLA+

`statisfy` shows how much of their quotas a user's AI coding tools have left. It
detects which tools are installed, asks each for its status, caches the answers
and renders them once, or again and again in watch mode. It is a small program
with much that happens at the same time: a goroutine for every adapter, two
goroutines behind the watch loop, a child process it talks JSON-RPC with, a race
of dials, a cache that several processes write, and a guard that must not
disturb a tool that is running.

The modules here model that behaviour, TLC checks them on small instances, and
TLAPS proves the main safety properties for every value of the constants.
File names below are relative to `src/`.

## 1. The system

| Component | State | Operations | What is hard | What makes it correct | Modules |
|---|---|---|---|---|---|
| Registry (`internal/core/registry.go`) | the detections, the results, four slots, the timers | `DetectAll`, `Collect` | a goroutine for each adapter, two joins, timers that start at different moments | slots are given back, each available adapter gets one result, a slow adapter does not cost a fast one its time, the cache never serves what must be fresh | `Collect`, `FanOut` |
| File cache (`internal/cache`) | `<key>.json`, `<key>.json.tmp` | `Get`, `Put` | several processes with one temporary name, deaths between system calls, entries that age | what is read is whole, does not go back and does not outlive its TTL | `FileCache` |
| JSON-RPC client (`internal/exec`) | the pipes, the scanner goroutines, the log, the mutex | `StartRPC`, `Call`, `Notify`, `Close` | a child that may say anything, stop or die; goroutines that outlive their `Call` | the right answer to each request, one scanner at a time, nothing left behind | `RpcClient` |
| Freebuff adapter (`internal/adapters/freebuff.go`) | the owner file and the processes of the tool | `instanceActive`, `Fetch` | check, then act, against another program | no request while an announced instance runs, never a second one, no guard that holds for ever | `FreebuffGuard`, `Adapters` |
| Claude adapter (`claude.go`) | the transcripts, which grow meanwhile | `parseClaudeTranscripts`, `usageLimits` | streamed records, files that fail half-way, maps in any order | in each transcript a response counts once, with its last tally, whatever fails | `Transcripts`, `Adapters` |
| Dialer (`http.go`) | the dials, their channel | `raceDialer` | first success wins, losers must end | no stall, no goroutine left, an error only if nothing connects | `RaceDialer` |
| Key reader (`cmd/statisfy/watch_keys*.go`) | the terminal's mode, channel, `eof`, `stop`, wakeup pipe | `newWatchKeys`, `readLoop`, `read`, `close` | a blocked read that must be interrupted, on two platforms | no key lost unless a poll fails, the reader ends, the terminal is restored | `WatchKeys` |
| Watch loop (`watch.go`) | the tick channel, the refresh flag | refresh, listen, leave | priorities between ticks, keys and cancellation; panics | it refreshes, it can be left, it leaves nothing behind | `Watch` |
| Command line and configuration (`main.go`, `internal/config`) | the arguments, the file, the registry | `reorderArgs`, `Load`, dispatch | flags anywhere, invalid files | flags of the expected spelling mean the same anywhere, a file counts whole or not at all, disabled adapters are left alone | `Command` |
| The eleven adapters as functions (`internal/adapters`) | none: files, databases and answers of the machine | `Detect`, `Fetch` | what is absent, partial or unparsable; a machine that changes between the two | figures that were reported or recorded today, and only those, but for the zeros that absent fields are decoded to | `Adapters` |
| Views (`internal/render`): JSON document, dashboard, doctor, sources | the results | `JSONDocFromResults`, `DashboardBody`, `Doctor`, `Sources` | unknown, zero and absent values in one number; four renderings of the same results | nothing disappears, nothing is invented, the views agree | `Report` |

How they interact. `main` parses the arguments (`Command`), makes a registry and
calls `DetectAll` and `Collect`, once or from the watch loop (`Watch`), which
reads keys (`WatchKeys`) in between. `Collect` calls `Get` and `Put` of the cache
(`FileCache`) and the adapters' `Fetch`: Codex through the JSON-RPC client
(`RpcClient`), Freebuff past its guard (`FreebuffGuard`), Claude over its
transcripts (`Transcripts`), and the HTTP adapters over the dialer
(`RaceDialer`). What each makes of what it finds is in `Adapters`, and how that is
shown in `Report`.

## 2. The modules

A module `M` has its instances for TLC in `MCM` with `MCM*.cfg`, and its theorems
in `MProofs`, but that those of `WatchKeys` are in `WatchProofs`, those of
`FreebuffGuard` and `RaceDialer` in `RequestProofs`, and those of `Adapters` in
`ReportProofs`. Operators named `...Mutant` are plausible mistakes in the code that
an operator stands for; `PROJECT.json` pairs each with the property that notices.

**Collect** (abstract: **FanOut**). One run is `DetectAll` followed by `Collect`;
runs follow one another over one cache. `pc[a]` follows the goroutine of adapter
`a` through waiting for a slot, the cache, `Fetch`, `Put` and the assignment of
its result, `sem` is the set of goroutines that hold a slot, `age` and `clock`
measure the timers. The variable `shared`, chosen when a run starts, tells the
one-shot command, where every Fetch has a timer of its own, from a watch cycle,
where the context of the whole cycle has one deadline (`watch.go:71`); `timeout`,
chosen with it, may be zero, which means no timer to the one and a deadline that is
over to the other. Time is discrete and moves only when nothing else can happen,
and a Fetch returns when its context is done, as those that wait for an answer do (the
others read files). `FanOut` promises that each adapter asked is decided once,
independently of the others, and that the round ends when all are;
`ImplementsFanOut` is the refinement.

**WatchKeys**. The reader goroutine, `read` with its timeout, and `close`, step by
step between channel operations. `wake` is the wakeup pipe of Unix, `fileOpen` the
file that Windows closes instead; `platform`, chosen at the start, says which. A key
is its position in the input, so that loss and order can be seen. A poll may fail
(`PollFails`): then the reader ends without closing `eof`, and the state is
`PollFailed`. A `Read` may fail before all bytes are read (`ReadFails`), which closes
`eof` as the end of the input does.

**Watch** extends `WatchKeys` and adds the loop, the ticker goroutine, the select
priorities and the deferred calls; `left` and `untilTick` count in units of the
poll interval. A refresh takes 1 to `MaxFetch` units and may panic.
`DrivesKeys` says that it uses the key reader as that module specifies.

**FileCache**. `Put` and `Get` as system calls on two names and the files behind them,
so that a descriptor may outlive its name. Any process may die, and writes may fail,
up to `MaxFaults` times. `age` is the time since each Put's `FetchedAt`, and a Get
judges it by one of `Ttls`, where zero is "no expiry". The history variable
`overlapped` becomes true when a Put begins while another is under way, and stays so;
`floor[p]` remembers the last Put that had returned when `p` opened the entry.

**RpcClient**. One codex Fetch. `pc` is where it is, `scanner[i]` the goroutine of
its i-th Call, `ch[i]` the channel it answers on. The child reads, answers, says
anything else, or exits; its lines are answers, errors, notifications, lines
without an id, junk, and lines too long for the scanner.

**FreebuffGuard**. The guard's `Stat`, `ReadFile` and probe of the pid, the token
and the request, each a step, while an instance of the tool starts, writes its
file and ends, its file grows old, and pids are given to other processes.

**Transcripts**. Two transcripts are read line by line while lines are appended.
`seen` is the map from message ids to last records, made afresh for each file, `usage`
the aggregate of all: records, tokens, models and the set of sessions. A file
may fail to open or half-way; `whole` and `failed` remember how far each was read, and
`Dropped` says what of a failed one is lost.

**RaceDialer**. `dial[i]` is the goroutine of address `i`, `ch` and `closed` the
channel, `ctx` the context that the caller cancels. An address accepts, refuses or
stays silent.

**Command**. `ReorderArgs` and `Parse` on the list of arguments, then the dispatch,
the config file (`ApplyRaw`) and the registry and settings the command uses. An argument
is `Dashed` if it begins with a dash: a switch, a switch denied (`--json=false`),
`--config` and `-config`, which both take the next argument in the package flag but only
the first in `reorderArgs`, `-` and `--`, or an undefined flag. A switch with one dash is
the switch, so it has no word of its own; `--config=F`, a single word that takes
nothing, is left out. The constants `Lines` and `FilesFor` say which command lines there
are and what files each may meet.

**Adapters** has no state: `Detect(tool, e)` and `Fetch(tool, e)` for each of the eleven
tools, where `e` is what the adapter finds on the machine. A `Detect` is its list of
checks in the order of the code, each with the reason it gives; a `Fetch` is the set
of the status it returns, empty if it returns an error. Scans, sums and SQL queries
are sets of positions in the records they read, and sums over these. `Machine(tool)` is
the type of what there is to find: `Maybe(S)` is an element of `S` or nothing. A field
that an answer may leave out is a `Maybe(Int)`: the percentages of Codex and Claude,
Codex's balance (nothing if it is no number), Freebuff's recent count and limit.
`Decoded` is what Go makes of it, 0 if it is absent, so that a figure nobody reported is
a state the model reaches. The counts, tokens and costs that tools record are natural
numbers, as the tools write them.

**Report** composes `Adapters` with the views. A `setup` is a registry with the machine
as it is when the adapters detect and, possibly changed, when they fetch. `DetectAll`
and `Collect` are one step each here (their interleavings are in `Collect`). A command
uses one view; the model makes all four, one result at a time and one view after the
other, so that they can be compared. Amounts are in tenths, an optional value is a
set of at most one.

## 3. The runs

Runs that pass:

| Run | Shows | Bounds |
|---|---|---|
| `collect` | slots, results, cache, timeouts, how long a run takes, its return and the refinement of `FanOut`, in every interleaving of two runs, each a one-shot command or a watch cycle | 3 adapters on 2 slots, so one waits; timeouts 0 and 1 and work up to 2: none, shorter than the work, equal to it and longer |
| `watch` | no key is lost or reordered; unless a poll has failed, keys and the end of the input reach a loop that polls; the terminal is restored however the loop is left, a quit key is the last, cancellation ends the watch, quit ends a watch that polls its keys, until then it refreshes, its goroutines end | 2 keys in three orders, on both platforms: one in the channel and one that the reader holds as the loop is left, or a key after a quit key; a poll or a Read that fails; interval 2, refreshes of 1 or 2 units: shorter than the interval, and as long, when a tick is always waiting |
| `cache` | until two Puts overlap, what a Get reads is whole and never older than the last Put that had returned; no answer outlives its TTL; a torn entry does not stay | 2 processes, 3 Puts and 2 faults anywhere: a Put overlaps another, tears its entry, and a third follows; TTLs 0 and 1, ages up to 2 |
| `rpc` | one scanner at a time, right answers; Fetch returns and leaves nothing | a pipe of 2 lines, 4 lines written, a log of 1: pipe and log both overflow |
| `guard` | an announced instance is left alone, no Fetch makes two requests, later Fetches pass | 2 pids, 2 instances: one pid is reused |
| `command` | flags spelt as `reorderArgs` expects count anywhere; the file counts whole, but for an interval that is none, or not at all; what is collected is what arguments and file ask for, with an interval a ticker can be made of | up to 4 arguments of 13 words, among them `-config`, `-`, `--` and the empty one, under one file, and seven short lines under every file of a schema: each field of the file unset, invalid, negative, zero, positive; one adapter disabled |
| `transcripts` | final tallies in each transcript, sessions over both, a stable model | 2 files that may fail, 2 ids, 3 models, 2 sessions, 4 lines: a message streamed twice around other lines, or an id in both files |
| `dialer` | a made connection or an error that leaves none; no stall; goroutines end | 3 addresses: a winner, a loser and a silent one |
| `report` | nothing disappears, nothing is invented, the views agree and explain themselves, today's figures are today's | each of 11 adapters alone on every machine of its schema, fields left out included, which may change between Detect and Fetch; three together; all eleven, available or not |

The constants are the least at which every wait, overflow, reuse and overtaking in
the code can occur, and each property has a mutant of the code that violates it
within its run's bounds, so none holds because its case is out of reach.

Some properties hold under a condition that the code does not always meet, and the
condition is part of the property:

- `NeverBlocked` (an adapter that waits for a slot is not timed out for it) is an
  action property of one-shot runs, whose timers are their own. In a watch cycle the
  deadline is shared, and adapters that hang in the slots time out those that wait
  (`watch.go:71`).
- `AnswersCurrent` holds, but for its TTLs, until two Puts have overlapped, since all
  Puts of a key share one temporary name (`cache.go:117`). `TornIsDropped` says what
  remains true afterwards.
- `KeyArrives` and `EofNoticed` hold unless a poll has failed: the reader then ends
  without closing `eof`, no key arrives any more and `read` polls an input that is over
  (`watch_keys_unix.go:39`, see 7).
- `TerminalRestored` speaks of Unix. On Windows `close` closes stdin before it
  restores the terminal through it (`watch_keys.go:108`).
- `QuitEndsPollingWatch` says that a quit key ends a watch that reaches its keys again
  and again; `watch_quit_starved` shows why the premise is needed.
- `GoroutinesEnd` of `RaceDialer` assumes that attempts time out (`AttemptsTimeOut`);
  `NeverStalls` does not.
- `FlagsAnywhere` speaks of arguments spelt as `reorderArgs` expects: without
  `-config`, `-` and `--`, and with a value after `--config` (see 7).
- `WholeOrDefault` excepts a `watch_interval` that is not positive, which a valid file
  may say and which the default replaces (`watch.go:33`, see 7).
- `FinalTallies` is about each transcript by itself: a response counts once in it, and an
  id that stands in two of them counts twice. Of a transcript that fails half-way it
  counts the records without an id before the failure and nothing else (see 7).
- `NothingInvented` allows two zeros that nobody reported: that of a field which the
  answer leaves out, or a balance that is no number, and the share that the document
  gives limits of sessions (`json.go:78`, see 7). Any other figure, the label beside it
  and the total have to be of one and the same limit of the answer.
- `TodaysFigures` of Aider are exactly those of the records before the first line that is
  too long for the scanner; `aider_long_line` shows what that costs.
- `SameFigures` lets the dashboard show nothing of a limit that is used by more than
  all of it (see 7), or of which the document says nothing either, and shows as zero a
  balance below it, as `FormatCount` does (`format.go:39`).

Runs that end in a counterexample each check one sentence of the repository
against the code (`findings` in `PROJECT.json` quotes it):

| Run | What the code does |
|---|---|
| `keys_eof_race` | a key that arrives with eof, after the timeout of `read`, is never delivered (`watch_keys.go:147`) |
| `watch_quit_starved` | with refreshes as long as the interval, or longer, keys are never read (`watch.go:103`) |
| `aider_long_line` | events of today after a line of more than 64 KiB are not counted, and nothing says so (`aider.go:90`) |

## 4. Fairness

- Goroutines: weak fairness, since Go's scheduler runs what can run: of each
  goroutine's own steps, and in `Collect`, where the steps of a run are finitely many
  and time moves last, of all of them together. In `Watch`, where a select may pick
  either of two ready cases, strong fairness of a case stands for Go's random choice;
  the key reader and the ticker have weak fairness.
- Timers: they fire (`Tick`, `Tock`, `Timers`). The dialer's specification leaves its
  timers out on purpose: for `NeverStalls` an answer must be enough, and
  `GoroutinesEnd` names the assumption `AttemptsTimeOut` where it needs it.
- Outside the program nothing is assumed: the child of `RpcClient` owes nothing but to
  die with its context (`exec.CommandContext` kills it), no user need type, no run
  need begin. `FreebuffGuard` assumes that Fetches go on, as watch makes them, and
  that files grow old; `FileCache` that the cache is looked at.
- Where something really may stop (a command is over, the input is bounded) deadlock
  is not checked.

## 5. The proofs

All are for every value of the constants under the modules' `ASSUME`s: any sets
of adapters, processes, pids and addresses, any bounds.

- **CollectProofs**: `TypeOK`, `SlotDiscipline`, `ResultsComplete`,
  `GuardNeverCached`, `ResultsFresh`, `CacheAdvances`, `NeverBlocked`, `RunBounded`
  and the refinement of `FanOut`: all safety properties of the run. They are not
  inductive: that results are complete at the return rests on what each goroutine's
  result is while it still runs, and that the cache agrees with the results on what is
  on its way there. `IInv` adds `PhaseInv` (which goroutines exist in each phase),
  `ResultInv` and `CacheInv`; `TimerInv` serves `NeverBlocked`. That a one-shot run of
  `n` adapters on `m` slots ends within `Waves` = n/m (rounded up) timeouts rests on
  `WaveInv`: once `k` timeouts are over, `k + 1` fetches have begun early for each
  slot, or all. A tick at the end of a timeout finds that those of the wave before
  have expired, so they are done and the slots are full of others. The refinement
  shows each step to be a `FanOut` step or a stutter.
- **WatchProofs**: of `WatchKeys` by itself `KeysTypeOK`, `KeysAccounted`, `EofIsTheEnd`,
  `InOrder` (no key is delivered twice or skipped), and `RawRestored` (on Unix `close`
  restores the terminal). `ControlInv` ties the reader's and `close`'s place to what they
  hold; `TerminalInv` says the terminal is raw only if `w.raw` says so. Of `Watch`
  `DrivesKeys`, by which the above hold of the watch mode, `WatchTypeOK`,
  `TerminalRestored`, and `QuitIsLast`, from `KeysAccounted`: the next key delivered is
  the next of the input, and a loop that is left reads none.
- **FileCacheProofs**: `TypeOK` and `TmpIsNotEntry` (no process opens the entry for
  writing by its temporary name), from `Names` (a file about to be created has no name
  yet and is nobody else's); `EntryNewest` and `AnswersCurrent`, from `Alone`: until
  two Puts have overlapped only one is under way, it writes the temporary file, and
  the status it has is the newest; and from `Reading`: what a Get has open was the
  entry when it opened it, and stays whole when the name is gone.
- **RpcClientProofs**: `OneScanner`, `RightAnswer`, `HandshakeFirst` (nothing after
  initialize is sent before its answer), from `Rpc`: where Fetch is tells what it has
  sent, and a goroutine hands over only what fits the Call it scans for. `TypeOK`, and
  with it the bound of the log, from `Bounds`.
- **RequestProofs**: of `FreebuffGuard` `TypeOK` and `GuardSound`, with it `OneRequest`
  (a failed request is not repeated), from `Guard`: while an announced instance runs on,
  the file is there and the pid read is its. Of `RaceDialer` `DialTypeOK`, with it that
  nothing is sent on the closed channel, and `ErrorIfNoneConnects`, from `Race`: while the
  caller ranges over the channel, a connection that was sent is in it.
- **TranscriptsProofs**: `TypeOK`, with it that only today's records wait in the map
  of last records, each under its own id; `MostUsed`, from `Visited`: of the models
  visited so far `best` precedes the others, so that the order of the map is of no
  consequence; and the two properties of the run, `FinalTallies`, of each transcript with
  the sessions of all, and `ModelStable`. What
  is counted at the end is told in terms of whole transcripts, while the code adds one
  record at a time and keeps streamed ones back, so neither is inductive. `Tallied` is:
  the aggregate holds one unit for every record taken so far (`Taken`, of a file that
  is still read up to its line, of one that failed up to the failure), and the map the
  latest of each id. The sums of the aggregate are folds; `TokensOfCount` shows that such
  a fold is the number of units, so that adding a record is adding an element.
- **CommandProofs**: `FlagsAnywhere`, `WholeOrDefault` and `CollectsAsTold`, for any list
  of arguments, any adapters (but none named `doctor`, `sources` or `watch`) and any
  files. The first two have the conditions of 3: arguments of the expected spelling, and
  an interval that is positive. That flags mean the same wherever they stand is a fact about `reorderArgs`:
  `NthOrder` says that a set of positions can be numbered in its order, `Reordered` what
  the reordered list is by that numbering, `SameValues` that a value follows its
  `--config` in both lists (the positions of values are a recursion over the list, so
  this takes the least position where they would differ), and `ParsedAlike` that the
  package flag, which stops at the first word, then finds all flags. `Stages` says of
  each stage of a command what it rests on; the theorems follow from it.
- **ReportProofs**: the five properties of the run, `NothingDisappears`, `SameFigures`,
  `NothingInvented`, `Explained` and `TodaysFigures`, for any registry of the eleven
  adapters, any machine of its type before and after, records and answers of any length
  and any integers in them. Two arguments meet. One is about the adapters: `DetectTells`
  (what is not available has a reason, what is available none) and `FetchSound`, adapter
  by adapter: every status is `Sound`, which says that every limit of it `Says` what one
  limit of the answer says, with 0 for a field left out and for nothing else, that a
  multiplier is of Pro, that a value has a source, that tokens have no fraction. The other is about the views: a list that has looked at the first results
  only is not the list of the property, so the invariant `Inv` says of each view what it
  has made so far. `Stages` is what detections and results are; `Document` and
  `Dashboard` say that a list holds, in order, what was made of those results looked at
  that belong in it, by their rank among them (`RankNext`, `FilledNext`: the next is at
  the end); `Aligned`, that the n-th tool and the n-th status are of the same result;
  `Views`, that doctor and sources follow the results one by one. `SameFigures` is then a
  fact about the rounding of one limit and one metric (`SameLimitIs`, `TokensShown`),
  `Explained` one about concatenations and their suffixes (`TracesAre`), and
  `TodaysFigures` one about records: what each adapter takes for today's is these and no
  others, of Aider's log those that the scan reaches (`ScannedTells`), and the sums it
  makes of their fields are the counts and totals of the property (`TotalIsCount`).

Where a fact is about data of any length (a sum, a numbering, a recursion over the
arguments) its proof is by the least counterexample: `LeastNat` and `WFMin` take a
set, not an operator, and so are within the prover's reach.

A type invariant that is proved is not run besides; neither are `EofIsTheEnd`,
`InOrder`, `RawRestored`, `TmpIsNotEntry`, `EntryNewest` and `HandshakeFirst`, which are
proved too.

## 6. What is only model-checked

Liveness under fairness (`RunReturns`, `KeyArrives`, `EofNoticed`,
`GoroutinesEnd`, `CancelEndsWatch`, `QuitEndsPollingWatch`, `KeepsRefreshing`,
`TornIsDropped`, `FetchReturns`, `NothingStays`, `GuardReleases`, `NeverStalls`) is
beyond the prover, which has no ENABLED. `EofNeverOutranksKey`, `QuitEndsWatch` and
`OneBadEventBreaksNothing` are the three that are violated (3). All other properties of the runs are safety properties and are
proved. The proofs cite the library's theorems on finite sets, sequences and well-founded
relations, and expand the definitions of the community modules' folds that TLC evaluates.

## 7. What is not modelled

- File-system helpers: single system calls, whose answers are inputs here.
- `DefaultDir` of the cache, `IDs`, the walk that finds transcripts, where a token lies:
  paths and texts.
- Wording, colours, padding, the progress bar, durations, reset times: layout. Costs
  are exact in tenths; counts, tokens and percentages are rounded as the code does.
- Parsing of JSON, TOML and SQL: a file parses or not, a query is what it selects and
  sums.
- A panic in an adapter's goroutine, which ends the process without the deferred
  calls of `runWatch`; `Watch` has panics of the main goroutine.
- Writes to the cache are one step each; torn writes arise from overlapping
  processes and from deaths after the truncation.

Some of what the code does next to these models was read and disagrees with its
comments or its documentation, but no run checks it:

- `watch.go:71`: one deadline for the whole cycle, so an adapter that waits for a slot
  may be timed out by others (`registry.go` says that no adapter blocks the others).
- `watch_keys_unix.go:39`: a poll that fails ends the reader as a stop does, without
  closing `eof`. `readLoop` says that it exits "on EOF (closing eof), on stop (close())"
  or when `close` interrupts it (`watch_keys.go:80`), and `waitReadable` that it returns
  false when `close` signals (`watch_keys_unix.go:27`). `PollFails` has it.
- `watch_keys.go:108`: on Windows `close` closes stdin before it restores the terminal.
- `exec.go:124`: a line with neither id nor method unmarshals to id 0 and answers
  request 0; `exec.go:91`: a notification is sent with id 0. `RpcClient` has both.
- `freebuff.go:162`: an instance may start, or announce itself, after the guard has
  looked. `GuardSound` speaks of those that had announced themselves before.
- `claude.go:430`: records without an id of a file that fails half-way stay counted,
  although "a single unreadable or oversized file is skipped" (`claude.go:371`).
- `claude.go:406`: the map of last records is one file's, so a response that stands in two
  transcripts, as one of a resumed session may, counts twice.
- `http.go:73`: a second connection that succeeded is never closed.
- `main.go:169`: `doctor` and `sources` use disabled adapters; `CollectsAsTold` says that
  no other command does.
- `main.go:214`: `-config F --refresh` becomes `-config --refresh F`, so that the flag is
  lost and `F` is taken for a tool; `-` and `--` are put before the flags that follow
  them, which then do not count. Flags after the command are to parse "identically"
  (`main.go:196`). `ReorderArgs` and `FlagsOf` have all of it.
- `watch.go:33`: an interval of zero or less is replaced without a diagnostic, although
  values of the file are "never silently accepted or silently reinterpreted"
  (`main.go:188`).
- `codex.go:59`, `claude.go:187`, `freebuff.go:109`: a figure that the answer leaves out
  is decoded to 0 and shown as all of the limit left, or as none used; `codex.go:136` does
  so of a balance that is no number. `freebuff.go:227` reports a share of 0 for sessions,
  which the document shows (`json.go:78`). "Nothing is ever fabricated" (`claude.go:35`).
- `claude.go:128`: Claude is available (`model.go:155`) and its Fetch an error when there
  is no plan, tier, limit or usage to tell of.
- `sources.go:44`: a tool that was available and whose fetch failed is shown as
  unavailable with a blank reason; a multiplier or an account has no line.
- `model.go:86`: a limit that is used by more than all of it shows nothing on the
  dashboard, while the JSON document has the percentage.
- `cline.go:71`: of several editors only the history of the first counts.
- Droid and Qwen Code, of which only a model is known, are said to have no metrics.
- OpenRouter leaves out figures that are zero, while Aider, Cline and OpenCode show them.

## 8. The plan

Done: the core (`Collect` with `FanOut`, with timeouts of zero in both modes), the
watch mode (`WatchKeys`, `Watch`), the cache with its ages, the two protocols with the
outside (`RpcClient`, `FreebuffGuard`, `RaceDialer`), the data paths (`Command`,
`Transcripts`), the eleven adapters and the four views (`Adapters`, `Report`), and the
proofs of every safety property that a run checks.

Next, in this order:

1. `Watch` composed with `Collect`, so that a refresh is a run, and a panic of an
   adapter's goroutine in it.
2. An abstract best-effort cache (a register that may forget) that `FileCache`
   implements for one process.
3. The abstract promise of the key reader (a queue that ends) and its refinement
   by `WatchKeys`; one of the JSON-RPC client (a request has one answer or fails).
4. Proofs of the refinements of 2 and 3.

## 9. Running

    tlasany M.tla
    tlc -workers 2 -config MCCollect.cfg MCCollect.tla
    tlapm CollectProofs.tla
