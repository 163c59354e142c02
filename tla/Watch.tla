-------------------------------- MODULE Watch --------------------------------
(***************************************************************************)
(* The watch mode, runWatch of cmd/statisfy/watch.go: the loop that        *)
(* refreshes the dashboard and then listens for keys, the ticker goroutine *)
(* that asks for the next refresh through a channel of capacity one, and   *)
(* the key reader of WatchKeys, which the loop drives and finally closes.  *)
(*                                                                         *)
(* A refresh (DetectAll, Collect and rendering) is one activity here that  *)
(* takes between one tick of the clock and MaxFetch; Collect has a module  *)
(* of its own.  One tick of the clock is one watchPollInterval.  The steps *)
(* of the loop itself and of the ticker take no time.                      *)
(***************************************************************************)
EXTENDS WatchKeys

CONSTANTS
  Interval,   \* cfg.WatchInterval
  MaxFetch,   \* bound: the longest a refresh takes
  Scripts     \* bound: what may be typed, the kind of key at each position

\* q, Q and Ctrl-C quit, r and R refresh, any other byte is ignored.
Kinds == {"quit", "refresh", "other"}

ASSUME DurationsAssumption == Interval \in Nat \ {0} /\ MaxFetch \in Nat \ {0}
ASSUME ScriptsAssumption == Scripts \subseteq [1..MaxKeys -> Kinds]

VARIABLES
  kind,         \* which key was typed at each position
  loop,         \* where the watch loop is
  keysNil,      \* keys = nil: the loop runs on the ticker alone
  refresh,      \* the next refresh bypasses the cache
  cancelled,    \* ctx is done
  tickCh,       \* a tick is buffered in tickCh
  tickStop,     \* stop, the channel that ends the ticker goroutine, is closed
  ticker,       \* whether the ticker goroutine runs
  untilTick,    \* time left until ticker.C fires
  left          \* time left of the refresh, or of the bounded read

loopVars == <<kind, loop, keysNil, refresh, cancelled, tickCh, tickStop, ticker, untilTick, left>>
watchVars == <<keyVars, loopVars>>

WatchTypeOK ==
  /\ KeysTypeOK
  /\ kind \in [1..MaxKeys -> Kinds]
  /\ loop \in {"top", "refreshing", "listen", "reading", "blocked", "left", "closing", "returned"}
  /\ keysNil \in BOOLEAN /\ refresh \in BOOLEAN /\ cancelled \in BOOLEAN
  /\ tickCh \in BOOLEAN /\ tickStop \in BOOLEAN
  /\ ticker \in {"running", "exited"}
  /\ untilTick \in 0..Interval
  /\ left \in 0..MaxFetch

WatchInit ==
  /\ KeysInit
  /\ kind \in Scripts
  /\ loop = "top"
  /\ keysNil = FALSE
  /\ refresh \in BOOLEAN          \* initialRefresh
  /\ cancelled = FALSE
  /\ tickCh = FALSE /\ tickStop = FALSE
  /\ ticker = "running" /\ untilTick = Interval
  /\ left = 0

(***************************************************************************)
(* The environment                                                         *)
(***************************************************************************)
Typing == Input /\ UNCHANGED loopVars

\* The caller gives up: main passes a context that never ends, a test one that
\* does.  Once the loop is left nobody looks at the context any more.
LoopLeft == loop \in {"left", "closing", "returned"}
Cancel ==
  /\ ~cancelled /\ ~LoopLeft
  /\ cancelled' = TRUE
  /\ UNCHANGED <<keyVars, kind, loop, keysNil, refresh, tickCh, tickStop, ticker, untilTick, left>>

(***************************************************************************)
(* The ticker goroutine                                                    *)
(***************************************************************************)
TickDue == ticker = "running" /\ untilTick = 0

\* The send on tickCh is dropped when a tick is buffered already.
TickerFires ==
  /\ TickDue
  /\ tickCh' = TRUE
  /\ untilTick' = Interval
  /\ UNCHANGED <<keyVars, kind, loop, keysNil, refresh, cancelled, tickStop, ticker, left>>

TickerExits ==
  /\ ticker = "running" /\ tickStop
  /\ ticker' = "exited"
  /\ untilTick' = 0
  /\ UNCHANGED <<keyVars, kind, loop, keysNil, refresh, cancelled, tickCh, tickStop, left>>

(***************************************************************************)
(* The loop                                                                *)
(***************************************************************************)
\* Where the loop goes next; a refresh asked for by a tick or a key bypasses
\* the cache.
GoTo(where) == loop' = where /\ UNCHANGED refresh
Again == loop' = "top" /\ refresh' = TRUE

StartRefresh ==
  /\ loop = "top"
  /\ GoTo("refreshing")
  /\ left' \in 1..MaxFetch
  /\ UNCHANGED <<keyVars, kind, keysNil, cancelled, tickCh, tickStop, ticker, untilTick>>

\* The dashboard is drawn.  A cancelled context cuts the refresh short.
EndRefresh ==
  /\ loop = "refreshing"
  /\ left = 0 \/ cancelled
  /\ loop' = "listen"
  /\ refresh' = FALSE
  /\ left' = 0
  /\ UNCHANGED <<keyVars, kind, keysNil, cancelled, tickCh, tickStop, ticker, untilTick>>

\* A panic of the refresh leaves the loop: the deferred calls run.
Panic ==
  /\ loop = "refreshing"
  /\ GoTo("left")
  /\ left' = 0
  /\ UNCHANGED <<keyVars, kind, keysNil, cancelled, tickCh, tickStop, ticker, untilTick>>

\* The select at the head of the inner loop, and the one that waits for the
\* ticker alone: either ready case may be picked.
Selecting == loop \in {"listen", "blocked"}

\* Mutant of SeeCancel: only the select that waits for the ticker has a case
\* for the context.
SeeCancelMutant == loop = "blocked" /\ cancelled
SeeCancel == Selecting /\ cancelled

LeaveOnCancel ==
  /\ SeeCancel
  /\ GoTo("left")
  /\ UNCHANGED <<keyVars, kind, keysNil, cancelled, tickCh, tickStop, ticker, untilTick, left>>

\* Mutant of SeeTick: the loop takes ticks only while it has keys to read.
SeeTickMutant == loop = "listen" /\ tickCh
SeeTick == Selecting /\ tickCh

TakeTick ==
  /\ SeeTick
  /\ tickCh' = FALSE
  /\ Again
  /\ UNCHANGED <<keyVars, kind, keysNil, cancelled, tickStop, ticker, untilTick, left>>

\* The default case: without keys the loop blocks, with keys it reads for at
\* most one watchPollInterval.
NothingReady == loop = "listen" /\ ~SeeCancel /\ ~SeeTick

Block ==
  /\ NothingReady
  /\ keysNil
  /\ GoTo("blocked")
  /\ UNCHANGED <<keyVars, kind, keysNil, cancelled, tickCh, tickStop, ticker, untilTick, left>>

\* read() of input that is unavailable answers at once, and the loop drops it.
DropKeys ==
  /\ NothingReady
  /\ ~keysNil /\ done
  /\ keysNil' = TRUE
  /\ UNCHANGED <<keyVars, kind, loop, refresh, cancelled, tickCh, tickStop, ticker, untilTick, left>>

PollKeys ==
  /\ NothingReady
  /\ ~keysNil
  /\ ReadBegin
  /\ GoTo("reading")
  /\ left' = 1
  /\ UNCHANGED <<kind, keysNil, cancelled, tickCh, tickStop, ticker, untilTick>>

\* Mutant of OnKey: the quit keys are not told from the others.
OnKeyMutant(k) == IF k = "refresh" THEN Again ELSE GoTo("listen")
OnKey(k) ==
  CASE k = "quit" -> GoTo("left")
    [] k = "refresh" -> Again
    [] OTHER -> GoTo("listen")

KeyRead ==
  /\ loop = "reading"
  /\ ReadKey
  /\ OnKey(kind[ch])
  /\ left' = 0
  /\ UNCHANGED <<kind, keysNil, cancelled, tickCh, tickStop, ticker, untilTick>>

PollTimesOut ==
  /\ loop = "reading" /\ left = 0
  /\ ReadTimeout
  /\ UNCHANGED loopVars

PollEnds ==
  /\ loop = "reading"
  /\ ReadCheckEof
  /\ keysNil' = done'
  /\ GoTo("listen")
  /\ UNCHANGED <<kind, cancelled, tickCh, tickStop, ticker, untilTick, left>>

(***************************************************************************)
(* The deferred calls, last one first: close(stop), then keys.close()      *)
(***************************************************************************)
StopTicker == tickStop' = TRUE

DeferStop ==
  /\ loop = "left"
  /\ StopTicker
  /\ GoTo("closing")
  /\ UNCHANGED <<keyVars, kind, keysNil, cancelled, tickCh, ticker, untilTick, left>>

DeferCloseKeys ==
  /\ loop = "closing"
  /\ CloseStop \/ CloseRest
  /\ GoTo(IF closing' = "closed" THEN "returned" ELSE "closing")
  /\ UNCHANGED <<kind, keysNil, cancelled, tickCh, tickStop, ticker, untilTick, left>>

(***************************************************************************)
(* Time passes while the loop waits for a refresh, a key or a tick and the *)
(* ticker is not due.                                                      *)
(***************************************************************************)
LoopWaits ==
  \/ loop = "refreshing" /\ left > 0
  \/ loop = "reading" /\ main = "select" /\ left > 0
  \/ loop = "blocked" /\ ~tickCh /\ ~cancelled

Tock ==
  /\ LoopWaits
  /\ ~TickDue
  /\ left' = IF left > 0 THEN left - 1 ELSE 0
  /\ untilTick' = IF ticker = "running" THEN untilTick - 1 ELSE untilTick
  /\ UNCHANGED <<keyVars, kind, loop, keysNil, refresh, cancelled, tickCh, tickStop, ticker>>

Reader == ReadLoop /\ UNCHANGED loopVars
ReaderFails == SystemFails /\ UNCHANGED loopVars
Ticker == TickerFires \/ TickerExits
Loop ==
  \/ StartRefresh \/ EndRefresh
  \/ LeaveOnCancel \/ TakeTick \/ Block \/ DropKeys \/ PollKeys
  \/ KeyRead \/ PollTimesOut \/ PollEnds
  \/ DeferStop \/ DeferCloseKeys

WatchNext == Typing \/ Cancel \/ Reader \/ ReaderFails \/ Ticker \/ Panic \/ Loop \/ Tock

WatchSpec == WatchInit /\ [][WatchNext]_watchVars

(***************************************************************************)
(* The three goroutines and time go on; nobody need type, close stdin or   *)
(* cancel, and no system call need fail.  A select picks among its ready   *)
(* cases at random, so a context that stays done cannot be passed over for *)
(* ever (SF).                                                              *)
(***************************************************************************)
WatchFairness ==
  /\ WF_watchVars(Reader) /\ WF_watchVars(TickerFires) /\ WF_watchVars(TickerExits)
  /\ WF_watchVars(Loop) /\ WF_watchVars(Tock)
  /\ SF_watchVars(LeaveOnCancel)

WatchFairSpec == WatchSpec /\ WatchFairness

(***************************************************************************)
(* Properties                                                              *)
(***************************************************************************)

\* The loop drives the key reader as its own module says: it reads only while
\* it is in the loop and closes it once.
DrivesKeys == KeysSpec

\* However the loop is left (q, a cancelled context, a panic of the refresh)
\* the terminal is back in its mode when runWatch returns, on Unix.
TerminalRestored == platform = "unix" /\ loop = "returned" => terminal = "cooked"

\* A quit key that the loop has been given is the last: the loop is left and
\* never refreshes or reads again.
QuitIsLast ==
  \A k \in 1..delivered:
    kind[k] = "quit" => k = delivered /\ LoopLeft

\* "After runWatch returns, every Statisfy-owned goroutine has terminated":
\* both end, with nothing but their own steps to wait for.
GoroutinesEnd == loop = "returned" ~> ticker = "exited" /\ reader \in {"none", "exited"}

\* A cancelled context ends the watch.
CancelEndsWatch == cancelled ~> loop = "returned"

\* The loop is not kept from its keys for ever by a tick that has come during
\* every refresh.
PollsKeys == []<>(loop = "reading")

\* A key that is typed reaches a loop that keeps polling, unless a poll(2) of
\* the reader fails (after which no key ever does).
KeyArrives ==
  PollsKeys => \A k \in 1..MaxKeys: typed >= k ~> delivered >= k \/ PollFailed

\* When the input ends the loop notices and polls no more, unless a poll(2) of
\* the reader has failed (after which it polls for ever).
EofNoticed == PollsKeys => (inputClosed ~> PollFailed)

\* "`q` quits": the quit key ends the watch, unless the input is given up first
\* or the reader's poll(2) has failed.
QuitPressed == \E k \in 1..typed: kind[k] = "quit"
QuitEndsWatch == QuitPressed ~> loop = "returned" \/ done \/ PollFailed

\* It does so if the loop is not kept from its keys.
QuitEndsPollingWatch == PollsKeys => QuitEndsWatch

\* Until it is left, the loop keeps refreshing, with or without input.
KeepsRefreshing == []<>(loop = "refreshing" \/ LoopLeft)
=============================================================================
