------------------------------- MODULE Collect -------------------------------
(***************************************************************************)
(* The registry's two concurrent phases, internal/core/registry.go:        *)
(* DetectAll, which asks every adapter in a goroutine of its own what is   *)
(* installed, and Collect, which fetches the status of those available.    *)
(* Both bound their goroutines with a channel of four slots; Collect       *)
(* consults and fills the cache, bounds each Fetch by a timeout, and joins *)
(* its goroutines before it returns.                                       *)
(*                                                                         *)
(* One "run" is one DetectAll followed by one Collect: a one-shot command  *)
(* or a cycle of the watch loop.  Runs follow one another over the same    *)
(* cache, as commands or cycles do.                                        *)
(*                                                                         *)
(* Time is discrete, and starting a goroutine, reading the cache and       *)
(* writing it take none of it: the clock moves only when every running     *)
(* Fetch is still at work within its deadline.                             *)
(***************************************************************************)
EXTENDS Integers, FiniteSets

CONSTANTS
  Adapters,     \* the registered adapters
  Slots,        \* capacity of the sem channel (4 in the code)
  Timeouts,     \* the timeouts a run may be given, in ticks
  UseCache,     \* opts.Cache # nil
  Detections,   \* what a Detect may answer
  MaxWork,      \* bound: the ticks a Fetch may need
  MaxRuns       \* bound: the runs over one cache

ASSUME AdaptersAssumption == IsFiniteSet(Adapters)
ASSUME SlotsAssumption == Slots \in Nat \ {0}
ASSUME TimeoutAssumption == Timeouts \subseteq Nat
ASSUME OptionsAssumption == UseCache \in BOOLEAN
ASSUME DetectionsAssumption ==
  Detections \subseteq [installed: BOOLEAN, authenticated: BOOLEAN, configured: BOOLEAN]
ASSUME BoundsAssumption == MaxWork \in Nat /\ MaxRuns \in Nat

VARIABLES
  phase,        \* where the calling goroutine is
  run,          \* number of the current run
  refresh,      \* opts.Refresh of the current run
  shared,       \* its context carries one deadline for the whole run (a watch
                \* cycle) or none (a one-shot command)
  timeout,      \* opts.PerFetchTimeout, and the deadline of a watch cycle
  detection,    \* the detections map, zero value for an absent key
  pc,           \* where the goroutine of each adapter is
  sem,          \* the adapters whose token is in the sem channel
  fetched,      \* the status Fetch returned, not yet in results
  results,      \* the Status, FetchErr and Cached fields of results[i]
  cache,        \* the entry the Cacher holds for each adapter
  need,         \* ticks the running Fetch takes to answer
  age,          \* ticks since the running Fetch was called
  clock         \* ticks since the run began

collectVars == <<phase, run, refresh, shared, timeout, detection, pc, sem, fetched, results, cache>>
timeVars == <<need, age, clock>>
vars == <<phase, run, refresh, shared, timeout, detection, pc, sem, fetched, results, cache, need, age, clock>>

(***************************************************************************)
(* Data.  A status is known by the run that fetched it and by its          *)
(* SkipCache flag; run 0 is the nil status.                                *)
(***************************************************************************)
Status == [run: 0..MaxRuns, skip: BOOLEAN]
NoStatus == [run |-> 0, skip |-> FALSE]

Errors == {"none", "failed", "deadline"}
Result == [status: Status, err: Errors, cached: BOOLEAN]

EmptyResult == [status |-> NoStatus, err |-> "none", cached |-> FALSE]

NotDetected == [installed |-> FALSE, authenticated |-> FALSE, configured |-> FALSE]
Detection == [installed: BOOLEAN, authenticated: BOOLEAN, configured: BOOLEAN]
Available(d) == d.installed /\ (d.authenticated \/ d.configured)

\* Between the send on sem and the deferred receive.
Working == {"detecting", "lookup", "fetching", "storing", "publishing"}
PC == {"off", "waiting", "finished"} \cup Working

TypeOK ==
  /\ phase \in {"idle", "detect", "collect", "returned"}
  /\ run \in 0..MaxRuns
  /\ refresh \in BOOLEAN /\ shared \in BOOLEAN
  /\ timeout \in Timeouts \cup {0}
  /\ detection \in [Adapters -> Detection]
  /\ pc \in [Adapters -> PC]
  /\ sem \in SUBSET Adapters
  /\ fetched \in [Adapters -> Status]
  /\ results \in [Adapters -> Result]
  /\ cache \in [Adapters -> Status]
  /\ need \in [Adapters -> 0..MaxWork]
  /\ age \in [Adapters -> Nat]
  /\ clock \in Nat

Init ==
  /\ phase = "idle"
  /\ run = 0
  /\ refresh = FALSE /\ shared = FALSE /\ timeout = 0
  /\ detection = [a \in Adapters |-> NotDetected]
  /\ pc = [a \in Adapters |-> "off"]
  /\ sem = {}
  /\ fetched = [a \in Adapters |-> NoStatus]
  /\ results = [a \in Adapters |-> EmptyResult]
  /\ cache = [a \in Adapters |-> NoStatus]
  /\ need = [a \in Adapters |-> 0]
  /\ age = [a \in Adapters |-> 0]
  /\ clock = 0

(***************************************************************************)
(* The goroutine of an adapter: it sends on sem, which blocks while the    *)
(* channel is full, and however it ends its deferred calls free the slot   *)
(* before the WaitGroup counts it.  wg.Wait returns when all are counted.  *)
(***************************************************************************)
\* Mutant of SlotFree: the channel is made one slot too large.
SlotFreeMutant == Cardinality(sem) <= Slots
SlotFree == Cardinality(sem) < Slots

Start(a, at) ==
  /\ pc[a] = "waiting"
  /\ SlotFree
  /\ sem' = sem \cup {a}
  /\ pc' = [pc EXCEPT ![a] = at]

Go(a, from, to) ==
  /\ pc[a] = from
  /\ pc' = [pc EXCEPT ![a] = to]
  /\ UNCHANGED sem

\* Mutant of Finish: a goroutine that ends without the deferred receive.
FinishMutant(a, from) == Go(a, from, "finished")
Finish(a, from) ==
  /\ pc[a] = from
  /\ pc' = [pc EXCEPT ![a] = "finished"]
  /\ sem' = sem \ {a}

\* Mutant of Joined: a wg.Add inside the goroutine, so that Wait sees only
\* the goroutines that hold a slot.
JoinedMutant == \A a \in Adapters: pc[a] \in {"off", "waiting", "finished"}
Joined == \A a \in Adapters: pc[a] \in {"off", "finished"}

(***************************************************************************)
(* DetectAll                                                               *)
(***************************************************************************)

\* A command or a watch cycle begins; DetectAll makes its map and starts a
\* goroutine for every adapter.
StartRun ==
  /\ phase \in {"idle", "returned"}
  /\ run < MaxRuns
  /\ phase' = "detect"
  /\ run' = run + 1
  /\ refresh' \in BOOLEAN /\ shared' \in BOOLEAN /\ timeout' \in Timeouts
  /\ detection' = [a \in Adapters |-> NotDetected]
  /\ pc' = [a \in Adapters |-> "waiting"]
  /\ results' = [a \in Adapters |-> EmptyResult]
  /\ fetched' = [a \in Adapters |-> NoStatus]
  /\ need' = [a \in Adapters |-> 0]
  /\ age' = [a \in Adapters |-> 0]
  /\ clock' = 0
  /\ UNCHANGED <<sem, cache>>

BeginDetect(a) ==
  /\ phase = "detect"
  /\ Start(a, "detecting")
  /\ UNCHANGED <<phase, run, refresh, shared, timeout, detection, fetched, results, cache, timeVars>>

\* Detect answers and the map is written under the lock.
EndDetect(a) ==
  /\ Finish(a, "detecting")
  /\ \E d \in Detections: detection' = [detection EXCEPT ![a] = d]
  /\ UNCHANGED <<phase, run, refresh, shared, timeout, fetched, results, cache, timeVars>>

(***************************************************************************)
(* Collect                                                                 *)
(***************************************************************************)

\* DetectAll returns; Collect starts a goroutine for every available adapter
\* and leaves the results of the others as they are.
StartCollect ==
  /\ phase = "detect"
  /\ Joined
  /\ phase' = "collect"
  /\ pc' = [a \in Adapters |-> IF Available(detection[a]) THEN "waiting" ELSE "off"]
  /\ UNCHANGED <<run, refresh, shared, timeout, detection, sem, fetched, results, cache, timeVars>>

BeginFetch(a) ==
  /\ phase = "collect"
  /\ Start(a, "lookup")
  /\ UNCHANGED <<phase, run, refresh, shared, timeout, detection, fetched, results, cache, timeVars>>

ConsultsCache == UseCache /\ ~refresh

\* Get answers with the entry: it becomes the result, marked as cached.
CacheHit(a) ==
  /\ ConsultsCache
  /\ cache[a] # NoStatus
  /\ Finish(a, "lookup")
  /\ results' = [results EXCEPT ![a].status = cache[a], ![a].cached = TRUE]
  /\ UNCHANGED <<phase, run, refresh, shared, timeout, detection, fetched, cache, timeVars>>

\* Get is skipped or misses (it may, whatever the cache holds: the entry may
\* be too old or unreadable), and Fetch is called under its own timer.
CallFetch(a) ==
  /\ Go(a, "lookup", "fetching")
  /\ \E n \in 0..MaxWork: need' = [need EXCEPT ![a] = n]
  /\ age' = [age EXCEPT ![a] = 0]
  /\ UNCHANGED <<phase, run, refresh, shared, timeout, detection, fetched, results, cache, clock>>

\* The deadline of fetchCtx: the Fetch's own, and the caller's if it set one.
\* A timeout of zero is none for the Fetch, and is over at once for the caller.
\* Mutants of Expired: one timer for all the fetches of a run, and a timer
\* that fires a tick late.
ExpiredMutantShared(a) == timeout > 0 /\ clock >= timeout
ExpiredMutantLate(a) ==
  \/ timeout > 0 /\ age[a] > timeout
  \/ shared /\ clock > timeout
Expired(a) ==
  \/ timeout > 0 /\ age[a] >= timeout
  \/ shared /\ clock >= timeout

Due(a) == age[a] >= need[a]

\* What Fetch may return now: its answer once it is due, the context's error
\* once that has expired.
Fresh(s) == [status |-> [run |-> run, skip |-> s], err |-> "none"]
Answers(a) ==
  (IF Due(a)
     THEN {Fresh(TRUE), Fresh(FALSE), [status |-> NoStatus, err |-> "none"],
           [status |-> NoStatus, err |-> "failed"]}
     ELSE {})
  \cup (IF Expired(a) THEN {[status |-> NoStatus, err |-> "deadline"]} ELSE {})

\* The error Collect records for an answer.
\* Mutant of Verdict: the check for a nil status is left out.
VerdictMutant(answer) == answer.err
Verdict(answer) ==
  IF answer.err = "none" /\ answer.status = NoStatus THEN "failed" ELSE answer.err

\* Fetch has returned: its timer is stopped.
StopTimer(a) == age' = [age EXCEPT ![a] = 0] /\ need' = [need EXCEPT ![a] = 0]

FetchFails(a) ==
  /\ Finish(a, "fetching")
  /\ StopTimer(a)
  /\ \E answer \in Answers(a):
       /\ Verdict(answer) # "none"
       /\ results' = [results EXCEPT ![a].err = Verdict(answer)]
  /\ UNCHANGED <<phase, run, refresh, shared, timeout, detection, fetched, cache, clock>>

\* Mutant of MayStore: the SkipCache flag is ignored.
MayStoreMutant(st) == UseCache
MayStore(st) == UseCache /\ ~st.skip

FetchAnswers(a) ==
  /\ StopTimer(a)
  /\ \E answer \in Answers(a):
       /\ Verdict(answer) = "none"
       /\ fetched' = [fetched EXCEPT ![a] = answer.status]
       /\ Go(a, "fetching", IF MayStore(answer.status) THEN "storing" ELSE "publishing")
  /\ UNCHANGED <<phase, run, refresh, shared, timeout, detection, results, cache, clock>>

\* Put stores the status or fails; its error is dropped.
Put(a) == cache' = [cache EXCEPT ![a] = fetched[a]]

Store(a) ==
  /\ Go(a, "storing", "publishing")
  /\ Put(a) \/ UNCHANGED cache
  /\ UNCHANGED <<phase, run, refresh, shared, timeout, detection, fetched, results, timeVars>>

\* Mutant of Published: the result is read back from the cache.
PublishedMutant(a) == IF MayStore(fetched[a]) THEN cache[a] ELSE fetched[a]
Published(a) == fetched[a]

Publish(a) ==
  /\ Finish(a, "publishing")
  /\ results' = [results EXCEPT ![a].status = Published(a)]
  /\ UNCHANGED <<phase, run, refresh, shared, timeout, detection, fetched, cache, timeVars>>

Return ==
  /\ phase = "collect"
  /\ Joined
  /\ phase' = "returned"
  /\ UNCHANGED <<run, refresh, shared, timeout, detection, pc, sem, fetched, results, cache, timeVars>>

(***************************************************************************)
(* Time                                                                    *)
(***************************************************************************)
Urgent(a) ==
  \/ pc[a] \in {"detecting", "lookup", "storing", "publishing"}
  \/ pc[a] = "waiting" /\ SlotFree
  \/ pc[a] = "fetching" /\ (Due(a) \/ Expired(a))

Tick ==
  /\ phase = "collect"
  /\ \E a \in Adapters: pc[a] = "fetching"
  /\ \A a \in Adapters: ~Urgent(a)
  /\ clock' = clock + 1
  /\ age' = [a \in Adapters |-> IF pc[a] = "fetching" THEN age[a] + 1 ELSE age[a]]
  /\ UNCHANGED <<collectVars, need>>

Next ==
  \/ StartRun \/ StartCollect \/ Return \/ Tick
  \/ \E a \in Adapters:
       \/ BeginDetect(a) \/ EndDetect(a)
       \/ BeginFetch(a) \/ CacheHit(a) \/ CallFetch(a)
       \/ FetchFails(a) \/ FetchAnswers(a) \/ Store(a) \/ Publish(a)

Spec == Init /\ [][Next]_vars

(***************************************************************************)
(* Once a run has begun, whichever goroutine can go on goes on, or time    *)
(* passes; a new run need never begin.                                     *)
(***************************************************************************)
Progress(a) ==
  \/ BeginDetect(a) \/ EndDetect(a)
  \/ BeginFetch(a) \/ CacheHit(a) \/ CallFetch(a)
  \/ FetchFails(a) \/ FetchAnswers(a) \/ Store(a) \/ Publish(a)
Fairness == WF_vars(StartCollect \/ Return \/ Tick \/ \E a \in Adapters: Progress(a))

FairSpec == Spec /\ Fairness

(***************************************************************************)
(* Properties                                                              *)
(***************************************************************************)

\* The slots in use are those of the goroutines between their send and their
\* deferred receive, on every way out of them, so never more than Slots
\* adapters run at once and none is held when a phase has been joined.
SlotDiscipline ==
  /\ sem = {a \in Adapters: pc[a] \in Working}
  /\ Cardinality(sem) <= Slots

\* What Collect returns is complete: an available adapter has a status or an
\* error and not both, an unavailable one has neither, and only a status can
\* be marked as cached.
ResultsComplete ==
  phase = "returned" =>
    \A a \in Adapters:
      /\ Available(detection[a]) => (results[a].status # NoStatus <=> results[a].err = "none")
      /\ ~Available(detection[a]) => results[a] = EmptyResult
      /\ results[a].cached => results[a].status # NoStatus

\* A status marked SkipCache (Freebuff's guard: it describes only this
\* instant) is never an entry of the cache and never a cached result.
GuardNeverCached ==
  \A a \in Adapters:
    /\ ~cache[a].skip
    /\ results[a].cached => ~results[a].status.skip

\* A result that is not marked as cached was fetched by this very run, with
\* --refresh no result is a cached one, and what this run has put into the
\* cache is what it reports.
ResultsFresh ==
  phase = "returned" =>
    \A a \in Adapters:
      /\ ~results[a].cached /\ results[a].status # NoStatus => results[a].status.run = run
      /\ refresh => ~results[a].cached
      /\ cache[a].run = run => results[a].status = cache[a]

\* In a one-shot command an adapter whose own work fits the timeout is never
\* reported as timed out, however slow the adapters it shares the slots with
\* ("A failure in one adapter never blocks the others"), and none is when there
\* is no timeout.
NeverBlocked ==
  [][\A a \in Adapters: ~shared /\ results[a].err # "deadline" /\ results'[a].err = "deadline"
       => timeout > 0 /\ need[a] >= timeout]_vars

\* A watch cycle ends by its deadline, at once if that is zero; a one-shot run
\* with a timeout ends in the time that its fetches may take one after the
\* other in each slot.
Waves == (Cardinality(Adapters) + Slots - 1) \div Slots
CycleBounded == shared => clock <= timeout
OneShotBounded == ~shared /\ timeout > 0 => clock <= Waves * timeout
RunBounded == CycleBounded /\ OneShotBounded

\* A cached entry is only ever replaced by the status of a later run, and
\* never by an error.
CacheAdvances ==
  [][\A a \in Adapters: cache'[a] # cache[a] => cache'[a].run > cache[a].run]_vars

\* Every run that begins returns: no goroutine waits for a slot or for an
\* answer for ever.
RunReturns == phase \in {"detect", "collect"} ~> phase = "returned"
(***************************************************************************)
(* Collect implements FanOut: what a caller sees of a run is a round of    *)
(* independent decisions.                                                  *)
(***************************************************************************)
StageOf == [idle |-> "idle", detect |-> "idle", collect |-> "asking", returned |-> "answered"]
OutcomeOf(r) ==
  IF r.err # "none" THEN "error" ELSE IF r.status # NoStatus THEN "status" ELSE "none"

Promise == INSTANCE FanOut WITH
  stage <- StageOf[phase],
  asked <- {a \in Adapters: StageOf[phase] # "idle" /\ Available(detection[a])},
  outcome <- [a \in Adapters |-> OutcomeOf(results[a])]

\* To its caller, Collect is a round of FanOut: no adapter that was not asked
\* is decided, none is decided twice, and the answer waits for them all.
ImplementsFanOut == Promise!Spec
=============================================================================
