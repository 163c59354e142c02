---------------------------- MODULE CollectProofs ----------------------------
(***************************************************************************)
(* Proofs about Collect for every set of adapters, number of slots,        *)
(* timeout and bound: type correctness, the discipline of the slots, what  *)
(* Collect's results are when it returns, what may be in the cache, that   *)
(* a fast adapter is never timed out when each Fetch has a timer of its    *)
(* own, how long a run may take, and that a run is a round of FanOut.      *)
(***************************************************************************)
EXTENDS Collect, FiniteSetTheorems, TLAPS

(***************************************************************************)
(* The inductive invariant                                                 *)
(***************************************************************************)

\* Which goroutines there can be in each phase.
PhaseInv ==
  /\ phase = "idle" => \A a \in Adapters: pc[a] = "off"
  /\ phase = "detect" => \A a \in Adapters: pc[a] \in {"waiting", "detecting", "finished"}
  /\ phase = "collect" => \A a \in Adapters: pc[a] # "detecting"
  /\ phase = "returned" => \A a \in Adapters: pc[a] \in {"off", "finished"}
  /\ phase # "idle" => run > 0
  /\ phase \in {"collect", "returned"} =>
       \A a \in Adapters: Available(detection[a]) <=> pc[a] # "off"

\* What a result is before and after its goroutine has ended.
ResultOK(a) ==
  /\ (phase \in {"idle", "detect"} \/ pc[a] # "finished") => results[a] = EmptyResult
  /\ phase \in {"collect", "returned"} /\ pc[a] = "finished" =>
       (results[a].status # NoStatus <=> results[a].err = "none")
  /\ results[a].cached =>
       results[a].status # NoStatus /\ ~refresh /\ ~results[a].status.skip
  /\ ~results[a].cached /\ results[a].status # NoStatus => results[a].status.run = run
ResultInv == \A a \in Adapters: ResultOK(a)

\* What is on its way into the cache, and what is there.
CacheOK(a) ==
  /\ pc[a] \in {"storing", "publishing"} => fetched[a].run = run
  /\ pc[a] = "storing" => ~fetched[a].skip
  /\ ~cache[a].skip
  /\ cache[a].run <= run
  /\ cache[a].run = run /\ run > 0 =>
       /\ phase \in {"collect", "returned"}
       /\ pc[a] \in {"publishing", "finished"}
       /\ pc[a] = "publishing" => fetched[a] = cache[a]
       /\ pc[a] = "finished" => results[a].status = cache[a]
CacheInv == \A a \in Adapters: CacheOK(a)

IInv == TypeOK /\ SlotDiscipline /\ PhaseInv /\ ResultInv /\ CacheInv

\* A Fetch is never kept beyond the work it needs.
TimerInv == \A a \in Adapters: pc[a] = "fetching" => age[a] <= need[a]

(***************************************************************************)
(* Type correctness                                                        *)
(***************************************************************************)

\* The records the module builds are of the types it declares.
LEMMA Records ==
  /\ NoStatus \in Status
  /\ EmptyResult \in Result
  /\ NotDetected \in Detection
  /\ Detections \subseteq Detection
<1>1. NoStatus \in Status
  BY BoundsAssumption DEF NoStatus, Status
<1>2. EmptyResult \in Result
  BY <1>1 DEF EmptyResult, Result, Errors
<1>3. NotDetected \in Detection
  BY DEF NotDetected, Detection
<1>4. Detections \subseteq Detection
  BY DetectionsAssumption DEF Detection
<1>5. QED
  BY <1>1, <1>2, <1>3, <1>4

\* What Fetch may answer is a status of this run or none, with an error.
LEMMA AnswerType ==
  ASSUME TypeOK, NEW a \in Adapters, NEW answer \in Answers(a)
  PROVE  /\ answer.status \in Status
         /\ answer.err \in Errors
         /\ Verdict(answer) \in Errors
         /\ answer.err = "none" /\ answer.status # NoStatus =>
              answer.status.run = run
         /\ answer.err = "deadline" => Expired(a)
<1>1. run \in 0..MaxRuns
  BY DEF TypeOK
<1>2. \A s \in BOOLEAN: [run |-> run, skip |-> s] \in Status
  BY <1>1 DEF Status
<1>3. answer = Fresh(TRUE) \/ answer = Fresh(FALSE)
      \/ answer = [status |-> NoStatus, err |-> "none"]
      \/ answer = [status |-> NoStatus, err |-> "failed"]
      \/ (Expired(a) /\ answer = [status |-> NoStatus, err |-> "deadline"])
  BY DEF Answers
<1>4. ASSUME NEW s \in BOOLEAN, answer = Fresh(s)
      PROVE  /\ answer.status \in Status
             /\ answer.status.run = run
             /\ answer.err = "none"
             /\ Verdict(answer) \in Errors
  <2>1. answer.status = [run |-> run, skip |-> s] /\ answer.err = "none"
    BY <1>4 DEF Fresh
  <2>2. Verdict(answer) = "failed" \/ Verdict(answer) = "none"
    BY <2>1 DEF Verdict
  <2>3. answer.status \in Status
    BY <1>2, <2>1
  <2>4. answer.status.run = run
    BY <2>1
  <2>5. Verdict(answer) \in Errors
    BY <2>2 DEF Errors
  <2>6. QED
    BY <2>1, <2>3, <2>4, <2>5
<1>5. CASE answer = [status |-> NoStatus, err |-> "none"]
  BY <1>5, Records DEF Verdict, Errors
<1>6. CASE answer = [status |-> NoStatus, err |-> "failed"]
  BY <1>6, Records DEF Verdict, Errors
<1>7. CASE Expired(a) /\ answer = [status |-> NoStatus, err |-> "deadline"]
  BY <1>7, Records DEF Verdict, Errors
<1>8. QED
  BY <1>3, <1>4, <1>5, <1>6, <1>7 DEF Errors

\* Every step keeps the variables in their types.
LEMMA TypeStep == TypeOK /\ [Next]_vars => TypeOK'
<1> SUFFICES ASSUME TypeOK, [Next]_vars PROVE TypeOK'
  OBVIOUS
<1> USE Records
<1>1. CASE StartRun
  BY <1>1, BoundsAssumption DEF TypeOK, StartRun, PC
<1>2. CASE StartCollect
  BY <1>2 DEF TypeOK, StartCollect, PC, timeVars
<1>3. CASE Return
  BY <1>3 DEF TypeOK, Return, timeVars
<1>4. CASE Tick
  BY <1>4 DEF TypeOK, Tick, collectVars
<1>5. ASSUME NEW a \in Adapters, BeginDetect(a) PROVE TypeOK'
  BY <1>5 DEF TypeOK, BeginDetect, Start, PC, Working, timeVars
<1>6. ASSUME NEW a \in Adapters, EndDetect(a) PROVE TypeOK'
  BY <1>6 DEF TypeOK, EndDetect, Finish, PC, Working, timeVars
<1>7. ASSUME NEW a \in Adapters, BeginFetch(a) PROVE TypeOK'
  BY <1>7 DEF TypeOK, BeginFetch, Start, PC, Working, timeVars
<1>8. ASSUME NEW a \in Adapters, CacheHit(a) PROVE TypeOK'
  <2>1. [results[a] EXCEPT !.status = cache[a], !.cached = TRUE] \in Result
    BY DEF TypeOK, Result
  <2>2. results' \in [Adapters -> Result]
    BY <1>8, <2>1 DEF TypeOK, CacheHit, Result
  <2>3. QED
    BY <1>8, <2>2 DEF TypeOK, CacheHit, Finish, PC, Working, timeVars
<1>9. ASSUME NEW a \in Adapters, CallFetch(a) PROVE TypeOK'
  BY <1>9 DEF TypeOK, CallFetch, Go, PC, Working
<1>10. ASSUME NEW a \in Adapters, FetchFails(a) PROVE TypeOK'
  <2>1. PICK answer \in Answers(a): results' = [results EXCEPT ![a].err = Verdict(answer)]
    BY <1>10 DEF FetchFails
  <2>2. Verdict(answer) \in Errors
    BY AnswerType, <2>1
  <2>3. results' \in [Adapters -> Result]
    BY <2>1, <2>2 DEF TypeOK, Result
  <2>4. QED
    BY <1>10, <2>3, BoundsAssumption DEF TypeOK, FetchFails, StopTimer, Finish, PC, Working
<1>11. ASSUME NEW a \in Adapters, FetchAnswers(a) PROVE TypeOK'
  <2>1. PICK answer \in Answers(a):
          /\ fetched' = [fetched EXCEPT ![a] = answer.status]
          /\ Go(a, "fetching", IF MayStore(answer.status) THEN "storing" ELSE "publishing")
    BY <1>11 DEF FetchAnswers
  <2>2. answer.status \in Status
    BY AnswerType, <2>1
  <2>3. QED
    BY <1>11, <2>1, <2>2, BoundsAssumption DEF TypeOK, FetchAnswers, StopTimer, Go, PC, Working
<1>12. ASSUME NEW a \in Adapters, Store(a) PROVE TypeOK'
  BY <1>12 DEF TypeOK, Store, Go, Put, PC, Working, timeVars
<1>13. ASSUME NEW a \in Adapters, Publish(a) PROVE TypeOK'
  <2>1. results' \in [Adapters -> Result]
    BY <1>13 DEF TypeOK, Publish, Published, Result
  <2>2. QED
    BY <1>13, <2>1 DEF TypeOK, Publish, Finish, PC, Working, timeVars
<1>14. CASE UNCHANGED vars
  BY <1>14 DEF TypeOK, vars
<1>15. QED
  BY <1>1, <1>2, <1>3, <1>4, <1>5, <1>6, <1>7, <1>8, <1>9, <1>10, <1>11, <1>12, <1>13, <1>14 DEF Next

\* The initial state is in the types.
LEMMA TypeInit == Init => TypeOK
<1> SUFFICES ASSUME Init PROVE TypeOK
  OBVIOUS
<1>1. run \in 0..MaxRuns /\ clock \in Nat /\ need \in [Adapters -> 0..MaxWork]
      /\ age \in [Adapters -> Nat]
  BY BoundsAssumption DEF Init
<1>2. pc \in [Adapters -> PC]
  BY DEF Init, PC
<1>3. QED
  BY <1>1, <1>2, Records DEF Init, TypeOK

\* Type correctness of Collect, whatever the constants.
THEOREM CollectTypeCorrect == Spec => []TypeOK
<1>1. QED
  BY TypeInit, TypeStep, PTL DEF Spec

(***************************************************************************)
(* The slots                                                               *)
(***************************************************************************)
SlotsHeld == sem = {a \in Adapters: pc[a] \in Working}
WithinSlots == Cardinality(sem) <= Slots

\* The slots in use stay those of the working goroutines.
LEMMA SlotsHeldStep == TypeOK /\ PhaseInv /\ SlotsHeld /\ [Next]_vars => SlotsHeld'
<1> SUFFICES ASSUME TypeOK, PhaseInv, SlotsHeld, [Next]_vars PROVE SlotsHeld'
  OBVIOUS
<1> USE DEF SlotsHeld, Working
<1>1. CASE StartRun
  BY <1>1 DEF TypeOK, PhaseInv, StartRun
<1>2. CASE StartCollect
  BY <1>2 DEF TypeOK, StartCollect, Joined, timeVars
<1>3. CASE Return \/ Tick \/ UNCHANGED vars
  BY <1>3 DEF Return, Tick, collectVars, vars
<1>4. ASSUME NEW a \in Adapters, BeginDetect(a) \/ BeginFetch(a) PROVE SlotsHeld'
  BY <1>4 DEF TypeOK, BeginDetect, BeginFetch, Start
<1>5. ASSUME NEW a \in Adapters,
             EndDetect(a) \/ CacheHit(a) \/ FetchFails(a) \/ Publish(a)
      PROVE  SlotsHeld'
  BY <1>5 DEF TypeOK, EndDetect, CacheHit, FetchFails, Publish, Finish
<1>6. ASSUME NEW a \in Adapters, CallFetch(a) \/ FetchAnswers(a) \/ Store(a)
      PROVE  SlotsHeld'
  BY <1>6 DEF TypeOK, CallFetch, FetchAnswers, Store, Go
<1>7. QED
  BY <1>1, <1>2, <1>3, <1>4, <1>5, <1>6 DEF Next

\* A slot is taken only when one is free, so there are never too many.
LEMMA WithinSlotsStep == TypeOK /\ WithinSlots /\ [Next]_vars => WithinSlots'
<1> SUFFICES ASSUME TypeOK, WithinSlots, [Next]_vars PROVE WithinSlots'
  OBVIOUS
<1>1. IsFiniteSet(sem) /\ Cardinality(sem) \in Nat
  BY FS_Subset, FS_CardinalityType, AdaptersAssumption DEF TypeOK
<1>2. CASE sem' = sem
  BY <1>2 DEF WithinSlots
<1>3. ASSUME NEW a \in Adapters, sem' = sem \ {a} PROVE WithinSlots'
  <2>1. Cardinality(sem \ {a}) <= Cardinality(sem)
    BY <1>1, FS_RemoveElement
  <2>2. Cardinality(sem \ {a}) \in Nat
    BY <1>1, FS_RemoveElement, FS_CardinalityType
  <2>3. QED
    BY <1>1, <1>3, <2>1, <2>2, SlotsAssumption DEF WithinSlots
<1>4. ASSUME NEW a \in Adapters, SlotFree, sem' = sem \cup {a} PROVE WithinSlots'
  <2>1. Cardinality(sem \cup {a}) <= Cardinality(sem) + 1
    BY <1>1, FS_AddElement
  <2>2. Cardinality(sem \cup {a}) \in Nat
    BY <1>1, FS_AddElement, FS_CardinalityType
  <2>3. QED
    BY <1>1, <1>4, <2>1, <2>2, SlotsAssumption DEF WithinSlots, SlotFree
<1>5. QED
  BY <1>2, <1>3, <1>4
  DEF Next, vars, StartRun, StartCollect, Return, Tick, collectVars, BeginDetect, EndDetect,
      BeginFetch, CacheHit, CallFetch, FetchFails, FetchAnswers, Store, Publish, Start, Finish, Go

(***************************************************************************)
(* The phases                                                              *)
(***************************************************************************)

\* Each phase keeps to its own goroutines.
LEMMA PhaseStep == TypeOK /\ PhaseInv /\ [Next]_vars => PhaseInv'
<1> SUFFICES ASSUME TypeOK, PhaseInv, [Next]_vars PROVE PhaseInv'
  OBVIOUS
<1> USE DEF PhaseInv
<1>1. CASE StartRun
  BY <1>1 DEF TypeOK, StartRun
<1>2. CASE StartCollect
  BY <1>2 DEF TypeOK, StartCollect
<1>3. CASE Return
  BY <1>3 DEF TypeOK, Return, Joined
<1>4. CASE Tick \/ UNCHANGED vars
  BY <1>4 DEF Tick, collectVars, vars
<1>5. ASSUME NEW a \in Adapters, BeginDetect(a) \/ BeginFetch(a) PROVE PhaseInv'
  BY <1>5 DEF TypeOK, BeginDetect, BeginFetch, Start
<1>6. ASSUME NEW a \in Adapters, EndDetect(a) PROVE PhaseInv'
  <2>1. phase = "detect" /\ phase' = phase /\ run' = run
    BY <1>6 DEF TypeOK, EndDetect, Finish
  <2>2. QED
    BY <1>6, <2>1 DEF TypeOK, EndDetect, Finish
<1>7. ASSUME NEW a \in Adapters, CacheHit(a) \/ FetchFails(a) \/ Publish(a) PROVE PhaseInv'
  BY <1>7 DEF TypeOK, CacheHit, FetchFails, Publish, Finish
<1>8. ASSUME NEW a \in Adapters, CallFetch(a) \/ FetchAnswers(a) \/ Store(a) PROVE PhaseInv'
  BY <1>8 DEF TypeOK, CallFetch, FetchAnswers, Store, Go
<1>9. QED
  BY <1>1, <1>2, <1>3, <1>4, <1>5, <1>6, <1>7, <1>8 DEF Next

(***************************************************************************)
(* The results                                                             *)
(***************************************************************************)

\* An error is recorded only for an answer without a status to report, and a
\* status of this run is not the nil status.
LEMMA VerdictMeans ==
  ASSUME TypeOK, NEW a \in Adapters, NEW answer \in Answers(a)
  PROVE  /\ Verdict(answer) = "none" => answer.status # NoStatus /\ answer.status.run = run
         /\ Verdict(answer) = "deadline" => Expired(a)
<1>1. Verdict(answer) = "none" => answer.err = "none" /\ answer.status # NoStatus
  BY DEF Verdict
<1>2. Verdict(answer) = "deadline" => answer.err = "deadline"
  BY DEF Verdict
<1>3. QED
  BY <1>1, <1>2, AnswerType

\* A status with a run of its own is not the nil status.
LEMMA RunIsStatus == \A s \in Status: s.run > 0 => s # NoStatus
  BY DEF NoStatus, Status

\* The results stay well formed while a step of the goroutine of a leaves
\* those of the others, the phase and the options as they are.
LEMMA ResultLocal ==
  ASSUME TypeOK, ResultInv, NEW a \in Adapters,
         phase' = phase, run' = run, refresh' = refresh,
         \A b \in Adapters \ {a}: results'[b] = results[b] /\ pc'[b] = pc[b],
         ResultOK(a)'
  PROVE  ResultInv'
<1> SUFFICES ASSUME NEW b \in Adapters, b # a PROVE ResultOK(b)'
  BY DEF ResultInv
<1>1. QED
  BY DEF ResultInv, ResultOK

\* Every step keeps the results well formed.
LEMMA ResultStep == TypeOK /\ PhaseInv /\ ResultInv /\ CacheInv /\ [Next]_vars => ResultInv'
<1> SUFFICES ASSUME TypeOK, PhaseInv, ResultInv, CacheInv, [Next]_vars PROVE ResultInv'
  OBVIOUS
<1>1. CASE StartRun
  BY <1>1, Records DEF TypeOK, StartRun, ResultInv, ResultOK, EmptyResult
<1>2. CASE StartCollect
  BY <1>2 DEF TypeOK, StartCollect, ResultInv, ResultOK, timeVars
<1>3. CASE Return
  BY <1>3 DEF Return, ResultInv, ResultOK, timeVars
<1>4. CASE Tick \/ UNCHANGED vars
  BY <1>4 DEF Tick, collectVars, vars, ResultInv, ResultOK
<1>5. ASSUME NEW a \in Adapters, BeginDetect(a) \/ BeginFetch(a) PROVE ResultInv'
  <2>1. ResultOK(a)'
    BY <1>5 DEF TypeOK, BeginDetect, BeginFetch, Start, ResultInv, ResultOK
  <2>2. QED
    BY <1>5, <2>1, ResultLocal DEF TypeOK, BeginDetect, BeginFetch, Start
<1>6. ASSUME NEW a \in Adapters, EndDetect(a) PROVE ResultInv'
  <2>1. phase = "detect"
    BY <1>6 DEF TypeOK, PhaseInv, EndDetect, Finish
  <2>2. ResultOK(a)'
    BY <1>6, <2>1 DEF TypeOK, EndDetect, Finish, ResultInv, ResultOK
  <2>3. QED
    BY <1>6, <2>2, ResultLocal DEF TypeOK, EndDetect, Finish
<1>7. ASSUME NEW a \in Adapters, CacheHit(a) PROVE ResultInv'
  <2>1. results[a] = EmptyResult
    BY <1>7 DEF CacheHit, Finish, ResultInv, ResultOK
  <2>2. /\ results'[a].status = cache[a]
        /\ results'[a].err = "none"
        /\ results'[a].cached
    BY <1>7, <2>1 DEF TypeOK, CacheHit, EmptyResult, Result
  <2>3. ~refresh /\ cache[a] # NoStatus /\ ~cache[a].skip
    BY <1>7 DEF CacheHit, ConsultsCache, CacheInv, CacheOK
  <2>4. phase' = phase /\ phase \notin {"idle", "detect"} /\ pc'[a] = "finished"
        /\ refresh' = refresh /\ run' = run
    BY <1>7 DEF TypeOK, PhaseInv, CacheHit, Finish
  <2>5. ResultOK(a)'
    BY <2>2, <2>3, <2>4 DEF ResultOK
  <2>6. QED
    BY <1>7, <2>5, ResultLocal DEF TypeOK, CacheHit, Finish
<1>8. ASSUME NEW a \in Adapters, FetchFails(a) PROVE ResultInv'
  <2>1. PICK answer \in Answers(a):
          Verdict(answer) # "none" /\ results' = [results EXCEPT ![a].err = Verdict(answer)]
    BY <1>8 DEF FetchFails
  <2>2. results[a] = EmptyResult
    BY <1>8 DEF FetchFails, Finish, ResultInv, ResultOK
  <2>3. /\ results'[a].status = NoStatus
        /\ results'[a].err # "none"
        /\ ~results'[a].cached
    BY <2>1, <2>2 DEF TypeOK, EmptyResult, Result
  <2>4. phase' = phase /\ phase \notin {"idle", "detect"} /\ pc'[a] = "finished"
    BY <1>8 DEF TypeOK, PhaseInv, FetchFails, Finish
  <2>5. ResultOK(a)'
    BY <2>3, <2>4 DEF ResultOK
  <2>6. QED
    BY <1>8, <2>1, <2>5, ResultLocal DEF TypeOK, FetchFails, Finish
<1>9. ASSUME NEW a \in Adapters, Publish(a) PROVE ResultInv'
  <2>1. results[a] = EmptyResult
    BY <1>9 DEF Publish, Finish, ResultInv, ResultOK
  <2>2. /\ results'[a].status = fetched[a]
        /\ results'[a].err = "none"
        /\ ~results'[a].cached
    BY <1>9, <2>1 DEF TypeOK, Publish, Published, EmptyResult, Result
  <2>3. phase' = phase /\ phase \notin {"idle", "detect"} /\ pc'[a] = "finished" /\ run' = run
    BY <1>9 DEF TypeOK, PhaseInv, Publish, Finish
  <2>4. fetched[a].run = run /\ fetched[a] # NoStatus
    <3>1. fetched[a].run = run /\ fetched[a] \in Status
      BY <1>9 DEF TypeOK, CacheInv, CacheOK, Publish, Finish
    <3>2. run > 0
      BY <2>3 DEF PhaseInv
    <3>3. QED
      BY <3>1, <3>2, RunIsStatus
  <2>5. ResultOK(a)'
    BY <2>2, <2>3, <2>4 DEF ResultOK
  <2>6. QED
    BY <1>9, <2>5, ResultLocal DEF TypeOK, Publish, Finish
<1>10. ASSUME NEW a \in Adapters, CallFetch(a) \/ FetchAnswers(a) \/ Store(a) PROVE ResultInv'
  <2>1. ResultOK(a)'
    BY <1>10 DEF TypeOK, CallFetch, FetchAnswers, Store, Go, ResultInv, ResultOK
  <2>2. QED
    BY <1>10, <2>1, ResultLocal DEF TypeOK, CallFetch, FetchAnswers, Store, Go
<1>11. QED
  BY <1>1, <1>2, <1>3, <1>4, <1>5, <1>6, <1>7, <1>8, <1>9, <1>10 DEF Next

(***************************************************************************)
(* The cache                                                               *)
(***************************************************************************)

\* A step of the goroutine of a concerns only what a fetched and cached.
LEMMA CacheLocal ==
  ASSUME TypeOK, CacheInv, NEW a \in Adapters,
         phase' = phase, run' = run,
         \A b \in Adapters \ {a}:
           /\ results'[b] = results[b] /\ pc'[b] = pc[b]
           /\ fetched'[b] = fetched[b] /\ cache'[b] = cache[b],
         CacheOK(a)'
  PROVE  CacheInv'
<1> SUFFICES ASSUME NEW b \in Adapters, b # a PROVE CacheOK(b)'
  BY DEF CacheInv
<1>1. QED
  BY DEF CacheInv, CacheOK

\* Every step keeps the cache free of guards and of runs to come.
LEMMA CacheStep == TypeOK /\ PhaseInv /\ CacheInv /\ [Next]_vars => CacheInv'
<1> SUFFICES ASSUME TypeOK, PhaseInv, CacheInv, [Next]_vars PROVE CacheInv'
  OBVIOUS
<1>1. CASE StartRun
  <2>1. \A a \in Adapters: cache[a].run \in Nat /\ cache[a].run <= run /\ run \in Nat
    BY DEF TypeOK, Status, CacheInv, CacheOK
  <2>2. QED
    BY <1>1, <2>1 DEF TypeOK, StartRun, CacheInv, CacheOK
<1>2. CASE StartCollect
  BY <1>2 DEF TypeOK, StartCollect, CacheInv, CacheOK, timeVars
<1>3. CASE Return
  BY <1>3 DEF Return, CacheInv, CacheOK, timeVars
<1>4. CASE Tick \/ UNCHANGED vars
  BY <1>4 DEF Tick, collectVars, vars, CacheInv, CacheOK
<1>5. ASSUME NEW a \in Adapters,
             BeginDetect(a) \/ EndDetect(a) \/ BeginFetch(a) \/ CallFetch(a) \/ FetchFails(a)
      PROVE  CacheInv'
  <2>1. CacheOK(a)'
    BY <1>5 DEF TypeOK, BeginDetect, EndDetect, BeginFetch, CallFetch, FetchFails, Start, Go,
                Finish, CacheInv, CacheOK
  <2>2. QED
    BY <1>5, <2>1, CacheLocal
    DEF TypeOK, BeginDetect, EndDetect, BeginFetch, CallFetch, FetchFails, Start, Go, Finish
<1>6. ASSUME NEW a \in Adapters, CacheHit(a) PROVE CacheInv'
  <2>1. CacheOK(a)'
    BY <1>6 DEF TypeOK, CacheHit, Finish, CacheInv, CacheOK, Result
  <2>2. QED
    BY <1>6, <2>1, CacheLocal DEF TypeOK, CacheHit, Finish
<1>7. ASSUME NEW a \in Adapters, FetchAnswers(a) PROVE CacheInv'
  <2>1. PICK answer \in Answers(a):
          /\ Verdict(answer) = "none"
          /\ fetched' = [fetched EXCEPT ![a] = answer.status]
          /\ Go(a, "fetching", IF MayStore(answer.status) THEN "storing" ELSE "publishing")
    BY <1>7 DEF FetchAnswers
  <2>2. answer.status.run = run
    BY <2>1, VerdictMeans
  <2>3. CacheOK(a)'
    BY <1>7, <2>1, <2>2 DEF TypeOK, FetchAnswers, Go, MayStore, CacheInv, CacheOK
  <2>4. QED
    BY <1>7, <2>1, <2>3, CacheLocal DEF TypeOK, FetchAnswers, Go
<1>8. ASSUME NEW a \in Adapters, Store(a) PROVE CacheInv'
  <2>1. phase \in {"collect", "returned"}
    BY <1>8 DEF TypeOK, PhaseInv, Store, Go
  <2>2. CacheOK(a)'
    BY <1>8, <2>1 DEF TypeOK, Status, Store, Go, Put, CacheInv, CacheOK
  <2>3. QED
    BY <1>8, <2>2, CacheLocal DEF TypeOK, Store, Go, Put
<1>9. ASSUME NEW a \in Adapters, Publish(a) PROVE CacheInv'
  <2>1. CacheOK(a)'
    BY <1>9 DEF TypeOK, Publish, Published, Finish, CacheInv, CacheOK, Result
  <2>2. QED
    BY <1>9, <2>1, CacheLocal DEF TypeOK, Publish, Finish
<1>10. QED
  BY <1>1, <1>2, <1>3, <1>4, <1>5, <1>6, <1>7, <1>8, <1>9 DEF Next

(***************************************************************************)
(* The invariant, and what follows from it                                 *)
(***************************************************************************)

\* The initial state satisfies the invariant.
LEMMA InvInit == Init => IInv
<1> SUFFICES ASSUME Init PROVE IInv
  OBVIOUS
<1>1. SlotDiscipline
  <2>1. sem = {a \in Adapters: pc[a] \in Working}
    BY DEF Init, Working
  <2>2. Cardinality(sem) = 0
    BY FS_EmptySet DEF Init
  <2>3. QED
    BY <2>1, <2>2, SlotsAssumption DEF SlotDiscipline
<1>2. PhaseInv
  BY DEF Init, PhaseInv
<1>3. ResultInv
  BY DEF Init, ResultInv, ResultOK, EmptyResult
<1>4. CacheInv
  BY DEF Init, CacheInv, CacheOK, NoStatus
<1>5. QED
  BY TypeInit, <1>1, <1>2, <1>3, <1>4 DEF IInv

\* Every step preserves the invariant.
LEMMA InvStep == IInv /\ [Next]_vars => IInv'
<1> SUFFICES ASSUME IInv, [Next]_vars PROVE IInv'
  OBVIOUS
<1>1. SlotDiscipline'
  BY SlotsHeldStep, WithinSlotsStep DEF IInv, SlotDiscipline, SlotsHeld, WithinSlots
<1>2. QED
  BY <1>1, TypeStep, PhaseStep, ResultStep, CacheStep DEF IInv

\* Collect keeps the conjunction of its types, slots, phases, results and
\* cache.
THEOREM CollectInvariant == Spec => []IInv
<1>1. QED
  BY InvInit, InvStep, PTL DEF Spec

\* Every way out of a goroutine frees its slot, and there are never more
\* goroutines at work than slots.
THEOREM SlotDisciplineHolds == Spec => []SlotDiscipline
<1>1. IInv => SlotDiscipline
  BY DEF IInv
<1>2. QED
  BY <1>1, CollectInvariant, PTL

\* When Collect returns, each available adapter has a status or an error and
\* no other adapter has either.
THEOREM ResultsCompleteHolds == Spec => []ResultsComplete
<1>1. IInv => ResultsComplete
  <2> SUFFICES ASSUME IInv, phase = "returned", NEW a \in Adapters
               PROVE  /\ Available(detection[a]) =>
                           (results[a].status # NoStatus <=> results[a].err = "none")
                      /\ ~Available(detection[a]) => results[a] = EmptyResult
                      /\ results[a].cached => results[a].status # NoStatus
    BY DEF ResultsComplete
  <2>1. pc[a] \in {"off", "finished"} /\ (Available(detection[a]) <=> pc[a] # "off")
    BY DEF IInv, PhaseInv
  <2>2. QED
    BY <2>1 DEF IInv, ResultInv, ResultOK
<1>2. QED
  BY <1>1, CollectInvariant, PTL

\* Freebuff's guard status, or any other marked SkipCache, never reaches the
\* cache and never comes from it.
THEOREM GuardNeverCachedHolds == Spec => []GuardNeverCached
<1>1. IInv => GuardNeverCached
  BY DEF IInv, GuardNeverCached, ResultInv, ResultOK, CacheInv, CacheOK
<1>2. QED
  BY <1>1, CollectInvariant, PTL

\* What Collect returns is of this run unless marked as cached, never cached
\* under --refresh, and what the run stored is what it reports.
THEOREM ResultsFreshHolds == Spec => []ResultsFresh
<1>1. IInv => ResultsFresh
  <2> SUFFICES ASSUME IInv, phase = "returned", NEW a \in Adapters
               PROVE  /\ ~results[a].cached /\ results[a].status # NoStatus =>
                           results[a].status.run = run
                      /\ refresh => ~results[a].cached
                      /\ cache[a].run = run => results[a].status = cache[a]
    BY DEF ResultsFresh
  <2>1. run > 0
    BY DEF IInv, PhaseInv
  <2>2. pc[a] \in {"off", "finished"}
    BY DEF IInv, PhaseInv
  <2>3. QED
    BY <2>1, <2>2 DEF IInv, ResultInv, ResultOK, CacheInv, CacheOK
<1>2. QED
  BY <1>1, CollectInvariant, PTL

\* A cached entry is replaced only by the status of a later run.
THEOREM CacheAdvancesHolds == Spec => CacheAdvances
<1>1. IInv /\ [Next]_vars => [\A a \in Adapters: cache'[a] # cache[a] => cache'[a].run > cache[a].run]_vars
  <2> SUFFICES ASSUME IInv, Next, NEW b \in Adapters, cache'[b] # cache[b]
               PROVE  cache'[b].run > cache[b].run
    OBVIOUS
  <2>1. PICK a \in Adapters: Store(a)
    BY DEF Next, StartRun, StartCollect, Return, Tick, collectVars, BeginDetect, EndDetect,
           BeginFetch, CacheHit, CallFetch, FetchFails, FetchAnswers, Publish
  <2>2. a = b /\ cache'[b] = fetched[b] /\ pc[b] = "storing"
    BY <2>1 DEF Store, Put, Go, IInv, TypeOK
  <2>3. fetched[b].run = run /\ cache[b].run <= run /\ run > 0 /\ cache[b].run # run
    BY <2>2 DEF IInv, PhaseInv, CacheInv, CacheOK
  <2>4. cache[b].run \in Nat /\ run \in Nat
    BY DEF IInv, TypeOK, Status
  <2>5. QED
    BY <2>2, <2>3, <2>4
<1>2. QED
  BY <1>1, CollectInvariant, PTL DEF Spec, CacheAdvances

(***************************************************************************)
(* Isolation                                                               *)
(***************************************************************************)

\* No step lets a Fetch outlive the work it needs.
LEMMA TimerStep == TypeOK /\ TimerInv /\ [Next]_vars => TimerInv'
<1> SUFFICES ASSUME TypeOK, TimerInv, [Next]_vars, NEW b \in Adapters, pc'[b] = "fetching"
             PROVE  age'[b] <= need'[b]
  BY DEF TimerInv
<1>1. CASE StartRun
  BY <1>1 DEF StartRun
<1>2. CASE StartCollect
  BY <1>2 DEF StartCollect
<1>3. CASE Return \/ UNCHANGED vars
  BY <1>3 DEF Return, TimerInv, timeVars, vars
<1>4. CASE Tick
  <2>1. pc[b] = "fetching" /\ age[b] < need[b]
    BY <1>4 DEF Tick, collectVars, Urgent, Due, TypeOK, TimerInv
  <2>2. QED
    BY <1>4, <2>1 DEF Tick, TypeOK
<1>5. ASSUME NEW a \in Adapters, CallFetch(a) PROVE age'[b] <= need'[b]
  <2>1. CASE a = b
    <3>1. PICK n \in 0..MaxWork: need' = [need EXCEPT ![b] = n]
      BY <1>5, <2>1 DEF CallFetch
    <3>2. need'[b] = n /\ age'[b] = 0
      BY <1>5, <2>1, <3>1 DEF CallFetch, TypeOK
    <3>3. QED
      BY <3>2, BoundsAssumption
  <2>2. CASE a # b
    BY <1>5, <2>2 DEF CallFetch, Go, TypeOK, TimerInv
  <2>3. QED
    BY <2>1, <2>2
<1>6. ASSUME NEW a \in Adapters, FetchFails(a) \/ FetchAnswers(a) PROVE age'[b] <= need'[b]
  <2>1. a # b
    BY <1>6 DEF FetchFails, FetchAnswers, Finish, Go, TypeOK
  <2>2. QED
    BY <1>6, <2>1 DEF FetchFails, FetchAnswers, StopTimer, Finish, Go, TypeOK, TimerInv
<1>7. ASSUME NEW a \in Adapters,
             BeginDetect(a) \/ EndDetect(a) \/ BeginFetch(a) \/ CacheHit(a) \/ Store(a) \/ Publish(a)
      PROVE  age'[b] <= need'[b]
  BY <1>7 DEF BeginDetect, EndDetect, BeginFetch, CacheHit, Store, Publish, Start, Go, Finish,
              TypeOK, TimerInv, timeVars
<1>8. QED
  BY <1>1, <1>2, <1>3, <1>4, <1>5, <1>6, <1>7 DEF Next

\* "A failure in one adapter never blocks the others": in a one-shot command,
\* where each Fetch has only a timer of its own, an adapter whose work fits the
\* timeout is never timed out, however the others behave.
THEOREM NeverBlockedHolds == Spec => NeverBlocked
<1>1. Init => TimerInv
  BY DEF Init, TimerInv
<1>2. TypeOK /\ TimerInv /\ [Next]_vars => TimerInv'
  BY TimerStep
<1>3. IInv /\ TimerInv /\ [Next]_vars =>
        [\A a \in Adapters: ~shared /\ results[a].err # "deadline" /\ results'[a].err = "deadline"
           => timeout > 0 /\ need[a] >= timeout]_vars
  <2> SUFFICES ASSUME IInv, TimerInv, Next, NEW b \in Adapters, ~shared,
                      results[b].err # "deadline", results'[b].err = "deadline"
               PROVE  timeout > 0 /\ need[b] >= timeout
    OBVIOUS
  <2> USE DEF IInv
  <2>1. ASSUME StartRun \/ StartCollect \/ Return \/ Tick PROVE FALSE
    BY <2>1 DEF StartRun, StartCollect, Return, Tick, collectVars, EmptyResult
  <2>2. ASSUME NEW a \in Adapters,
               \/ BeginDetect(a) \/ EndDetect(a) \/ BeginFetch(a) \/ CallFetch(a)
               \/ FetchAnswers(a) \/ Store(a)
        PROVE  FALSE
    BY <2>2 DEF BeginDetect, EndDetect, BeginFetch, CallFetch, FetchAnswers, Store
  <2>3. ASSUME NEW a \in Adapters, CacheHit(a) \/ Publish(a) PROVE FALSE
    BY <2>3 DEF CacheHit, Publish, TypeOK, Result
  <2>4. PICK a \in Adapters: FetchFails(a)
    BY <2>1, <2>2, <2>3 DEF Next
  <2>5. PICK answer \in Answers(a): results' = [results EXCEPT ![a].err = Verdict(answer)]
    BY <2>4 DEF FetchFails
  <2>6. a = b /\ Verdict(answer) = "deadline"
    BY <2>5 DEF TypeOK, Result
  <2>7. Expired(b)
    BY <2>5, <2>6, VerdictMeans
  <2>8. timeout > 0 /\ age[b] >= timeout
    BY <2>7 DEF Expired
  <2>9. age[b] <= need[b]
    BY <2>4, <2>6 DEF FetchFails, Finish, TimerInv
  <2>10. QED
    BY <2>8, <2>9, TimeoutAssumption, BoundsAssumption DEF TypeOK
<1>4. IInv => TypeOK
  BY DEF IInv
<1>5. QED
  BY <1>1, <1>2, <1>3, <1>4, CollectInvariant, PTL DEF Spec, NeverBlocked

(***************************************************************************)
(* The deadline of a watch cycle                                           *)
(***************************************************************************)

\* Time stands still once the deadline is over: what runs then has expired.
LEMMA CycleStep == TypeOK /\ CycleBounded /\ [Next]_vars => CycleBounded'
<1> SUFFICES ASSUME TypeOK, CycleBounded, [Next]_vars, shared' PROVE clock' <= timeout'
  BY DEF CycleBounded
<1>1. CASE StartRun
  BY <1>1, TimeoutAssumption DEF StartRun
<1>2. CASE Tick
  <2>1. PICK a \in Adapters: pc[a] = "fetching" /\ ~Expired(a)
    BY <1>2 DEF Tick, Urgent
  <2>2. shared /\ clock' = clock + 1 /\ timeout' = timeout
    BY <1>2 DEF Tick, collectVars
  <2>3. ~(clock >= timeout)
    BY <2>1, <2>2 DEF Expired
  <2>4. QED
    BY <2>2, <2>3, TimeoutAssumption DEF TypeOK
<1>3. CASE ~StartRun /\ ~Tick
  <2>1. UNCHANGED <<shared, timeout, clock>>
    BY <1>3 DEF Next, StartCollect, Return, BeginDetect, EndDetect, BeginFetch, CacheHit, CallFetch,
                FetchFails, FetchAnswers, Store, Publish, timeVars, vars
  <2>2. QED
    BY <2>1 DEF CycleBounded
<1>4. QED
  BY <1>1, <1>2, <1>3

\* A watch cycle ends by its one deadline, however many adapters there are and
\* however few slots, and takes no time at all if the timeout is zero.
THEOREM CycleBoundedHolds == Spec => []CycleBounded
<1>1. Init => CycleBounded
  BY DEF Init, CycleBounded
<1>2. QED
  BY <1>1, CycleStep, CollectTypeCorrect, PTL DEF Spec

(***************************************************************************)
(* A one-shot command: the fetches of each slot, one after the other       *)
(***************************************************************************)
OneShot == ~shared /\ timeout > 0

\* The adapters that have no Fetch to begin, or began it at most k timeouts
\* after the run began.
Early(k) ==
  {a \in Adapters:
     \/ pc[a] \in {"off", "finished", "storing", "publishing"}
     \/ pc[a] = "fetching" /\ clock <= k * timeout + age[a]}

\* Once k timeouts are over, k + 1 fetches have begun early for each slot, or all.
Filled(k) == (k + 1) * Slots <= Cardinality(Early(k)) \/ Early(k) = Adapters
WaveInv ==
  /\ phase = "detect" => clock = 0
  /\ OneShot => \A k \in Nat: k * timeout < clock => Filled(k)

\* Products with one factor more or less, which the waves are counted by.
LEMMA Products ==
  ASSUME NEW k \in Int, NEW m \in Int
  PROVE  k * m \in Int /\ (k + 1) * m = k * m + m /\ (k - 1) * m = k * m - m /\ 0 * m = 0
  BY SMT

\* A product of natural numbers is one.
LEMMA NatProduct == ASSUME NEW k \in Nat, NEW m \in Nat PROVE k * m \in Nat
  BY SMT

\* Sets of adapters can be counted.
LEMMA FiniteSubset ==
  ASSUME NEW S \in SUBSET Adapters
  PROVE  IsFiniteSet(S) /\ Cardinality(S) \in Nat /\ Cardinality(S) <= Cardinality(Adapters)
  BY AdaptersAssumption, FS_Subset, FS_CardinalityType

\* Between two ticks an adapter that was early stays so.
LEMMA FilledKept ==
  ASSUME NEW k \in Nat, Slots' = Slots, Early(k) \subseteq Early(k)', Filled(k)
  PROVE  Filled(k)'
<1> DEFINE E == Early(k)  F == Early(k)'
<1>1. E \in SUBSET Adapters /\ F \in SUBSET Adapters /\ E \subseteq F
  BY DEF Early
<1>2. IsFiniteSet(F) /\ Cardinality(F) \in Nat /\ Cardinality(E) \in Nat
  BY <1>1, FiniteSubset
<1>3. Cardinality(E) <= Cardinality(F)
  <2> HIDE DEF E, F
  <2>1. QED
    BY <1>1, <1>2, FS_Subset
<1>4. (k + 1) * Slots \in Int
  BY SlotsAssumption, Products
<1>5. CASE E = Adapters
  BY <1>1, <1>5 DEF Filled
<1>6. CASE (k + 1) * Slots <= Cardinality(E)
  <2>1. (k + 1) * Slots <= Cardinality(F)
    BY <1>2, <1>3, <1>4, <1>6
  <2>2. QED
    BY <2>1 DEF Filled
<1>7. QED
  BY <1>5, <1>6 DEF Filled

\* A step that takes no time.
LEMMA WaveStepUntimed ==
  ASSUME TypeOK, WaveInv, [Next]_vars, ~StartRun, ~StartCollect, ~Tick
  PROVE  WaveInv'
<1>1. UNCHANGED <<phase, shared, timeout, clock>> \/ Return
  BY DEF Next, vars, timeVars, BeginDetect, EndDetect, BeginFetch, CacheHit, CallFetch, FetchFails,
         FetchAnswers, Store, Publish
<1>2. UNCHANGED <<shared, timeout, clock>> /\ (phase' = "detect" => phase = "detect")
  BY <1>1 DEF Return, timeVars
<1>3. ASSUME NEW k \in Nat, OneShot, k * timeout < clock PROVE Early(k) \subseteq Early(k)'
  <2>1. k * timeout \in Int /\ clock \in Nat /\ timeout \in Nat
    BY Products, TimeoutAssumption DEF TypeOK
  <2>2. SUFFICES ASSUME NEW a \in Adapters, a \in Early(k) PROVE a \in Early(k)'
    BY DEF Early
  <2>3. (pc[a]' = pc[a] /\ age[a]' = age[a])
        \/ pc[a]' \in {"finished", "storing", "publishing"}
        \/ pc[a] \in {"waiting", "lookup"}
    <3>1. CASE Return \/ UNCHANGED vars
      BY <3>1 DEF Return, timeVars, vars
    <3>2. ASSUME NEW b \in Adapters, BeginDetect(b) \/ BeginFetch(b)
          PROVE  (pc[a]' = pc[a] /\ age[a]' = age[a]) \/ pc[a] = "waiting"
      BY <3>2 DEF TypeOK, timeVars, BeginDetect, BeginFetch, Start
    <3>3. ASSUME NEW b \in Adapters, EndDetect(b) \/ CacheHit(b) \/ Publish(b)
          PROVE  (pc[a]' = pc[a] /\ age[a]' = age[a]) \/ pc[a]' = "finished"
      BY <3>3 DEF TypeOK, timeVars, EndDetect, CacheHit, Publish, Finish
    <3>4. ASSUME NEW b \in Adapters, CallFetch(b)
          PROVE  (pc[a]' = pc[a] /\ age[a]' = age[a]) \/ pc[a] = "lookup"
      BY <3>4 DEF TypeOK, CallFetch, Go
    <3>5. ASSUME NEW b \in Adapters, FetchFails(b) \/ FetchAnswers(b) \/ Store(b)
          PROVE  \/ pc[a]' = pc[a] /\ age[a]' = age[a]
                 \/ pc[a]' \in {"finished", "storing", "publishing"}
      BY <3>5 DEF TypeOK, timeVars, FetchFails, FetchAnswers, Store, Finish, Go, StopTimer
    <3>6. QED
      BY <3>1, <3>2, <3>3, <3>4, <3>5 DEF Next
  <2>4. QED
    BY <1>2, <2>1, <2>2, <2>3 DEF Early
<1>4. QED
  BY <1>2, <1>3, FilledKept DEF WaveInv, OneShot

\* A tick: whoever began k - 1 timeouts ago has expired, or time would not
\* pass, and if somebody waits the slots are full of others.
LEMMA WaveStepTick ==
  ASSUME TypeOK, SlotDiscipline, WaveInv, Tick
  PROVE  WaveInv'
<1>1. UNCHANGED <<phase, shared, timeout, pc, sem>> /\ phase = "collect" /\ clock' = clock + 1
  BY DEF Tick, collectVars
<1>2. \A a \in Adapters: pc[a] \in {"off", "waiting", "fetching", "finished"}
  <2>1. ASSUME NEW a \in Adapters PROVE pc[a] \in {"off", "waiting", "fetching", "finished"}
    BY DEF Tick, Urgent, TypeOK, PC, Working
  <2>2. QED
    BY <2>1
<1>3. ASSUME NEW a \in Adapters, pc[a] = "fetching"
      PROVE  age[a]' = age[a] + 1 /\ age[a] \in Nat /\ ~Expired(a)
  BY <1>3 DEF Tick, Urgent, TypeOK
<1>4. clock \in Nat /\ timeout \in Nat /\ Slots \in Nat
  BY TimeoutAssumption, SlotsAssumption DEF TypeOK
<1>5. ASSUME NEW k \in Nat PROVE Early(k)' = Early(k)
  <2>1. k * timeout \in Int
    BY <1>4, Products
  <2>2. QED
    BY <1>1, <1>2, <1>3, <1>4, <2>1 DEF Early
<1>6. ASSUME NEW k \in Nat, OneShot, k * timeout = clock PROVE Filled(k)
  <2> DEFINE Done == {a \in Adapters: pc[a] \in {"off", "finished"}}
  <2>1. Early(k) = Done \cup {a \in Adapters: pc[a] = "fetching"}
    BY <1>2, <1>3, <1>4, <1>6 DEF Early
  <2>2. CASE \A a \in Adapters: pc[a] # "waiting"
    BY <1>2, <2>1, <2>2 DEF Filled
  <2>3. CASE \E a \in Adapters: pc[a] = "waiting"
    <3>1. ~SlotFree
      BY <2>3 DEF Tick, Urgent
    <3>2. sem = {a \in Adapters: pc[a] = "fetching"}
      BY <1>2 DEF SlotDiscipline, Working
    <3>3. Cardinality(sem) = Slots
      <4>1. sem \in SUBSET Adapters
        BY <3>2
      <4>2. Cardinality(sem) \in Nat
        BY <4>1, FiniteSubset
      <4>3. QED
        BY <1>4, <3>1, <4>2 DEF SlotFree, SlotDiscipline
    <3>4. k * Slots <= Cardinality(Done)
      <4>1. Done \in SUBSET Adapters
        OBVIOUS
      <4>2. Cardinality(Done) \in Nat
        BY <4>1, FiniteSubset
      <4>3. CASE k = 0
        BY <1>4, <4>2, <4>3, Products
      <4>4. CASE k > 0
        <5>1. k - 1 \in Nat /\ (k - 1) * timeout = clock - timeout
          BY <1>4, <1>6, <4>4, Products
        <5>2. (k - 1) * timeout < clock
          BY <1>4, <1>6, <5>1 DEF OneShot
        <5>3. Filled(k - 1)
          BY <1>6, <5>1, <5>2 DEF WaveInv
        <5>4. Early(k - 1) = Done
          <6>1. ASSUME NEW a \in Adapters, pc[a] = "fetching"
                PROVE  ~(clock <= (k - 1) * timeout + age[a])
            <7>1. ~(age[a] >= timeout) /\ age[a] \in Nat
              BY <1>3, <1>6, <6>1 DEF Expired, OneShot
            <7>2. QED
              BY <1>4, <5>1, <7>1
          <6>2. QED
            BY <1>2, <6>1 DEF Early
        <5>5. Done # Adapters
          BY <2>3
        <5>6. (k - 1) + 1 = k
          OBVIOUS
        <5>7. ((k - 1) + 1) * Slots <= Cardinality(Done)
          BY <5>3, <5>4, <5>5 DEF Filled
        <5>8. QED
          BY <5>6, <5>7
      <4>5. QED
        BY <4>3, <4>4
    <3>5. Cardinality(Early(k)) = Cardinality(Done) + Cardinality(sem)
      <4>1. IsFiniteSet(Done) /\ IsFiniteSet(sem) /\ Done \cap sem = {}
        BY <3>2, FiniteSubset
      <4>2. Cardinality(Done \cup sem)
              = Cardinality(Done) + Cardinality(sem) - Cardinality(Done \cap sem)
        BY <4>1, FS_Union
      <4>3. Cardinality(Done) \in Nat /\ Cardinality(sem) \in Nat
        BY <4>1, FS_CardinalityType
      <4>4. QED
        BY <2>1, <3>2, <4>1, <4>2, <4>3, FS_EmptySet
    <3>6. Cardinality(Done) \in Nat
      BY FiniteSubset
    <3>7. (k + 1) * Slots = k * Slots + Slots /\ k * Slots \in Int
      BY <1>4, Products
    <3>8. (k + 1) * Slots <= Cardinality(Early(k))
      BY <1>4, <3>3, <3>4, <3>5, <3>6, <3>7
    <3>9. QED
      BY <3>8 DEF Filled
  <2>4. QED
    BY <2>2, <2>3
<1>7. ASSUME NEW k \in Nat, OneShot, k * timeout < clock' PROVE Filled(k)'
  <2>1. k * timeout \in Int
    BY <1>4, Products
  <2>2. k * timeout < clock \/ k * timeout = clock
    BY <1>1, <1>4, <1>7, <2>1
  <2>3. Filled(k)
    BY <1>6, <1>7, <2>2 DEF WaveInv
  <2>4. QED
    BY <1>5, <2>3 DEF Filled
<1>8. QED
  BY <1>1, <1>7 DEF WaveInv, OneShot

\* The waves fill in every step.
LEMMA WaveStep == TypeOK /\ SlotDiscipline /\ WaveInv /\ [Next]_vars => WaveInv'
<1> SUFFICES ASSUME TypeOK, SlotDiscipline, WaveInv, [Next]_vars PROVE WaveInv'
  OBVIOUS
<1>1. ASSUME clock' = 0, TypeOK' PROVE WaveInv'
  <2>1. ASSUME NEW k \in Nat PROVE ~(k * timeout' < clock')
    <3>1. timeout' \in Nat
      BY <1>1, TimeoutAssumption DEF TypeOK
    <3>2. k * timeout' \in Nat
      BY <3>1, NatProduct
    <3>3. QED
      BY <1>1, <3>2
  <2>2. QED
    BY <1>1, <2>1 DEF WaveInv
<1>2. TypeOK'
  BY TypeStep
<1>3. CASE StartRun
  BY <1>1, <1>2, <1>3 DEF StartRun
<1>4. CASE StartCollect
  BY <1>1, <1>2, <1>4 DEF StartCollect, WaveInv, timeVars
<1>5. CASE Tick
  BY <1>5, WaveStepTick
<1>6. QED
  BY <1>3, <1>4, <1>5, WaveStepUntimed

\* The slots of all waves are at least as many as the adapters.
LEMMA WavesSuffice ==
  Cardinality(Adapters) > 0 =>
    /\ Waves \in Int /\ Waves - 1 \in Nat /\ (Waves - 1) + 1 = Waves
    /\ Cardinality(Adapters) <= Waves * Slots
<1>1. ASSUME NEW n \in Nat, NEW m \in Nat \ {0}, n > 0
      PROVE  (n + m - 1) \div m \in Nat \ {0} /\ n <= ((n + m - 1) \div m) * m
  <2>1. n <= ((n + m - 1) \div m) * m
    BY SMTT(30)
  <2>2. (n + m - 1) \div m \in Nat
    BY SMTT(30)
  <2>3. (n + m - 1) \div m > 0
    BY <1>1, SMTT(30)
  <2>4. QED
    BY <2>1, <2>2, <2>3
<1>2. Cardinality(Adapters) \in Nat
  BY AdaptersAssumption, FS_CardinalityType
<1>3. SUFFICES ASSUME Cardinality(Adapters) > 0
               PROVE  Waves \in Nat \ {0} /\ Cardinality(Adapters) <= Waves * Slots
  OBVIOUS
<1>4. QED
  BY <1>1, <1>2, <1>3, SlotsAssumption DEF Waves

\* No tick after the last wave: what still runs has begun early enough to
\* have expired.
LEMMA OneShotStep == TypeOK /\ WaveInv /\ OneShotBounded /\ [Next]_vars => OneShotBounded'
<1> SUFFICES ASSUME TypeOK, WaveInv, OneShotBounded, [Next]_vars, OneShot'
             PROVE  clock' <= Waves * timeout'
  BY DEF OneShotBounded, OneShot
<1>1. CASE StartRun
  <2>1. clock' = 0 /\ timeout' \in Nat
    BY <1>1, TimeoutAssumption DEF StartRun
  <2>2. Waves \in Nat
    <3>1. Cardinality(Adapters) \in Nat
      BY AdaptersAssumption, FS_CardinalityType
    <3>2. ASSUME NEW n \in Nat, NEW m \in Nat \ {0} PROVE (n + m - 1) \div m \in Nat
      BY SMTT(30)
    <3>3. QED
      BY <3>1, <3>2, SlotsAssumption DEF Waves
  <2>3. Waves * timeout' \in Nat
    BY <2>1, <2>2, NatProduct
  <2>4. QED
    BY <2>1, <2>3
<1>2. CASE Tick
  <2>1. OneShot /\ timeout' = timeout /\ clock' = clock + 1 /\ clock \in Nat /\ timeout \in Nat
    BY <1>2, TimeoutAssumption DEF Tick, collectVars, OneShot, TypeOK
  <2>2. PICK a \in Adapters: pc[a] = "fetching" /\ ~Expired(a)
    BY <1>2 DEF Tick, Urgent
  <2>3. ~(age[a] >= timeout) /\ age[a] \in Nat
    BY <2>1, <2>2 DEF Expired, OneShot, TypeOK
  <2>4. Cardinality(Adapters) \in Nat /\ Cardinality(Adapters) > 0
    BY AdaptersAssumption, FS_CardinalityType, FS_EmptySet
  <2>5. Waves - 1 \in Nat /\ Waves \in Int /\ (Waves - 1) + 1 = Waves
        /\ Cardinality(Adapters) <= Waves * Slots
    BY <2>4, WavesSuffice
  <2>6. (Waves - 1) * timeout = Waves * timeout - timeout /\ Waves * timeout \in Int
    BY <2>1, <2>5, Products
  <2>7. SUFFICES ASSUME ~(clock' <= Waves * timeout) PROVE FALSE
    BY <2>1
  <2>8. (Waves - 1) * timeout < clock
    BY <2>1, <2>6, <2>7 DEF OneShot
  <2>9. Filled(Waves - 1)
    BY <2>1, <2>5, <2>8 DEF WaveInv
  <2>10. a \notin Early(Waves - 1)
    BY <2>1, <2>2, <2>3, <2>6, <2>7 DEF Early
  <2>11. Waves * Slots <= Cardinality(Early(Waves - 1))
    BY <2>5, <2>9, <2>10 DEF Filled
  <2>12. Early(Waves - 1) = Adapters
    <3>1. Early(Waves - 1) \in SUBSET Adapters
      BY DEF Early
    <3>2. Cardinality(Early(Waves - 1)) \in Nat
          /\ Cardinality(Early(Waves - 1)) <= Cardinality(Adapters)
      BY <3>1, FiniteSubset
    <3>3. Waves * Slots \in Int
      BY <2>5, SlotsAssumption, Products
    <3>4. Cardinality(Early(Waves - 1)) = Cardinality(Adapters)
      BY <2>4, <2>5, <2>11, <3>2, <3>3
    <3>5. QED
      BY <3>1, <3>4, AdaptersAssumption, FS_Subset
  <2>13. QED
    BY <2>10, <2>12
<1>3. CASE ~StartRun /\ ~Tick
  <2>1. UNCHANGED <<shared, timeout, clock>>
    BY <1>3 DEF Next, StartCollect, Return, BeginDetect, EndDetect, BeginFetch, CacheHit, CallFetch,
                FetchFails, FetchAnswers, Store, Publish, timeVars, vars
  <2>2. QED
    BY <2>1 DEF OneShotBounded, OneShot
<1>4. QED
  BY <1>1, <1>2, <1>3

\* A run ends in time: a watch cycle by its deadline, a one-shot command after
\* as many timeouts as it takes to give every adapter a slot.
THEOREM RunBoundedHolds == Spec => []RunBounded
<1>1. Init => WaveInv /\ OneShotBounded
  BY DEF Init, WaveInv, OneShot, OneShotBounded
<1>2. CycleBounded /\ OneShotBounded <=> RunBounded
  BY DEF RunBounded
<1>3. QED
  BY <1>1, <1>2, WaveStep, OneShotStep, CollectTypeCorrect, SlotDisciplineHolds,
     CycleBoundedHolds, PTL
  DEF Spec

(***************************************************************************)
(* Refinement                                                              *)
(***************************************************************************)
Stage == StageOf[phase]
Asked == {a \in Adapters: StageOf[phase] # "idle" /\ Available(detection[a])}
Outcome == [a \in Adapters |-> OutcomeOf(results[a])]
AbstractUnchanged == Stage' = Stage /\ Asked' = Asked /\ Outcome' = Outcome

\* A step that touches neither the phase, the detections nor the results is
\* not seen by the caller.
LEMMA Stutter ==
  ASSUME phase' = phase, detection' = detection, results' = results
  PROVE  AbstractUnchanged
BY DEF AbstractUnchanged, Stage, Asked, Outcome, OutcomeOf

\* The step that ends the goroutine of a is seen as the decision about a.
LEMMA Decision ==
  ASSUME IInv, NEW a \in Adapters, phase = "collect", phase' = phase, detection' = detection,
         Available(detection[a]), pc[a] # "finished",
         \A b \in Adapters \ {a}: results'[b] = results[b],
         OutcomeOf(results[a])' \in {"status", "error"}
  PROVE  Promise!Decide(a)
<1>1. Stage = "asking" /\ Stage' = Stage /\ Asked' = Asked /\ a \in Asked
  BY DEF Stage, Asked, StageOf
<1>2. results[a] = EmptyResult
  BY DEF IInv, ResultInv, ResultOK
<1>3. Outcome[a] = "none"
  BY <1>2 DEF Outcome, OutcomeOf, EmptyResult
<1>4. Outcome' = [Outcome EXCEPT ![a] = OutcomeOf(results[a])']
  BY DEF Outcome, OutcomeOf
<1>5. QED
  BY <1>1, <1>3, <1>4 DEF Promise!Decide, Stage, Asked, Outcome

\* Every step of Collect is a step of FanOut or is not seen.
LEMMA FanOutStep == IInv /\ [Next]_vars => Promise!Next \/ AbstractUnchanged
<1> SUFFICES ASSUME IInv, [Next]_vars PROVE Promise!Next \/ AbstractUnchanged
  OBVIOUS
<1>1. CASE StartRun
  <2>1. Stage # "asking" /\ Stage' = "idle" /\ Asked' = {}
    BY <1>1 DEF StartRun, Stage, Asked, StageOf
  <2>2. Outcome' = [a \in Adapters |-> "none"]
    BY <1>1 DEF StartRun, Outcome, OutcomeOf, EmptyResult
  <2>3. QED
    BY <2>1, <2>2 DEF Promise!Next, Promise!Forget, Stage, Asked, Outcome
<1>2. CASE StartCollect
  <2>1. Stage = "idle" /\ Stage' = "asking" /\ Asked' \in SUBSET Adapters /\ Outcome' = Outcome
    BY <1>2 DEF StartCollect, Stage, Asked, Outcome, OutcomeOf, StageOf
  <2>2. QED
    BY <2>1 DEF Promise!Next, Promise!Ask, Stage, Asked, Outcome
<1>3. CASE Return
  <2>1. Stage = "asking" /\ Stage' = "answered" /\ Asked' = Asked /\ Outcome' = Outcome
    BY <1>3 DEF Return, Stage, Asked, Outcome, OutcomeOf, StageOf
  <2>2. ASSUME NEW a \in Asked PROVE Outcome[a] # "none"
    <3>1. a \in Adapters /\ phase = "collect" /\ pc[a] = "finished"
      BY <1>3, <2>2 DEF Return, Joined, Asked, IInv, PhaseInv
    <3>2. results[a].status # NoStatus <=> results[a].err = "none"
      BY <3>1 DEF IInv, ResultInv, ResultOK
    <3>3. QED
      BY <3>1, <3>2 DEF Outcome, OutcomeOf
  <2>3. QED
    BY <2>1, <2>2 DEF Promise!Next, Promise!Answer, Stage, Asked, Outcome
<1>4. CASE Tick \/ UNCHANGED vars
  BY <1>4, Stutter DEF Tick, collectVars, vars
<1>5. ASSUME NEW a \in Adapters,
             BeginDetect(a) \/ BeginFetch(a) \/ CallFetch(a) \/ FetchAnswers(a) \/ Store(a)
      PROVE  AbstractUnchanged
  BY <1>5, Stutter DEF BeginDetect, BeginFetch, CallFetch, FetchAnswers, Store
<1>6. ASSUME NEW a \in Adapters, EndDetect(a) PROVE AbstractUnchanged
  <2>1. phase = "detect" /\ phase' = phase /\ results' = results
    BY <1>6 DEF EndDetect, Finish, IInv, TypeOK, PhaseInv
  <2>2. QED
    BY <2>1 DEF AbstractUnchanged, Stage, Asked, Outcome, OutcomeOf, StageOf
<1>7. ASSUME NEW a \in Adapters, CacheHit(a) \/ FetchFails(a) \/ Publish(a)
      PROVE  Promise!Decide(a)
  <2>1. /\ phase = "collect" /\ phase' = phase /\ detection' = detection
        /\ Available(detection[a]) /\ pc[a] # "finished"
        /\ pc'[a] = "finished"
    BY <1>7 DEF CacheHit, FetchFails, Publish, Finish, IInv, TypeOK, PhaseInv
  <2>2. \A b \in Adapters \ {a}: results'[b] = results[b]
    BY <1>7 DEF CacheHit, FetchFails, Publish, IInv, TypeOK
  <2>3. (results[a].status # NoStatus <=> results[a].err = "none")'
    BY <2>1, InvStep DEF IInv, ResultInv, ResultOK
  <2>4. OutcomeOf(results[a])' \in {"status", "error"}
    BY <2>3 DEF OutcomeOf
  <2>5. QED
    BY <2>1, <2>2, <2>4, Decision
<1>8. QED
  BY <1>1, <1>2, <1>3, <1>4, <1>5, <1>6, <1>7 DEF Next, Promise!Next

\* To its caller, each run of Collect is a round of FanOut.
THEOREM CollectImplementsFanOut == Spec => ImplementsFanOut
<1>1. Init => Promise!Init
  BY DEF Init, Promise!Init, StageOf, OutcomeOf, EmptyResult
<1>2. IInv /\ [Next]_vars => [Promise!Next]_(Promise!fanVars)
  BY FanOutStep DEF AbstractUnchanged, Stage, Asked, Outcome, Promise!fanVars
<1>3. QED
  BY <1>1, <1>2, CollectInvariant, PTL DEF Spec, ImplementsFanOut, Promise!Spec
=============================================================================
