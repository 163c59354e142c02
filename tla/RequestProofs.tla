---------------------------- MODULE RequestProofs ----------------------------
(***************************************************************************)
(* Proofs about what stands between an adapter's Fetch and the service it  *)
(* asks: the guard that Freebuff's request must pass (FreebuffGuard), and  *)
(* the dialer that makes the connection of every HTTP request              *)
(* (RaceDialer).                                                           *)
(***************************************************************************)
EXTENDS FreebuffGuard, RaceDialer, FiniteSetTheorems, SequenceTheorems, TLAPS

(***************************************************************************)
(* The guard, for any pids and any number of instances.  The invariant     *)
(* Guard says what a Fetch knows of an instance that has run since it      *)
(* began: its file is still there, and what was read is its pid.           *)
(***************************************************************************)
Watched ==
  /\ steady => Announced
  /\ steady /\ fetch = "decide" => record = cli
  /\ HeldBack

Counted ==
  /\ fetch \in {"stat", "read", "decide", "token", "send"} => requests = 0
  /\ fetch \in {"idle", "await"} => requests \in {0, 1}

Guard == TypeOK /\ Watched /\ Counted

LEMMA GuardInit == Init => Guard
<1> SUFFICES ASSUME Init PROVE Guard
  OBVIOUS
<1>1. TypeOK
  <2>1. starts \in 0..MaxStarts /\ requests \in Nat
    BY GuardAssumption DEF Init
  <2>2. others \subseteq Pids /\ cli \notin others
    BY DEF Init
  <2>3. cli \in Pids \cup {None} /\ owner \in Pids \cup {None, Torn} /\ record \in Pids \cup {None, Torn}
    BY DEF Init
  <2>4. old \in BOOLEAN /\ statOld \in BOOLEAN /\ steady \in BOOLEAN
    BY DEF Init
  <2>5. QED
    BY <2>1, <2>2, <2>3, <2>4 DEF Init, TypeOK
<1>2. Watched /\ Counted
  BY DEF Init, Watched, Counted, HeldBack
<1>3. QED
  BY <1>1, <1>2 DEF Guard

\* The CLI, other processes and the clock preserve it.
LEMMA GuardCli ==
  ASSUME Guard, Cli \/ OtherProcess \/ Ages
  PROVE  Guard'
<1> USE GuardAssumption DEF Guard, TypeOK, Watched, Counted, Announced, HeldBack, None, Torn,
        fetchVars
<1>1. CASE InstanceStarts
  BY <1>1 DEF InstanceStarts
<1>2. CASE WritesOwner
  BY <1>2 DEF WritesOwner
<1>3. CASE InstanceEnds
  BY <1>3 DEF InstanceEnds
<1>4. CASE OtherProcess
  BY <1>4 DEF OtherProcess
<1>5. CASE Ages
  BY <1>5 DEF Ages
<1>6. QED
  BY <1>1, <1>2, <1>3, <1>4, <1>5 DEF Cli

\* So do the steps of Fetch; the guard holds at Proceed, where the pid that
\* was read is the instance's, which is alive.
LEMMA GuardFetch ==
  ASSUME Guard, Fetch
  PROVE  Guard'
<1> USE GuardAssumption DEF Guard, TypeOK, Watched, Counted, Announced, HeldBack, None, Torn,
        Step, cliVars
<1>1. CASE Begin
  BY <1>1 DEF Begin
<1>2. CASE Stat
  BY <1>2 DEF Stat
<1>3. CASE Read
  BY <1>3 DEF Read, ReadBack
<1>4. CASE Skip
  BY <1>4 DEF Skip
<1>5. CASE Proceed
  <2>1. ~steady
    BY <1>5 DEF Proceed, InstanceActive, ProcessAlive
  <2>2. QED
    BY <1>5, <2>1 DEF Proceed
<1>6. CASE ReadToken
  BY <1>6 DEF ReadToken
<1>7. CASE Request
  BY <1>7 DEF Request
<1>8. CASE Response
  BY <1>8 DEF Response, AfterError
<1>9. QED
  BY <1>1, <1>2, <1>3, <1>4, <1>5, <1>6, <1>7, <1>8 DEF Fetch

THEOREM GuardInvariant == Spec => []Guard
<1>1. Guard /\ UNCHANGED vars => Guard'
  BY DEF Guard, TypeOK, Watched, Counted, Announced, HeldBack, vars
<1>2. Guard /\ [Next]_vars => Guard'
  BY <1>1, GuardCli, GuardFetch DEF Next
<1>3. QED
  BY GuardInit, <1>2, PTL DEF Spec

\* Every variable keeps its type.
THEOREM GuardTypeCorrect == Spec => []TypeOK
  BY GuardInvariant, PTL DEF Guard

\* No Fetch sends its request twice.
THEOREM OneRequestHolds == Spec => []OneRequest
<1>1. Guard => OneRequest
  BY DEF Guard, TypeOK, Counted, OneRequest
<1>2. QED
  BY GuardInvariant, <1>1, PTL

\* An instance that had announced itself when a Fetch began, and runs all
\* through it, is sent no request, and without one at most one is sent.
THEOREM GuardSoundHolds == Spec => []GuardSound
<1>1. Guard /\ OneRequest => GuardSound
  BY DEF Guard, Watched, GuardSound
<1>2. QED
  BY GuardInvariant, OneRequestHolds, <1>1, PTL

(***************************************************************************)
(* The dialer, for any finite set of addresses and whatever becomes of     *)
(* their dials.  The invariant Race says that a connection that was made   *)
(* and sent is in the channel for as long as the caller ranges over it, so *)
(* that a channel found closed and empty means there is none.              *)
(***************************************************************************)
\* Whom the caller and the channel know of.
Handed ==
  /\ pc = "lookup" => dial = [i \in Ips |-> "idle"] /\ ch = <<>> /\ ~closed
  /\ \A i \in Ips: conn[i] = "open" => dial[i] \in {"dialled", "done"}
  /\ \A k \in 1..Len(ch): ch[k].ok => conn[ch[k].ip] = "open"
  /\ pc = "range" => \A i \in Ips: dial[i] = "done" /\ conn[i] = "open" =>
                       \E k \in 1..Len(ch): ch[k] = [ip |-> i, ok |-> TRUE]

\* After an error no dial is left that could still connect.
Over == returned = "error" => \A i \in Ips: dial[i] \in {"idle", "done"}

Race == DialTypeOK /\ (pc # "returned" <=> returned = Nobody) /\ Handed /\ Over /\ ErrorIfNoneConnects

\* Nothing has been dialled yet.
LEMMA RaceInit == DialInit => Race
<1> SUFFICES ASSUME DialInit PROVE Race
  OBVIOUS
<1>1. Cardinality(Ips) \in Nat
  BY IpsAssumption, FS_CardinalityType
<1>2. ch = <<>> /\ <<>> \in Seq(Result) /\ Len(<<>>) = 0
  BY EmptySeq DEF DialInit
<1>3. DialTypeOK
  <2>1. ch \in Seq(Result) /\ Len(ch) <= Cardinality(Ips)
    <3>1. ch \in Seq(Result)
      BY <1>2
    <3>2. Len(ch) = 0
      BY <1>2
    <3>3. QED
      BY <1>1, <3>1, <3>2
  <2>2. QED
    BY <2>1 DEF DialInit, DialTypeOK
<1>4. returned = Nobody /\ Nobody \notin Ips /\ Nobody # "error"
  BY OutcomesAssumption DEF DialInit, Nobody
<1>5. Handed
  BY <1>2 DEF DialInit, Handed
<1>6. QED
  BY <1>3, <1>4, <1>5 DEF DialInit, Race, Over, ErrorIfNoneConnects

\* The steps of the caller.
LEMMA RaceCaller == Race /\ Caller => Race'
<1> SUFFICES ASSUME Race, Caller PROVE Race'
  OBVIOUS
<1> USE DEF Race, DialTypeOK, Handed, Over, ErrorIfNoneConnects
<1>0. ch # <<>> => /\ Head(ch) \in Result /\ Head(ch) = ch[1] /\ Tail(ch) \in Seq(Result)
                   /\ Len(Tail(ch)) = Len(ch) - 1 /\ Len(ch) \in Nat \ {0}
                   /\ \A k \in 1..Len(Tail(ch)): Tail(ch)[k] = ch[k + 1]
  <2> SUFFICES ASSUME ch # <<>>, ch \in Seq(Result)
      PROVE  /\ Head(ch) \in Result /\ Head(ch) = ch[1] /\ Tail(ch) \in Seq(Result)
             /\ Len(Tail(ch)) = Len(ch) - 1 /\ Len(ch) \in Nat \ {0}
             /\ \A k \in 1..Len(Tail(ch)): Tail(ch)[k] = ch[k + 1]
    OBVIOUS
  <2> HIDE DEF Race, DialTypeOK, Handed, Over, ErrorIfNoneConnects
  <2>1. QED
    BY HeadTailProperties
<1>00. Cardinality(Ips) \in Nat
  BY IpsAssumption, FS_CardinalityType
<1>1. CASE Lookup
  <2>1. ch = <<>> /\ ch' = ch /\ Len(ch) = 0 /\ returned' = Nobody
    BY <1>1 DEF Lookup
  <2>2. \A i \in Ips: conn'[i] = "none" /\ dial'[i] = "dialling"
    BY <1>1 DEF Lookup
  <2>3. DialTypeOK' /\ pc' = "range"
    BY <1>1, <2>1 DEF Lookup
  <2>4. Handed'
    BY <2>1, <2>2, <2>3
  <2>5. QED
    BY <1>1, <2>1, <2>2, <2>3, <2>4, OutcomesAssumption DEF Lookup, Nobody
<1>2. CASE LookupFails
  BY <1>2, OutcomesAssumption DEF LookupFails, Nobody
<1>3. CASE ReceiveConnection
  <2>1. Head(ch).ip \in Ips /\ conn[Head(ch).ip] = "open"
    BY <1>3, <1>0 DEF ReceiveConnection, CanReceive, Result
  <2>2. returned' = Head(ch).ip /\ returned' \notin {Nobody, "direct", "error"}
    BY <1>3, <2>1, OutcomesAssumption DEF ReceiveConnection
  <2>3. \A k \in 1..Len(ch'): ch'[k].ok => conn'[ch'[k].ip] = "open"
    BY <1>3, <1>0 DEF ReceiveConnection, CanReceive
  <2>4. QED
    BY <1>3, <1>0, <1>00, <2>1, <2>2, <2>3 DEF ReceiveConnection, CanReceive
<1>4. CASE ReceiveError
  <2>1. ASSUME NEW i \in Ips, dial[i] = "done", conn[i] = "open"
        PROVE  \E k \in 1..Len(ch'): ch'[k] = [ip |-> i, ok |-> TRUE]
    <3>1. PICK k \in 1..Len(ch): ch[k] = [ip |-> i, ok |-> TRUE]
      BY <1>4, <2>1 DEF ReceiveError
    <3>2. k # 1
      BY <1>4, <1>0, <3>1 DEF ReceiveError, CanReceive
    <3>3. k - 1 \in 1..Len(Tail(ch)) /\ Tail(ch)[k - 1] = ch[k]
      BY <1>4, <1>0, <3>2 DEF ReceiveError, CanReceive
    <3>4. QED
      BY <1>4, <3>1, <3>3 DEF ReceiveError
  <2>2. \A k \in 1..Len(ch'): ch'[k].ok => conn'[ch'[k].ip] = "open"
    BY <1>4, <1>0 DEF ReceiveError, CanReceive
  <2>3. QED
    BY <1>4, <1>0, <1>00, <2>1, <2>2 DEF ReceiveError, CanReceive
<1>5. CASE ReturnError
  <2>1. \A i \in Ips: dial[i] = "done" /\ conn[i] = "none"
    BY <1>5 DEF ReturnError, Exhausted
  <2>2. QED
    BY <1>5, <2>1, OutcomesAssumption DEF ReturnError, Nobody
<1>6. QED
  BY <1>1, <1>2, <1>3, <1>4, <1>5 DEF Caller

\* The steps of a goroutine, and the deadline.
LEMMA RaceRest ==
  ASSUME Race, Expire \/ (\E i \in Ips: Goroutine(i)) \/ CloseResults
  PROVE  Race'
<1> USE DEF Race, DialTypeOK, Handed, Over, ErrorIfNoneConnects
<1>0. Cardinality(Ips) \in Nat
  BY IpsAssumption, FS_CardinalityType
<1>1. CASE Expire
  BY <1>1 DEF Expire
<1>2. CASE CloseResults
  BY <1>2 DEF CloseResults, AllSent
<1>3. ASSUME NEW i \in Ips, DialConnects(i) PROVE Race'
  BY <1>3 DEF DialConnects
<1>4. ASSUME NEW i \in Ips, DialEndsBadly(i) PROVE Race'
  BY <1>4 DEF DialEndsBadly
<1>5. ASSUME NEW i \in Ips, SendResult(i) PROVE Race'
  <2> DEFINE r == [ip |-> i, ok |-> conn[i] = "open"]
  <2>1. /\ r \in Result /\ ch' = Append(ch, r) /\ ch' \in Seq(Result)
        /\ Len(ch') = Len(ch) + 1 /\ Len(ch) \in Nat
        /\ ch'[Len(ch) + 1] = r
        /\ \A k \in 1..Len(ch): ch'[k] = ch[k]
    <3>1. r \in Result /\ ch \in Seq(Result) /\ ch' = Append(ch, r)
      BY <1>5 DEF SendResult, Result
    <3>2. QED
      BY <3>1, AppendProperties
  <2>2. \A k \in 1..Len(ch'): ch'[k].ok => conn'[ch'[k].ip] = "open"
    <3> SUFFICES ASSUME NEW k \in 1..Len(ch'), ch'[k].ok PROVE conn'[ch'[k].ip] = "open"
      OBVIOUS
    <3>1. CASE k = Len(ch) + 1
      BY <1>5, <2>1, <3>1 DEF SendResult
    <3>2. CASE k \in 1..Len(ch)
      BY <1>5, <2>1, <3>2 DEF SendResult
    <3>3. QED
      BY <2>1, <3>1, <3>2
  <2>3. ASSUME pc' = "range", NEW j \in Ips, dial'[j] = "done", conn'[j] = "open"
        PROVE  \E k \in 1..Len(ch'): ch'[k] = [ip |-> j, ok |-> TRUE]
    <3>1. CASE j = i
      <4>1. conn[i] = "open"
        BY <1>5, <2>3, <3>1 DEF SendResult
      <4>2. r = [ip |-> j, ok |-> TRUE]
        BY <3>1, <4>1
      <4>3. Len(ch) + 1 \in 1..Len(ch')
        BY <2>1
      <4>4. QED
        BY <2>1, <4>2, <4>3
    <3>2. CASE j # i
      <4>0. pc = "range" /\ dial[j] = "done" /\ conn[j] = "open"
        BY <1>5, <2>3, <3>2 DEF SendResult
      <4>1. PICK k \in 1..Len(ch): ch[k] = [ip |-> j, ok |-> TRUE]
        BY <4>0
      <4>2. QED
        BY <2>1, <4>1
    <3>3. QED
      BY <3>1, <3>2
  <2>4. QED
    BY <1>0, <1>5, <2>1, <2>2, <2>3 DEF SendResult, Capacity
<1>6. QED
  BY <1>1, <1>2, <1>3, <1>4, <1>5 DEF Goroutine, Ends, DialFails, AttemptTimesOut

\* The invariant of the race.
THEOREM RaceInvariant == DialSpec => []Race
<1>1. Race /\ UNCHANGED dialVars => Race'
  BY DEF Race, DialTypeOK, Handed, Over, ErrorIfNoneConnects, dialVars
<1>2. Race /\ [DialNext]_dialVars => Race'
  BY <1>1, RaceCaller, RaceRest DEF DialNext
<1>3. QED
  BY RaceInit, <1>2, PTL DEF DialSpec

\* The types, and that the channel is closed only after the last result, so
\* that no goroutine panics by sending on it.
THEOREM DialerTypeCorrect == DialSpec => []DialTypeOK
<1>1. Race => DialTypeOK
  BY DEF Race
<1>2. QED
  BY <1>1, RaceInvariant, PTL

\* raceDialer returns a connection that was made, and an error only if none
\* was, for any number of addresses.
THEOREM ErrorIfNoneConnectsHolds == DialSpec => []ErrorIfNoneConnects
<1>1. Race => ErrorIfNoneConnects
  BY DEF Race
<1>2. QED
  BY <1>1, RaceInvariant, PTL
=============================================================================
